------------------------------ MODULE Commands ------------------------------
(* Commands of got(1) that processes run in one work tree, as sequences of    *)
(* the steps that touch what they share: the lock file .got/lock, the meta    *)
(* data files base-commit and head-ref, the file index, and the repository's  *)
(* branches with their lock files.  What the commands do to files is in       *)
(* WorktreeUpdate and WorktreeOps; here the question is what several of them  *)
(* do to each other.  Not among them are rebase and histedit, whose single    *)
(* command is module Rewrite, and init, clone and fetch, which open no work   *)
(* tree or (fetch) only read its meta data: module Fetch.                     *)
EXTENDS Integers, Sequences, FiniteSets, Functions

CONSTANTS
    Proc,       \* processes that run got in the work tree
    Branch,     \* branches of the repository
    Platforms,  \* is O_EXLOCK a real flag here?  A subset of BOOLEAN
    PackedTips, \* the first heads that are in packed-refs only
    MaxCommits, \* bound: commits made
    MaxRuns     \* bound: commands started

ASSUME CommandsAssumption ==
    /\ Platforms \subseteq BOOLEAN
    /\ MaxCommits \in Nat /\ MaxRuns \in Nat
    /\ Proc \cap {"nobody", "exited"} = {} /\ Branch \cap {"", "packed-refs"} = {}

VARIABLES
    exlock,     \* O_EXLOCK locks on open (the BSDs), or is 0 (Linux)
    hist,       \* commit |-> its ancestors and itself; commits are numbered
    refs,       \* branch |-> head as a reader finds it, for those that exist
    loose,      \* the branches that have a file of their own
    lines,      \* packed-refs: branch |-> head, perhaps an old one
    refLock,    \* branch or packed-refs |-> who created its lock file
    meta,       \* base-commit, head-ref; "format" marks a complete work tree
    index,      \* file index on disk: base commits of entries, scheduled paths
    flocks,     \* process |-> its lock on .got/lock
    proc,       \* the running commands
    runs

vars == <<exlock, hist, refs, loose, lines, refLock, meta, index, flocks, proc, runs>>
refFiles == <<refs, loose, lines>>
repo == <<hist, refFiles, refLock>>

Nobody == "nobody"
Exited == "exited"  \* whoever created the lock file is gone
PackedRefs == "packed-refs"
LockFile == Branch \cup {PackedRefs}
Commit == 1..Len(hist)
NoIndex == [at |-> {}, sched |-> FALSE]
Idle == [todo |-> <<>>, base |-> 0, head |-> "", arg |-> "", target |-> 0,
         tip |-> 0, aside |-> FALSE, idx |-> NoIndex, orig |-> NoIndex]

-----------------------------------------------------------------------------
(* The commands: the set of step sequences their options lead to.             *)

(* The shape of the operations that change the index: exclusive lock, read,   *)
(* work, write back, shared lock.                                             *)
Locked(work) == <<"LockEx", "ReadIndex">> \o work \o <<"Sync", "LockSh">>
CheckoutFiles == Locked(<<"Checkout">>)

(* Most commands that only read work in a repository (-r) or a work tree.     *)
InEither(steps) == {steps, <<"Open">> \o steps}

Import == {<<"CheckNew", "Import", "WriteRef">>}
CheckoutCmd == {<<"ResolveArg", "InitTree", "Stamp", "Open">> \o s \o CheckoutFiles :
                s \in {<<>>, <<"ResolveArg", "Ancestry", "SetBase">>}}
Update == {<<"Open", "Resolve", "Ancestry", "SetBase">> \o CheckoutFiles,
           <<"Open", "ResolveArg", "SwitchHead", "SetBase">> \o CheckoutFiles}
Log == InEither(<<"Read">>)
Diff == InEither(<<"Read">>)
Blame == InEither(<<"Read">>)
Tree == InEither(<<"Read">>)
Status == {<<"Open", "Read">>}
Ref == InEither(<<"Read">>) \cup InEither(<<"Resolve", "WriteRef">>)
       \cup InEither(<<"DeleteRef">>)
AddBranch == <<"Resolve", "CheckNew", "WriteRef">>
BranchCmd == InEither(<<"Read">>) \cup InEither(<<"NotCurrent", "DeleteRef">>)
             \cup InEither(AddBranch)
             \cup {<<"Open">> \o AddBranch \o <<"SwitchHead", "SetBase">> \o CheckoutFiles}
\* The tag itself is written by ObjectCreate; tags are no branches.
Tag == InEither(<<"Read">>)
Add == {<<"Open">> \o Locked(<<"Schedule">>)}
Remove == {<<"Open">> \o Locked(<<"Schedule">>)}
Revert == {<<"Open">> \o Locked(<<"Unschedule">>)}
CommitCmd == {<<"Open", "LockEx", "ResolveHead", "ReadIndex", "Collect", "LockHead",
                "WriteHead", "SetBase", "UnlockRefs", "AfterCommit", "Sync", "LockSh">>}
Pick == {<<"Open", "Read">> \o Locked(<<"MergeOk", "Schedule">>)}
Integrate == {<<"Open", "LockEx", "NotCurrent", "ReadIndex", "RebaseOk", "LockArg",
                "LockHead", "ResolveBoth", "Forwards", "SetBase", "Checkout",
                "MoveHead", "Sync", "UnlockRefs", "LockSh">>}
Stage == {<<"Open", "Read">>, <<"Open">> \o Locked(<<"Schedule">>)}
Unstage == {<<"Open">> \o Locked(<<"Unschedule">>)}
Cat == InEither(<<"Read">>)
Info == {<<"Open">>, <<"Open", "LockSh", "ReadIndex", "Unlock">>}

ArgSteps == {"ResolveArg", "CheckNew", "WriteRef", "DeleteRef", "LockArg"}

Programs ==
    UNION {Import, CheckoutCmd, Update, Log, Diff, Blame, Tree, Status, Ref, BranchCmd,
           Tag, Add, Remove, Revert, CommitCmd, Pick, Integrate, Stage, Unstage, Cat, Info}

-----------------------------------------------------------------------------
(* Processes and their locks.                                                 *)

Running(p) == proc[p].todo # <<>>
At(p, step) == Running(p) /\ Head(proc[p].todo) = step
Goes(p, rec) == proc' = [proc EXCEPT ![p] = [rec EXCEPT !.todo = Tail(@)]]
Proceed(p) == Goes(p, proc[p])

(* flock(2): readers share, a writer is alone.                                *)
MayLock(p, how) ==
    \A q \in Proc \ {p} : flocks[q] # "ex" /\ (how = "ex" => flocks[q] = "un")

(* A process that ends closes the lock file's descriptor, and with it gives   *)
(* the lock back.                                                             *)
Exits(p) ==
    /\ proc' = [proc EXCEPT ![p] = Idle]
    /\ flocks' = [flocks EXCEPT ![p] = "un"]

(* A command is started, with a branch as its argument if it takes one.       *)
Start(p, program, b) ==
    /\ ~Running(p) /\ runs < MaxRuns
    /\ (b = "") = (Range(program) \cap ArgSteps = {})
    /\ proc' = [proc EXCEPT ![p] =
                    [Idle EXCEPT !.todo = program \o <<"Close">>, !.arg = b]]
    /\ runs' = runs + 1
    /\ UNCHANGED <<exlock, repo, meta, index, flocks>>

Close(p) ==
    /\ At(p, "Close")
    /\ Exits(p)
    /\ UNCHANGED <<exlock, repo, meta, index, runs>>

(* Any call may fail.  got_ref_close does not remove a lock file: prepare     *)
(* leaves the one on the branch behind when it cannot lock the work tree's    *)
(* branch, and so does cmd_integrate when it cannot resolve one of them.      *)
Fail(p) ==
    /\ Running(p)
    /\ Exits(p)
    /\ refLock' = [b \in LockFile |->
                    IF refLock[b] # p THEN refLock[b]
                    ELSE IF At(p, "LockHead") \/ At(p, "ResolveBoth") THEN Exited ELSE Nobody]
    /\ UNCHANGED <<exlock, hist, refFiles, meta, index, runs>>

Kill(p) ==
    /\ Running(p)
    /\ Exits(p)
    /\ refLock' = [b \in LockFile |-> IF refLock[b] = p THEN Exited ELSE refLock[b]]
    /\ UNCHANGED <<exlock, hist, refFiles, meta, index, runs>>

(* An error after the index has changed in memory still writes the index.     *)
FailAndSync(p) ==
    /\ At(p, "Checkout") \/ At(p, "MoveHead") \/ At(p, "Schedule") \/ At(p, "Unschedule")
    /\ proc' = [proc EXCEPT ![p].todo = <<"Sync", "UnlockRefs", "LockSh", "Close">>]
    /\ UNCHANGED <<exlock, repo, meta, index, flocks, runs>>

-----------------------------------------------------------------------------
(* Opening the work tree.                                                     *)

(* got_worktree_init: the lock file is created first and must not exist; for  *)
(* cmd_checkout a work tree that exists is no error.                          *)
InitTree(p) ==
    /\ At(p, "InitTree")
    /\ IF meta.stage = "none"
       THEN /\ proc[p].arg \in DOMAIN refs
            /\ meta' = [stage |-> "partial", base |-> refs[proc[p].arg],
                        head |-> proc[p].arg]
            /\ index' = NoIndex
            /\ Proceed(p)
       ELSE /\ proc' = [proc EXCEPT ![p].todo = Tail(Tail(@))]
            /\ UNCHANGED <<meta, index>>
    /\ UNCHANGED <<exlock, repo, flocks, runs>>

Stamp(p) ==
    /\ At(p, "Stamp")
    /\ meta' = [meta EXCEPT !.stage = "ready"]
    /\ Proceed(p)
    /\ UNCHANGED <<exlock, repo, index, flocks, runs>>

(* A mutant of Open: the shared lock that got_lib_worktree.h speaks of.       *)
OpenShared(p) ==
    /\ At(p, "Open")
    /\ meta.stage = "ready"
    /\ exlock => MayLock(p, "sh")
    /\ flocks' = [flocks EXCEPT ![p] = IF exlock THEN "sh" ELSE @]
    /\ Goes(p, [proc[p] EXCEPT !.base = meta.base, !.head = meta.head])
    /\ UNCHANGED <<exlock, repo, meta, index, runs>>

(* open_worktree: O_EXLOCK | O_NONBLOCK, then the meta data is read once and  *)
(* kept for as long as the work tree is open.                                 *)
Open(p) ==
    /\ At(p, "Open")
    /\ meta.stage = "ready"
    /\ exlock => MayLock(p, "ex")
    /\ flocks' = [flocks EXCEPT ![p] = IF exlock THEN "ex" ELSE @]
    /\ Goes(p, [proc[p] EXCEPT !.base = meta.base, !.head = meta.head])
    /\ UNCHANGED <<exlock, repo, meta, index, runs>>

(* A mutant of LockEx: any reader's lock is good enough.                      *)
LockExShared(p) ==
    /\ At(p, "LockEx")
    /\ MayLock(p, "sh")
    /\ flocks' = [flocks EXCEPT ![p] = "sh"]
    /\ Proceed(p)
    /\ UNCHANGED <<exlock, repo, meta, index, runs>>

(* lock_worktree never waits: the lock, or GOT_ERR_WORKTREE_BUSY.             *)
LockEx(p) ==
    /\ At(p, "LockEx")
    /\ MayLock(p, "ex")
    /\ flocks' = [flocks EXCEPT ![p] = "ex"]
    /\ Proceed(p)
    /\ UNCHANGED <<exlock, repo, meta, index, runs>>

LockSh(p) ==
    /\ At(p, "LockSh")
    /\ MayLock(p, "sh")
    /\ flocks' = [flocks EXCEPT ![p] = "sh"]
    /\ Proceed(p)
    /\ UNCHANGED <<exlock, repo, meta, index, runs>>

Unlock(p) ==
    /\ At(p, "Unlock")
    /\ flocks' = [flocks EXCEPT ![p] = "un"]
    /\ Proceed(p)
    /\ UNCHANGED <<exlock, repo, meta, index, runs>>

-----------------------------------------------------------------------------
(* Steps that only read, and checks whose failure is an error (Fail).         *)

Read(p) ==
    /\ At(p, "Read")
    /\ Proceed(p)
    /\ UNCHANGED <<exlock, repo, meta, index, flocks, runs>>

(* The commit to work on: the head of the branch, or one given with -c that   *)
(* check_same_branch finds on it.                                             *)
Resolve(p) ==
    /\ \/ /\ At(p, "Resolve")
          /\ \E b \in DOMAIN refs : \E c \in hist[refs[b]] :
                /\ proc[p].head # "" => b = proc[p].head
                /\ Goes(p, [proc[p] EXCEPT !.target = c])
       \/ /\ At(p, "ResolveArg") /\ proc[p].arg \in DOMAIN refs
          /\ \E c \in hist[refs[proc[p].arg]] : Goes(p, [proc[p] EXCEPT !.target = c])
       \/ /\ At(p, "ResolveHead") /\ proc[p].head \in DOMAIN refs
          /\ Goes(p, [proc[p] EXCEPT !.target = refs[proc[p].head]])
       \/ /\ At(p, "ResolveBoth")
          /\ Proceed(p)
    /\ UNCHANGED <<exlock, repo, meta, index, flocks, runs>>

Linear(c, d) == c \in hist[d] \/ d \in hist[c]

(* A mutant of CheckAncestry: integrate also goes backwards.                  *)
CheckAncestryEither(p) ==
    /\ At(p, "Ancestry") \/ At(p, "Forwards")
    /\ Linear(proc[p].target, IF At(p, "Forwards") THEN proc[p].tip ELSE proc[p].base)

(* check_linear_ancestry; forwards in time only for integrate.                *)
CheckAncestry(p) ==
    LET me == proc[p]
    IN  \/ At(p, "Ancestry") /\ Linear(me.target, me.base)
        \/ /\ At(p, "Forwards")
           /\ me.target # me.tip /\ me.tip \in hist[me.target]

Check(p) ==
    LET me == proc[p]
    IN  \/ CheckAncestry(p)
        \/ At(p, "NotCurrent") /\ me.arg # me.head /\ me.arg \in DOMAIN refs
        \/ At(p, "CheckNew") /\ me.arg \notin DOMAIN refs
        \/ At(p, "Collect") /\ me.idx.sched
        \/ At(p, "MergeOk") /\ me.idx.at \subseteq {me.base}
        \/ At(p, "RebaseOk") /\ me.idx.at \subseteq {me.base} /\ ~me.idx.sched

Checked(p) ==
    /\ Check(p)
    /\ Proceed(p)
    /\ UNCHANGED <<exlock, repo, meta, index, flocks, runs>>

-----------------------------------------------------------------------------
(* Meta data and file index.                                                  *)

(* switch_head_ref writes head-ref when the branch is another one.            *)
SwitchHead(p) ==
    /\ At(p, "SwitchHead")
    /\ meta' = [meta EXCEPT !.head = proc[p].arg]
    /\ Goes(p, [proc[p] EXCEPT !.head = proc[p].arg])
    /\ UNCHANGED <<exlock, repo, index, flocks, runs>>

SetBase(p) ==
    /\ At(p, "SetBase")
    /\ meta' = [meta EXCEPT !.base = proc[p].target]
    /\ Goes(p, [proc[p] EXCEPT !.base = proc[p].target])
    /\ UNCHANGED <<exlock, repo, index, flocks, runs>>

ReadIndex(p) ==
    /\ At(p, "ReadIndex")
    /\ Goes(p, [proc[p] EXCEPT !.idx = index, !.orig = index])
    /\ UNCHANGED <<exlock, repo, meta, index, flocks, runs>>

(* What the operation does to the index in memory.  An update of some paths   *)
(* only leaves entries of other base commits behind.                          *)
Worked(p) ==
    LET me == proc[p]
    IN  \/ /\ At(p, "Checkout")
           /\ \E rest \in {{}, me.idx.at} : Goes(p, [me EXCEPT !.idx.at = rest \cup {me.base}])
        \/ At(p, "Schedule") /\ Goes(p, [me EXCEPT !.idx.sched = TRUE])
        \/ At(p, "Unschedule") /\ Goes(p, [me EXCEPT !.idx.sched = FALSE])
        \/ /\ At(p, "AfterCommit")
           /\ Goes(p, [me EXCEPT !.idx = [at |-> @.at \cup {me.target}, sched |-> FALSE]])

Work(p) ==
    /\ Worked(p)
    /\ UNCHANGED <<exlock, repo, meta, index, flocks, runs>>

(* sync_fileindex replaces the whole file.                                    *)
Sync(p) ==
    /\ At(p, "Sync")
    /\ index' = proc[p].idx
    /\ Proceed(p)
    /\ UNCHANGED <<exlock, repo, meta, flocks, runs>>

-----------------------------------------------------------------------------
(* References.                                                                *)

(* got_ref_open with lock hands back what it read: the integrated branch's    *)
(* commit, or the tip of the work tree's branch.                              *)
RefToLock(p) == IF At(p, "LockArg") THEN proc[p].arg ELSE proc[p].head
Opens(p, file, c) ==
    /\ refLock[file] = Nobody
    /\ refLock' = [refLock EXCEPT ![file] = p]
    /\ Goes(p, IF At(p, "LockArg") THEN [proc[p] EXCEPT !.target = c, !.aside = FALSE]
               ELSE [proc[p] EXCEPT !.tip = c, !.aside = FALSE])
    /\ UNCHANGED <<exlock, hist, refFiles, meta, index, flocks, runs>>

(* A branch with a file of its own is locked by that file's lock.             *)
LockRef(p) ==
    /\ At(p, "LockArg") \/ At(p, "LockHead")
    /\ ~proc[p].aside /\ RefToLock(p) \in loose
    /\ Opens(p, RefToLock(p), refs[RefToLock(p)])

(* Without one open_ref has taken the lock, found no file, and given it back: *)
(* the lock of packed-refs comes next, and what is on that branch's line.     *)
NoLooseRef(p) ==
    /\ At(p, "LockArg") \/ At(p, "LockHead")
    /\ ~proc[p].aside /\ RefToLock(p) \in Branch \ loose
    /\ refLock[RefToLock(p)] = Nobody
    /\ proc' = [proc EXCEPT ![p].aside = TRUE]
    /\ UNCHANGED <<exlock, repo, meta, index, flocks, runs>>

LockPacked(p) ==
    /\ At(p, "LockArg") \/ At(p, "LockHead")
    /\ proc[p].aside /\ RefToLock(p) \in DOMAIN lines
    /\ Opens(p, PackedRefs, lines[RefToLock(p)])

UnlockRefs(p) ==
    /\ At(p, "UnlockRefs")
    /\ refLock' = [b \in LockFile |-> IF refLock[b] = p THEN Nobody ELSE refLock[b]]
    /\ Proceed(p)
    /\ UNCHANGED <<exlock, hist, refFiles, meta, index, flocks, runs>>

(* A reference is written to its own file; a line in packed-refs stays.       *)
SetRef(b, c) ==
    /\ refs' = [x \in DOMAIN refs \cup {b} |-> IF x = b THEN c ELSE refs[x]]
    /\ loose' = loose \cup {b}
    /\ lines' = lines

(* got_ref_write takes the lock file itself for the time of the write, unless *)
(* the reference was opened with a lock, be it the one of packed-refs.        *)
WriteRef(p) ==
    /\ At(p, "WriteRef")
    /\ refLock[proc[p].arg] = Nobody
    /\ SetRef(proc[p].arg, proc[p].target)
    /\ Proceed(p)
    /\ UNCHANGED <<exlock, hist, refLock, meta, index, flocks, runs>>

(* got_ref_delete removes the file and the line, each under its lock.         *)
DeleteRef(p) ==
    LET b == proc[p].arg
    IN  /\ At(p, "DeleteRef")
        /\ b \in DOMAIN refs /\ refLock[b] = Nobody
        /\ b \in DOMAIN lines => refLock[PackedRefs] = Nobody
        /\ refs' = [x \in DOMAIN refs \ {b} |-> refs[x]]
        /\ loose' = loose \ {b}
        /\ lines' = [x \in DOMAIN lines \ {b} |-> lines[x]]
        /\ Proceed(p)
        /\ UNCHANGED <<exlock, hist, refLock, meta, index, flocks, runs>>

(* commit_worktree under the lock of the branch: the head must be the one     *)
(* resolved before, the parent of the new commit is the base commit.          *)
WriteHead(p) ==
    LET me == proc[p]
        new == Len(hist) + 1
    IN  /\ At(p, "WriteHead") /\ Len(hist) < MaxCommits
        /\ me.tip = me.target
        /\ hist' = Append(hist, hist[me.base] \cup {new})
        /\ SetRef(me.head, new)
        /\ Goes(p, [me EXCEPT !.target = new])
        /\ UNCHANGED <<exlock, refLock, meta, index, flocks, runs>>

(* integrate: the work tree's branch becomes the integrated branch.           *)
MoveHead(p) ==
    /\ At(p, "MoveHead")
    /\ SetRef(proc[p].head, proc[p].target)
    /\ Proceed(p)
    /\ UNCHANGED <<exlock, hist, refLock, meta, index, flocks, runs>>

(* got_repo_import: a commit without parents.                                 *)
ImportRoot(p) ==
    /\ At(p, "Import") /\ Len(hist) < MaxCommits
    /\ hist' = Append(hist, {Len(hist) + 1})
    /\ Goes(p, [proc[p] EXCEPT !.target = Len(hist) + 1])
    /\ UNCHANGED <<exlock, refFiles, refLock, meta, index, flocks, runs>>

(* A commit from another work tree of the repository.                         *)
OtherCommit(b) ==
    /\ b \in DOMAIN refs /\ refLock[b] = Nobody /\ Len(hist) < MaxCommits
    /\ b \notin loose => refLock[PackedRefs] = Nobody
    /\ hist' = Append(hist, hist[refs[b]] \cup {Len(hist) + 1})
    /\ SetRef(b, Len(hist) + 1)
    /\ UNCHANGED <<exlock, refLock, meta, index, flocks, proc, runs>>

-----------------------------------------------------------------------------
(* Two branches, the second one commit ahead; some of them in packed-refs;    *)
(* with or without a work tree.                                               *)
Init ==
    /\ exlock \in Platforms
    /\ hist = <<{1}, {1, 2}>>
    /\ \E b, c \in Branch : b # c /\ refs = [x \in {b, c} |-> IF x = b THEN 1 ELSE 2]
    /\ loose = {b \in DOMAIN refs : refs[b] \notin PackedTips}
    /\ lines = [b \in DOMAIN refs \ loose |-> refs[b]]
    /\ refLock = [b \in LockFile |-> Nobody]
    /\ \E b \in DOMAIN refs :
        \/ /\ meta = [stage |-> "ready", base |-> refs[b], head |-> b]
           /\ \E sched \in BOOLEAN : index = [at |-> {refs[b]}, sched |-> sched]
        \/ meta = [stage |-> "none", base |-> 0, head |-> ""] /\ index = NoIndex
    /\ flocks = [p \in Proc |-> "un"]
    /\ proc = [p \in Proc |-> Idle]
    /\ runs = 0

Step(p) ==
    \/ InitTree(p) \/ Stamp(p) \/ Open(p) \/ LockEx(p) \/ LockSh(p) \/ Unlock(p)
    \/ Read(p) \/ Resolve(p) \/ Checked(p) \/ SwitchHead(p) \/ SetBase(p)
    \/ ReadIndex(p) \/ Work(p) \/ Sync(p) \/ LockRef(p) \/ NoLooseRef(p)
    \/ LockPacked(p) \/ UnlockRefs(p)
    \/ WriteRef(p) \/ DeleteRef(p) \/ WriteHead(p) \/ MoveHead(p) \/ ImportRoot(p)
    \/ Close(p)

Next ==
    \/ \E p \in Proc, program \in Programs, b \in Branch \cup {""} : Start(p, program, b)
    \/ \E p \in Proc : Step(p) \/ Fail(p) \/ FailAndSync(p) \/ Kill(p)
    \/ \E b \in Branch : OtherCommit(b)

Spec == Init /\ [][Next]_vars

-----------------------------------------------------------------------------
(* Where O_EXLOCK works, the branch and the base commit that a command read   *)
(* when it opened the work tree are still those on disk for as long as it     *)
(* holds the lock, whatever other commands run: no decision of open_worktree's*)
(* callers is based on stale meta data.                                       *)
CachedMetaIsCurrent ==
    exlock => \A p \in Proc : flocks[p] # "un" =>
                 proc[p].base = meta.base /\ proc[p].head = meta.head

(* A step that changes the index of a complete work tree: it replaces the     *)
(* index that the command read.                                               *)
WritesIndexRead ==
    meta.stage = "ready" /\ index' # index => \E p \in Proc : At(p, "Sync") /\ proc[p].orig = index

(* A command that writes the file index replaces the very index it read: no   *)
(* other command's change is lost.  lock_worktree's lock makes this hold also *)
(* where O_EXLOCK is 0.                                                       *)
IndexUpdatesNotLost == [][WritesIndexRead]_vars

(* A step of got integrate that moves the branch b of a work tree.            *)
Moves(p, b) ==
    At(p, "MoveHead") /\ proc[p].head = b /\ proc'[p].todo = Tail(proc[p].todo)
FastForwards(b) == hist[refs[b]] \subseteq hist'[refs'[b]]
LooseFastForwards ==
    \A p \in Proc, b \in Branch \ DOMAIN lines : Moves(p, b) => FastForwards(b)

(* got integrate only fast-forwards the work tree's branch, if packed-refs    *)
(* has no line for it: when it writes the reference, every commit of the      *)
(* branch, also one that another work tree added meanwhile, is on the         *)
(* integrated branch.  Where there is a line, the locked open in              *)
(* integrate_prepare may return an old one, and this fails.                   *)
IntegrateKeepsHistory == [][LooseFastForwards]_vars
=============================================================================
