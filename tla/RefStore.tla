------------------------------ MODULE RefStore ------------------------------
(***************************************************************************)
(* One reference of a repository ("refs/heads/master", say) as concurrent  *)
(* got processes read, write and delete it: lib/reference.c on top of the  *)
(* lock files of lib/lockfile.c.                                           *)
(*                                                                         *)
(* A reference lives in two places.  `loose' is the file under refs/,      *)
(* `packed' is its line in the packed-refs file.  Each file F is guarded   *)
(* by the existence of a file F.lock.  Nothing but these four files is     *)
(* shared between processes, and every action below touches one of them    *)
(* with one system call (or, under the packed-refs lock, with a read and a *)
(* rename that no other got process can come between).                     *)
(*                                                                         *)
(* A process runs one of these operations at a time:                       *)
(*   commit        got_worktree_commit/commit_worktree: resolve the branch,*)
(*                 build a commit, lock the branch, compare, write         *)
(*   create        add_branch: fail if the reference opens, else write it  *)
(*   fetch         cmd_fetch updating a reference of the remote            *)
(*   fetch_branch  cmd_fetch creating a local branch (or, without -t, a    *)
(*                 tag) if none exists yet, leaving an existing one alone  *)
(*   ref_write     add_ref: write the reference whatever it holds          *)
(*   delete        delete_ref, delete_branch: open, then got_ref_delete    *)
(*   read          any command that opens the reference unlocked           *)
(***************************************************************************)
EXTENDS Naturals

CONSTANTS
    Proc,        \* the got processes
    Commits,     \* object ids
    Attempts,    \* tries of got_lockfile_lock; 5 in the code
    NSubdirs,    \* length of got_ref_open's subdirs[]; 3 in the code
    MayCrash,    \* whether a process may be killed between two steps
    Scenes,      \* what the two files hold at the start, and which operations
                 \* each process may run
    None, Empty, Free, Stale

AllOps == {"commit", "create", "fetch", "fetch_branch", "ref_write",
           "delete", "read"}

ASSUME RefConstants ==
    /\ None \notin Commits /\ Empty \notin Commits /\ None # Empty
    /\ Free \notin Proc /\ Stale \notin Proc /\ Free # Stale
    /\ Attempts \in Nat \ {0} /\ NSubdirs \in Nat \ {0}
    /\ MayCrash \in BOOLEAN
    /\ Scenes \subseteq [loose : Commits \cup {None}, packed : Commits \cup {None},
                         ops : [Proc -> SUBSET AllOps]]

VARIABLES
    scene,   \* the scene that is played, one of Scenes
    loose,   \* the loose file: absent (None), without a line (Empty), an id
    buf,     \* the process whose stdio buffer holds the line of that file
    packed,  \* the id packed-refs has for the reference, or None
    lk,      \* who created "<loose>.lock" and "packed-refs.lock"
    pc, op,
    want,    \* the lock argument of the got_ref_open in progress
    sub,     \* its position in subdirs[]
    att,     \* attempts left in the got_lockfile_lock in progress
    val,     \* the id of the got_reference opened last, or None
    src,     \* where it was found: "loose", "packed" or "none"
    lf,      \* the lock file the process holds: "loose", "packed", "none"
    exp,     \* the id the operation expects to replace
    new,     \* the id it is going to write
    left     \* what got_ref_delete has left to delete: "both" at first

vars == <<scene, loose, buf, packed, lk, pc, op, want, sub, att, val, src, lf,
          exp, new, left>>
shared == <<loose, buf, packed, lk>>
goals == <<op, exp, new, left>>     \* chosen by the operation, not by open

Paths == {"loose", "packed"}

PCs == {"idle",
        "lock_loose", "read_loose", "lock_packed", "read_packed",
        "opened", "not_ref",
        "c_rename", "c_flush", "unlock",
        "w_lock", "w_rename", "w_unlock", "w_flush",
        "dl_lock", "dl_unlink", "dl_unlock",
        "dp_lock", "dp_rewrite", "dp_unlock"}

TypeOK ==
    /\ scene \in Scenes
    /\ loose \in Commits \cup {None, Empty}
    /\ buf \in Proc \cup {Free}
    /\ packed \in Commits \cup {None}
    /\ lk \in [Paths -> Proc \cup {Free, Stale}]
    /\ pc \in [Proc -> PCs]
    /\ op \in [Proc -> AllOps]
    /\ want \in [Proc -> {0, 1}]
    /\ sub \in [Proc -> 1..NSubdirs]
    /\ att \in [Proc -> 1..Attempts]
    /\ val \in [Proc -> Commits \cup {None}]
    /\ src \in [Proc -> {"none", "loose", "packed"}]
    /\ lf \in [Proc -> {"none", "loose", "packed"}]
    /\ exp \in [Proc -> Commits \cup {None}]
    /\ new \in [Proc -> Commits \cup {None}]
    /\ left \in [Proc -> {"both", "loose", "packed"}]

Init ==
    /\ scene \in Scenes
    /\ loose = scene.loose /\ buf = Free /\ packed = scene.packed
    /\ lk = [x \in Paths |-> Free]
    /\ pc = [p \in Proc |-> "idle"]
    /\ op = [p \in Proc |-> "read"]
    /\ want = [p \in Proc |-> 0]
    /\ sub = [p \in Proc |-> 1]
    /\ att = [p \in Proc |-> Attempts]
    /\ val = [p \in Proc |-> None]
    /\ src = [p \in Proc |-> "none"]
    /\ lf = [p \in Proc |-> "none"]
    /\ exp = [p \in Proc |-> None]
    /\ new = [p \in Proc |-> None]
    /\ left = [p \in Proc |-> "both"]

-----------------------------------------------------------------------------
(* Building blocks: what a step does to the process that takes it.         *)

Goto(p, l) == pc' = [pc EXCEPT ![p] = l]

\* The operation returns, with or without an error, and the process exits.
Return(p) ==
    /\ Goto(p, "idle")
    /\ op' = [op EXCEPT ![p] = "read"]
    /\ want' = [want EXCEPT ![p] = 0]
    /\ sub' = [sub EXCEPT ![p] = 1]
    /\ att' = [att EXCEPT ![p] = Attempts]
    /\ val' = [val EXCEPT ![p] = None]
    /\ src' = [src EXCEPT ![p] = "none"]
    /\ exp' = [exp EXCEPT ![p] = None]
    /\ new' = [new EXCEPT ![p] = None]
    /\ left' = [left EXCEPT ![p] = "both"]

\* Enter got_ref_open(ref, repo, refname, lock).
Open(p, lock) ==
    /\ want' = [want EXCEPT ![p] = lock]
    /\ sub' = [sub EXCEPT ![p] = 1]
    /\ att' = [att EXCEPT ![p] = Attempts]
    /\ val' = [val EXCEPT ![p] = None]
    /\ src' = [src EXCEPT ![p] = "none"]
    /\ Goto(p, IF lock = 1 THEN "lock_loose" ELSE "read_loose")

\* got_lockfile_lock: open with O_CREAT|O_EXCL ...
LockAcquire(p, x) ==
    /\ lk[x] = Free
    /\ lk' = [lk EXCEPT ![x] = p]
    /\ lf' = [lf EXCEPT ![p] = x]
    /\ att' = [att EXCEPT ![p] = Attempts]

\* Mutants of LockRetry: tries once too often; never counts its attempts.
LockRetryOnceMore(p, x) ==
    /\ lk[x] # Free /\ att[p] >= 1
    /\ att' = [att EXCEPT ![p] = @ - 1]
    /\ UNCHANGED <<lk, lf>>

LockRetryForever(p, x) ==
    /\ lk[x] # Free /\ att[p] > 1
    /\ UNCHANGED <<att, lk, lf>>

\* ... on EEXIST sleep a second and try again ...
LockRetry(p, x) ==
    /\ lk[x] # Free /\ att[p] > 1
    /\ att' = [att EXCEPT ![p] = @ - 1]
    /\ UNCHANGED <<lk, lf>>

\* Mutant of LockTimeout: the clean-up unlinks the other's lock file.
LockTimeoutUnlinks(p, x) ==
    /\ lk[x] # Free /\ att[p] = 1
    /\ Return(p)
    /\ lk' = [lk EXCEPT ![x] = Free]
    /\ UNCHANGED lf

\* ... and after the last attempt fail with GOT_ERR_LOCKFILE_TIMEOUT; the
\* clean-up by got_lockfile_unlock leaves the other's lock file alone, since
\* no descriptor was opened.
LockTimeout(p, x) ==
    /\ lk[x] # Free /\ att[p] = 1
    /\ Return(p)
    /\ UNCHANGED <<lk, lf>>

\* got_lockfile_unlock: unlink the lock file, if this process has created it.
Unlock(p) ==
    /\ lk' = [x \in Paths |-> IF lf[p] = x THEN Free ELSE lk[x]]
    /\ lf' = [lf EXCEPT ![p] = "none"]

\* Take the lock on file x at label `at' and go on at label `then'.
Lock(p, x, at, then) ==
    /\ pc[p] = at
    /\ \/ /\ LockAcquire(p, x) /\ Goto(p, then)
          /\ UNCHANGED <<want, sub, val, src, goals>>
       \/ /\ LockRetry(p, x)
          /\ UNCHANGED <<pc, want, sub, val, src, goals>>
       \/ LockTimeout(p, x)
    /\ UNCHANGED <<loose, buf, packed>>

-----------------------------------------------------------------------------
(* got_ref_open *)

OpenLockLoose(p) == Lock(p, "loose", "lock_loose", "read_loose")
OpenLockPacked(p) == Lock(p, "packed", "lock_packed", "read_packed")

\* The loose file has a line: the reference is open and keeps its lock.
ReadLooseHit(p) ==
    /\ pc[p] = "read_loose" /\ loose \in Commits
    /\ val' = [val EXCEPT ![p] = loose]
    /\ src' = [src EXCEPT ![p] = "loose"]
    /\ Goto(p, "opened")
    /\ UNCHANGED <<shared, want, sub, att, lf, goals>>

\* No loose file, or one without a line ("could be locks"): give the lock
\* back and try the next subdirectory, and packed-refs after the last one.
ReadLooseMiss(p) ==
    /\ pc[p] = "read_loose" /\ loose \notin Commits
    /\ Unlock(p)
    /\ IF sub[p] < NSubdirs
       THEN /\ sub' = [sub EXCEPT ![p] = @ + 1]
            /\ Goto(p, IF want[p] = 1 THEN "lock_loose" ELSE "read_loose")
       ELSE /\ UNCHANGED sub
            /\ Goto(p, IF want[p] = 1 THEN "lock_packed" ELSE "read_packed")
    /\ UNCHANGED <<loose, buf, packed, want, att, val, src, goals>>

ReadPackedHit(p) ==
    /\ pc[p] = "read_packed" /\ packed \in Commits
    /\ val' = [val EXCEPT ![p] = packed]
    /\ src' = [src EXCEPT ![p] = "packed"]
    /\ Goto(p, "opened")
    /\ UNCHANGED <<shared, want, sub, att, lf, goals>>

\* GOT_ERR_NOT_REF
ReadPackedMiss(p) ==
    /\ pc[p] = "read_packed" /\ packed \notin Commits
    /\ Unlock(p)
    /\ Goto(p, "not_ref")
    /\ UNCHANGED <<loose, buf, packed, want, sub, att, val, src, goals>>

-----------------------------------------------------------------------------
(* The operations: how they start, and what they do with the reference.    *)

\* commit, create, delete and read begin by opening the reference unlocked.
StartUnlocked(p, o) ==
    /\ pc[p] = "idle" /\ o \in scene.ops[p] \cap {"commit", "create", "delete", "read"}
    /\ op' = [op EXCEPT ![p] = o]
    /\ \E c \in IF o = "create" THEN Commits ELSE {None} :
            new' = [new EXCEPT ![p] = c]
    /\ Open(p, 0)
    /\ UNCHANGED <<shared, lf, exp, left>>

\* cmd_fetch opens references locked.
StartLocked(p, o) ==
    /\ pc[p] = "idle" /\ o \in scene.ops[p] \cap {"fetch", "fetch_branch"}
    /\ op' = [op EXCEPT ![p] = o]
    /\ \E c \in Commits : new' = [new EXCEPT ![p] = c]
    /\ Open(p, 1)
    /\ UNCHANGED <<shared, lf, exp, left>>

\* add_ref writes without opening the reference first.
StartRefWrite(p) ==
    /\ pc[p] = "idle" /\ "ref_write" \in scene.ops[p]
    /\ op' = [op EXCEPT ![p] = "ref_write"]
    /\ \E c \in Commits : new' = [new EXCEPT ![p] = c]
    /\ Goto(p, "w_lock")
    /\ UNCHANGED <<shared, want, sub, att, val, src, lf, exp, left>>

\* got_worktree_commit has resolved the branch; commit_worktree writes the
\* new objects and then opens the branch again, this time locked.
CommitHeadResolved(p) ==
    /\ pc[p] = "opened" /\ op[p] = "commit" /\ want[p] = 0
    /\ exp' = [exp EXCEPT ![p] = val[p]]
    /\ \E c \in Commits \ {val[p]} : new' = [new EXCEPT ![p] = c]
    /\ Open(p, 1)
    /\ UNCHANGED <<shared, lf, op, left>>

\* Mutant of CommitCheckHead: the branch is not compared again.
CommitHeadUnchecked(p) ==
    /\ pc[p] = "opened" /\ op[p] = "commit" /\ want[p] = 1
    /\ Goto(p, "c_rename")
    /\ UNCHANGED <<shared, want, sub, att, val, src, lf, goals>>

\* "Check if a concurrent commit to our branch has occurred."
CommitCheckHead(p) ==
    /\ pc[p] = "opened" /\ op[p] = "commit" /\ want[p] = 1
    /\ Goto(p, IF val[p] = exp[p] THEN "c_rename" ELSE "unlock")
    /\ UNCHANGED <<shared, want, sub, att, val, src, lf, goals>>

\* update_ref writes only if the id changes.
FetchUpdateRef(p) ==
    /\ pc[p] = "opened" /\ op[p] = "fetch"
    /\ Goto(p, IF val[p] # new[p] THEN "c_rename" ELSE "unlock")
    /\ UNCHANGED <<shared, want, sub, att, val, src, lf, goals>>

\* The local branch exists: leave it alone (update_ref does the same for an
\* existing tag).
FetchBranchExists(p) ==
    /\ pc[p] = "opened" /\ op[p] = "fetch_branch"
    /\ Goto(p, "unlock")
    /\ UNCHANGED <<shared, want, sub, att, val, src, lf, goals>>

\* add_branch fails with GOT_ERR_BRANCH_EXISTS; a reader is done.
OpenedReturn(p) ==
    /\ pc[p] = "opened" /\ op[p] \in {"create", "read"}
    /\ Return(p)
    /\ UNCHANGED <<shared, lf>>

\* add_branch, create_ref: the reference does not exist, write it.
NotRefCreate(p) ==
    /\ pc[p] = "not_ref" /\ op[p] \in {"create", "fetch", "fetch_branch"}
    /\ Goto(p, "w_lock")
    /\ UNCHANGED <<shared, want, sub, att, val, src, lf, goals>>

\* For the others GOT_ERR_NOT_REF ends the operation; in got_ref_delete's
\* second got_ref_open it means that the work is done.
NotRefReturn(p) ==
    /\ pc[p] = "not_ref" /\ op[p] \in {"commit", "delete", "read"}
    /\ Return(p)
    /\ UNCHANGED <<shared, lf>>

-----------------------------------------------------------------------------
(* got_ref_write.  The line goes to a stdio buffer of the temporary file;   *)
(* the file is renamed into place before fclose() writes that buffer out.  *)

\* The caller opened the reference locked (ref->lf # NULL): no lock is taken.
CRename(p) ==
    /\ pc[p] = "c_rename"
    /\ loose' = Empty /\ buf' = p
    /\ Goto(p, "c_flush")
    /\ UNCHANGED <<packed, lk, want, sub, att, val, src, lf, goals>>

\* fclose(): the line appears in the file, if the file is still in place.
Fclose(p) ==
    /\ loose' = IF buf = p THEN new[p] ELSE loose
    /\ buf' = IF buf = p THEN Free ELSE buf

CFlush(p) ==
    /\ pc[p] = "c_flush"
    /\ Fclose(p)
    /\ Goto(p, "unlock")
    /\ UNCHANGED <<packed, lk, want, sub, att, val, src, lf, goals>>

\* got_ref_unlock by the operation, which then returns.
RefUnlock(p) ==
    /\ pc[p] = "unlock"
    /\ Unlock(p)
    /\ Return(p)
    /\ UNCHANGED <<loose, buf, packed>>

\* Mutant of WLock: got_ref_write takes no lock of its own.
WLockSkipped(p) ==
    /\ pc[p] = "w_lock"
    /\ Goto(p, "w_rename")
    /\ UNCHANGED <<shared, want, sub, att, val, src, lf, goals>>

\* The caller did not lock the reference: lock, rename, unlock and only then
\* fclose().
WLock(p) == Lock(p, "loose", "w_lock", "w_rename")

WRename(p) ==
    /\ pc[p] = "w_rename"
    /\ loose' = Empty /\ buf' = p
    /\ Goto(p, "w_unlock")
    /\ UNCHANGED <<packed, lk, want, sub, att, val, src, lf, goals>>

WUnlock(p) ==
    /\ pc[p] = "w_unlock"
    /\ Unlock(p)
    /\ Goto(p, "w_flush")
    /\ UNCHANGED <<loose, buf, packed, want, sub, att, val, src, goals>>

WFlush(p) ==
    /\ pc[p] = "w_flush"
    /\ Fclose(p)
    /\ Return(p)
    /\ UNCHANGED <<packed, lk, lf>>

-----------------------------------------------------------------------------
(* got_ref_delete: from where the reference was found first, then from the *)
(* other place if it still opens.                                          *)

DeleteOpened(p) ==
    /\ pc[p] = "opened" /\ op[p] = "delete"
    /\ Goto(p, IF "packed" = IF left[p] = "both" THEN src[p] ELSE left[p]
               THEN "dp_lock" ELSE "dl_lock")
    /\ UNCHANGED <<shared, want, sub, att, val, src, lf, goals>>

DeleteLooseLock(p) == Lock(p, "loose", "dl_lock", "dl_unlink")
DeletePackedLock(p) == Lock(p, "packed", "dp_lock", "dp_rewrite")

\* delete_loose_ref unlinks the file whatever it holds; if there is none,
\* got_ref_delete fails.
DeleteLooseUnlink(p) ==
    /\ pc[p] = "dl_unlink"
    /\ loose' = None /\ buf' = Free
    /\ Goto(p, IF loose = None THEN "unlock" ELSE "dl_unlock")
    /\ UNCHANGED <<packed, lk, want, sub, att, val, src, lf, goals>>

\* Mutant of DeletePackedRewrite: keeps the lines that match.
DeletePackedKeepsMatch(p) ==
    /\ pc[p] = "dp_rewrite"
    /\ packed' = IF packed = val[p] THEN packed ELSE None
    /\ Goto(p, "dp_unlock")
    /\ UNCHANGED <<loose, buf, lk, want, sub, att, val, src, lf, goals>>

\* delete_packed_ref copies packed-refs without the lines that match both
\* name and id, and renames the (flushed) copy over it.
DeletePackedRewrite(p) ==
    /\ pc[p] = "dp_rewrite"
    /\ packed' = IF packed = val[p] THEN None ELSE packed
    /\ Goto(p, "dp_unlock")
    /\ UNCHANGED <<loose, buf, lk, want, sub, att, val, src, lf, goals>>

\* After the first deletion open the reference again, after the second return.
DeleteUnlock(p) ==
    /\ pc[p] \in {"dl_unlock", "dp_unlock"}
    /\ Unlock(p)
    /\ IF left[p] # "both" THEN Return(p)
       ELSE /\ Open(p, 0)
            /\ left' = [left EXCEPT ![p] = IF pc[p] = "dl_unlock" THEN "packed"
                                                             ELSE "loose"]
            /\ UNCHANGED <<op, exp, new>>
    /\ UNCHANGED <<loose, buf, packed>>

-----------------------------------------------------------------------------
\* The process is killed: a lock file it holds stays behind, a line it has
\* not written out is lost.
Crash(p) ==
    /\ MayCrash /\ pc[p] # "idle"
    /\ lk' = [x \in Paths |-> IF lf[p] = x THEN Stale ELSE lk[x]]
    /\ lf' = [lf EXCEPT ![p] = "none"]
    /\ buf' = IF buf = p THEN Free ELSE buf
    /\ Return(p)
    /\ UNCHANGED <<loose, packed>>

OpenStep(p) ==
    \/ OpenLockLoose(p) \/ OpenLockPacked(p)
    \/ ReadLooseHit(p) \/ ReadLooseMiss(p)
    \/ ReadPackedHit(p) \/ ReadPackedMiss(p)

DecideStep(p) ==
    \/ CommitHeadResolved(p) \/ CommitCheckHead(p)
    \/ FetchUpdateRef(p) \/ FetchBranchExists(p)
    \/ OpenedReturn(p) \/ NotRefCreate(p) \/ NotRefReturn(p)
    \/ DeleteOpened(p)

WriteStep(p) ==
    \/ CRename(p) \/ CFlush(p) \/ RefUnlock(p)
    \/ WLock(p) \/ WRename(p) \/ WUnlock(p) \/ WFlush(p)

DeleteStep(p) ==
    \/ DeleteLooseLock(p) \/ DeletePackedLock(p)
    \/ DeleteLooseUnlink(p) \/ DeletePackedRewrite(p) \/ DeleteUnlock(p)

\* A process that has started an operation goes on with it.
Run(p) == OpenStep(p) \/ DecideStep(p) \/ WriteStep(p) \/ DeleteStep(p)

Next ==
    /\ scene' = scene
    /\ \E p \in Proc :
        \/ \E o \in scene.ops[p] : StartUnlocked(p, o) \/ StartLocked(p, o)
        \/ StartRefWrite(p)
        \/ Run(p)
        \/ Crash(p)

Spec == Init /\ [][Next]_vars

\* A process is never starved by the operating system.
FairSpec == Spec /\ \A p \in Proc : WF_vars(scene' = scene /\ Run(p))

-----------------------------------------------------------------------------
(* Correctness *)

\* The id the reference stands for: what the last rename, unlink or rewrite
\* of packed-refs made it, a line still in its writer's buffer included.
Tip == CASE loose \in Commits -> loose
         [] loose = Empty -> IF buf = Free THEN None ELSE new[buf]
         [] OTHER -> packed

\* A lock file excludes: the process that believes it holds the lock of a
\* file is the one that created the lock file.  In particular a process that
\* gives up after got_lockfile_lock's last attempt does not take the lock away
\* from its holder.
LockExclusion ==
    /\ \A p \in Proc : lf[p] # "none" => lk[lf[p]] = p
    /\ \A p, q \in Proc : p # q /\ lf[p] # "none" => lf[q] # lf[p]

\* commit_worktree: "Check if a concurrent commit to our branch has occurred"
\* and "Lock the reference here to prevent concurrent modification".  When a
\* commit moves the branch, the branch still is where it was when the commit
\* was prepared: no commit made by another process in between is dropped.
CommitReplacesCheckedHead ==
    \A p \in Proc : pc[p] = "c_rename" /\ op[p] = "commit" => Tip = exp[p]

\* The loose file is only replaced or unlinked by the process that holds the
\* lock of that file, so a writer's checks under this lock remain valid.
LooseChangesUnderLock ==
    [][\/ buf' # buf /\ buf' \in Proc
       \/ loose' # loose /\ loose' = None
       => \E p \in Proc : lf[p] = "loose" /\ pc'[p] # pc[p]]_vars

\* "On-disk refs take precedence" (insert_ref), "Search on-disk refs before
\* packed refs!" (got_ref_open): while nobody deletes a reference that has a
\* loose file, opening it neither fails nor yields the packed-refs line.
OnDiskRefsTakePrecedence ==
    scene.loose # None /\ (\A q \in Proc : "delete" \notin scene.ops[q]) =>
        \A p \in Proc : pc[p] # "not_ref" /\ src[p] # "packed"

\* got_ref_delete: once it is about to return from its second deletion the
\* reference is gone from both places, unless somebody writes it meanwhile.
DeleteDeletesBoth ==
    (\A q \in Proc : scene.ops[q] \subseteq {"delete", "read"}) =>
        \A p \in Proc :
            /\ pc[p] \in {"dl_unlock", "dp_unlock"} /\ left[p] # "both"
            => loose = None /\ packed = None

\* Every operation returns: got_lockfile_lock gives up after Attempts tries,
\* so neither contention nor a lock file left by a crash blocks it for ever.
OperationsReturn == \A p \in Proc : pc[p] # "idle" ~> pc[p] = "idle"
=============================================================================
