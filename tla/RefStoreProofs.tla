--------------------------- MODULE RefStoreProofs ---------------------------
(***************************************************************************)
(* Proofs about RefStore, for any number of processes and object ids, any  *)
(* set of operations, and with processes crashing at any step.             *)
(***************************************************************************)
EXTENDS RefStore, TLAPS

(* What a process holds at each of its steps. *)
HoldsNothing == {"idle", "lock_loose", "lock_packed", "not_ref", "w_lock",
                 "w_flush", "dl_lock", "dp_lock"}
HoldsLoose == {"w_rename", "w_unlock", "dl_unlink", "dl_unlock"}
HoldsPacked == {"dp_rewrite", "dp_unlock"}

DeletePCs == {"dl_lock", "dl_unlink", "dl_unlock",
              "dp_lock", "dp_rewrite", "dp_unlock"}

WritePCs == {"w_lock", "w_rename", "w_unlock", "w_flush"}
Writers == {"create", "fetch", "fetch_branch", "ref_write"}

HeldAt(p) ==
    /\ pc[p] \in HoldsNothing => lf[p] = "none"
    /\ pc[p] \in HoldsLoose => lf[p] = "loose"
    /\ pc[p] \in HoldsPacked => lf[p] = "packed"
    /\ pc[p] = "read_loose" => lf[p] = IF want[p] = 1 THEN "loose" ELSE "none"
    /\ pc[p] = "read_packed" => lf[p] = IF want[p] = 1 THEN "packed" ELSE "none"
    /\ pc[p] = "opened" => /\ src[p] # "none"
                           /\ lf[p] = IF want[p] = 1 THEN src[p] ELSE "none"
    /\ pc[p] \in {"c_rename", "c_flush"} => src[p] # "none" /\ lf[p] = src[p]

(* Only commit and fetch open references locked. *)
WantOnly(p) ==
    /\ want[p] = 1 => op[p] \in {"commit", "fetch", "fetch_branch"}
    /\ pc[p] \in {"lock_loose", "lock_packed"} => want[p] = 1
    /\ op[p] \in {"fetch", "fetch_branch"} => want[p] = 1
    /\ pc[p] \in DeletePCs => op[p] = "delete"
    /\ pc[p] = "idle" => want[p] = 0
    /\ pc[p] \in WritePCs => op[p] \in Writers
    /\ op[p] \in Writers => new[p] \in Commits

LockInv ==
    \A p \in Proc :
        /\ \A x \in Paths : lf[p] = x <=> lk[x] = p
        /\ HeldAt(p)
        /\ WantOnly(p)

-----------------------------------------------------------------------------
\* The type invariant of RefStore holds in every reachable state.
THEOREM TypeCorrect == Spec => []TypeOK
<1>1. Init => TypeOK
  BY RefConstants DEF Init, TypeOK, AllOps, PCs
<1>2. TypeOK /\ [Next]_vars => TypeOK'
  <2> SUFFICES ASSUME TypeOK, [Next]_vars PROVE TypeOK'
    OBVIOUS
  <2>0. scene' \in Scenes /\ \A p \in Proc : scene.ops[p] \subseteq AllOps
    BY RefConstants DEF TypeOK, Next, vars
  <2> USE <2>0, RefConstants DEF TypeOK, PCs, Goto, shared, goals
  <2>1. CASE UNCHANGED vars
    BY <2>1 DEF vars
  <2>2. ASSUME NEW p \in Proc, NEW o \in scene.ops[p], StartUnlocked(p, o) PROVE TypeOK'
    BY <2>2 DEF StartUnlocked, Open, AllOps
  <2>3. ASSUME NEW p \in Proc, NEW o \in scene.ops[p], StartLocked(p, o) PROVE TypeOK'
    BY <2>3 DEF StartLocked, Open, AllOps
  <2>4. ASSUME NEW p \in Proc, StartRefWrite(p) PROVE TypeOK'
    BY <2>4 DEF StartRefWrite, AllOps
  <2>5. ASSUME NEW p \in Proc, NEW x \in Paths, NEW at, NEW then \in PCs,
               Lock(p, x, at, then)
        PROVE  TypeOK'
    <3> USE DEF AllOps
    <3>1. CASE LockAcquire(p, x)
      BY <2>5, <3>1 DEF Lock, LockAcquire, LockRetry, LockTimeout, Return, Paths
    <3>2. CASE LockRetry(p, x)
      BY <2>5, <3>2 DEF Lock, LockAcquire, LockRetry, LockTimeout, Return, Paths
    <3>3. CASE LockTimeout(p, x)
      BY <2>5, <3>3 DEF Lock, LockAcquire, LockRetry, LockTimeout, Return, Paths
    <3> QED
      BY <2>5, <3>1, <3>2, <3>3 DEF Lock
  <2>6. ASSUME NEW p \in Proc, OpenStep(p) PROVE TypeOK'
    <3>1. CASE OpenLockLoose(p)
      BY <2>5, <3>1 DEF OpenLockLoose, Paths
    <3>2. CASE OpenLockPacked(p)
      BY <2>5, <3>2 DEF OpenLockPacked, Paths
    <3>3. CASE ReadLooseHit(p)
      BY <3>3 DEF ReadLooseHit
    <3>4. CASE ReadLooseMiss(p)
      BY <3>4 DEF ReadLooseMiss, Unlock, Paths
    <3>5. CASE ReadPackedHit(p)
      BY <3>5 DEF ReadPackedHit
    <3>6. CASE ReadPackedMiss(p)
      BY <3>6 DEF ReadPackedMiss, Unlock, Paths
    <3> QED
      BY <2>6, <3>1, <3>2, <3>3, <3>4, <3>5, <3>6 DEF OpenStep
  <2>7. ASSUME NEW p \in Proc, DecideStep(p) PROVE TypeOK'
    <3>1. CASE CommitHeadResolved(p)
      BY <3>1 DEF CommitHeadResolved, Open
    <3>2. CASE CommitCheckHead(p) \/ FetchUpdateRef(p) \/ FetchBranchExists(p)
               \/ NotRefCreate(p) \/ DeleteOpened(p)
      BY <3>2 DEF CommitCheckHead, FetchUpdateRef, FetchBranchExists,
                  NotRefCreate, DeleteOpened
    <3>3. CASE OpenedReturn(p)
      BY <3>3 DEF OpenedReturn, Return, AllOps
    <3>4. CASE NotRefReturn(p)
      BY <3>4 DEF NotRefReturn, Return, AllOps
    <3> QED
      BY <2>7, <3>1, <3>2, <3>3, <3>4 DEF DecideStep
  <2>8. ASSUME NEW p \in Proc, WriteStep(p) PROVE TypeOK'
    <3>0. ASSUME Fclose(p), pc[p] \in {"c_flush", "w_flush"}
          PROVE  loose' \in Commits \cup {None, Empty} /\ buf' \in Proc \cup {Free}
      BY <3>0 DEF Fclose
    <3>1. CASE CRename(p) \/ WRename(p)
      BY <3>1 DEF CRename, WRename
    <3>2. CASE CFlush(p)
      BY <3>0, <3>2 DEF CFlush
    <3>3. CASE RefUnlock(p)
      BY <3>3 DEF RefUnlock, Unlock, Return, Paths, AllOps
    <3>4. CASE WLock(p)
      BY <2>5, <3>4 DEF WLock, Paths
    <3>5. CASE WUnlock(p)
      BY <3>5 DEF WUnlock, Unlock, Paths
    <3>6. CASE WFlush(p)
      BY <3>0, <3>6 DEF WFlush, Return, AllOps
    <3> QED
      BY <2>8, <3>1, <3>2, <3>3, <3>4, <3>5, <3>6 DEF WriteStep
  <2>9. ASSUME NEW p \in Proc, DeleteStep(p) PROVE TypeOK'
    <3>1. CASE DeleteLooseLock(p)
      BY <2>5, <3>1 DEF DeleteLooseLock, Paths
    <3>2. CASE DeletePackedLock(p)
      BY <2>5, <3>2 DEF DeletePackedLock, Paths
    <3>3. CASE DeleteLooseUnlink(p)
      BY <3>3 DEF DeleteLooseUnlink
    <3>4. CASE DeletePackedRewrite(p)
      BY <3>4 DEF DeletePackedRewrite
    <3>5. CASE DeleteUnlock(p)
      <4>1. CASE left[p] # "both"
        BY <3>5, <4>1 DEF DeleteUnlock, Unlock, Return, Paths, AllOps
      <4>2. CASE left[p] = "both"
        BY <3>5, <4>2 DEF DeleteUnlock, Unlock, Open, Paths
      <4> QED
        BY <4>1, <4>2
    <3> QED
      BY <2>9, <3>1, <3>2, <3>3, <3>4, <3>5 DEF DeleteStep
  <2>10. ASSUME NEW p \in Proc, Crash(p) PROVE TypeOK'
    BY <2>10 DEF Crash, Return, Paths, AllOps
  <2> QED
    BY <2>1, <2>2, <2>3, <2>4, <2>6, <2>7, <2>8, <2>9, <2>10 DEF Next, Run
<1> QED
  BY <1>1, <1>2, PTL DEF Spec

-----------------------------------------------------------------------------
\* Taking or waiting for the lock of file x, at a step where the process holds
\* nothing, preserves LockInv when the next step expects that lock.
LEMMA LockStep ==
    ASSUME TypeOK, LockInv,
           NEW p \in Proc, NEW x \in Paths, NEW at \in HoldsNothing,
           NEW then \in PCs,
           \/ x = "loose" /\ then \in HoldsLoose
           \/ x = "packed" /\ then \in HoldsPacked
           \/ x = "loose" /\ then = "read_loose" /\ at = "lock_loose"
           \/ x = "packed" /\ then = "read_packed" /\ at = "lock_packed",
           Lock(p, x, at, then),
           (then \in DeletePCs) <=> (at \in DeletePCs),
           (then \in WritePCs) <=> (at \in WritePCs)
    PROVE  LockInv'
<1> USE RefConstants DEF TypeOK, LockInv, Lock, HoldsNothing, HoldsLoose,
      HoldsPacked, DeletePCs, WritePCs, Writers, Paths, goals, Goto
<1>1. CASE LockAcquire(p, x)
  BY <1>1 DEF LockAcquire, LockRetry, LockTimeout, HeldAt, WantOnly
<1>2. CASE LockRetry(p, x)
  BY <1>2 DEF LockAcquire, LockRetry, LockTimeout, HeldAt, WantOnly
<1>3. CASE LockTimeout(p, x)
  BY <1>3 DEF LockAcquire, LockRetry, LockTimeout, Return, HeldAt, WantOnly
<1> QED
  BY <1>1, <1>2, <1>3

\* The locking discipline: at every step a process holds the lock files its
\* program position says, and each lock file was created by its holder.
LEMMA LockInvInductive == TypeOK /\ LockInv /\ [Next]_vars => LockInv'
<1> SUFFICES ASSUME TypeOK, LockInv, [Next]_vars PROVE LockInv'
  OBVIOUS
<1> USE RefConstants DEF TypeOK, LockInv, HeldAt, WantOnly, HoldsNothing,
      HoldsLoose, HoldsPacked, DeletePCs, WritePCs, Writers, Paths, goals, shared, Goto
<1>1. CASE UNCHANGED vars
  BY <1>1 DEF vars
<1>2. ASSUME NEW p \in Proc, NEW o \in scene.ops[p], StartUnlocked(p, o) PROVE LockInv'
  BY <1>2 DEF StartUnlocked, Open
<1>3. ASSUME NEW p \in Proc, NEW o \in scene.ops[p], StartLocked(p, o) PROVE LockInv'
  BY <1>3 DEF StartLocked, Open
<1>4. ASSUME NEW p \in Proc, StartRefWrite(p) PROVE LockInv'
  BY <1>4 DEF StartRefWrite
<1>5. ASSUME NEW p \in Proc, OpenStep(p) PROVE LockInv'
  <2>1. CASE OpenLockLoose(p)
    BY <2>1, LockStep DEF OpenLockLoose, PCs
  <2>2. CASE OpenLockPacked(p)
    BY <2>2, LockStep DEF OpenLockPacked, PCs
  <2>3. CASE ReadLooseHit(p)
    BY <2>3 DEF ReadLooseHit
  <2>4. CASE ReadLooseMiss(p)
    BY <2>4 DEF ReadLooseMiss, Unlock
  <2>5. CASE ReadPackedHit(p)
    BY <2>5 DEF ReadPackedHit
  <2>6. CASE ReadPackedMiss(p)
    BY <2>6 DEF ReadPackedMiss, Unlock
  <2> QED
    BY <1>5, <2>1, <2>2, <2>3, <2>4, <2>5, <2>6 DEF OpenStep
<1>6. ASSUME NEW p \in Proc, DecideStep(p) PROVE LockInv'
  <2>1. CASE CommitHeadResolved(p)
    BY <2>1 DEF CommitHeadResolved, Open
  <2>2. CASE CommitCheckHead(p) \/ FetchUpdateRef(p) \/ FetchBranchExists(p)
    BY <2>2 DEF CommitCheckHead, FetchUpdateRef, FetchBranchExists
  <2>3. CASE NotRefCreate(p) \/ DeleteOpened(p)
    BY <2>3 DEF NotRefCreate, DeleteOpened
  <2>4. CASE OpenedReturn(p)
    BY <2>4 DEF OpenedReturn, Return
  <2>5. CASE NotRefReturn(p)
    BY <2>5 DEF NotRefReturn, Return
  <2> QED
    BY <1>6, <2>1, <2>2, <2>3, <2>4, <2>5 DEF DecideStep
<1>7. ASSUME NEW p \in Proc, WriteStep(p) PROVE LockInv'
  <2>1. CASE CRename(p) \/ WRename(p)
    BY <2>1 DEF CRename, WRename
  <2>2. CASE CFlush(p)
    BY <2>2 DEF CFlush
  <2>3. CASE RefUnlock(p)
    BY <2>3 DEF RefUnlock, Unlock, Return
  <2>4. CASE WLock(p)
    BY <2>4, LockStep DEF WLock, PCs
  <2>5. CASE WUnlock(p)
    BY <2>5 DEF WUnlock, Unlock
  <2>6. CASE WFlush(p)
    BY <2>6 DEF WFlush, Return
  <2> QED
    BY <1>7, <2>1, <2>2, <2>3, <2>4, <2>5, <2>6 DEF WriteStep
<1>8. ASSUME NEW p \in Proc, DeleteStep(p) PROVE LockInv'
  <2>1. CASE DeleteLooseLock(p)
    BY <2>1, LockStep DEF DeleteLooseLock, PCs
  <2>2. CASE DeletePackedLock(p)
    BY <2>2, LockStep DEF DeletePackedLock, PCs
  <2>3. CASE DeleteLooseUnlink(p) \/ DeletePackedRewrite(p)
    BY <2>3 DEF DeleteLooseUnlink, DeletePackedRewrite
  <2>4. CASE DeleteUnlock(p) /\ left[p] # "both"
    BY <2>4 DEF DeleteUnlock, Unlock, Return
  <2>5. CASE DeleteUnlock(p) /\ left[p] = "both"
    BY <2>5 DEF DeleteUnlock, Unlock, Open
  <2> QED
    BY <1>8, <2>1, <2>2, <2>3, <2>4, <2>5 DEF DeleteStep
<1>9. ASSUME NEW p \in Proc, Crash(p) PROVE LockInv'
  BY <1>9 DEF Crash, Return
<1> QED
  BY <1>1, <1>2, <1>3, <1>4, <1>5, <1>6, <1>7, <1>8, <1>9 DEF Next, Run

\* No process holds a lock at the start.
LEMMA LockInvInit == Init => LockInv
<1> SUFFICES ASSUME Init, NEW p \in Proc
             PROVE  /\ \A x \in Paths : lf[p] = x <=> lk[x] = p
                    /\ HeldAt(p) /\ WantOnly(p)
  BY DEF LockInv
<1>1. pc[p] = "idle" /\ lf[p] = "none" /\ want[p] = 0 /\ op[p] = "read"
  BY DEF Init
<1>2. \A x \in Paths : lk[x] = Free
  BY DEF Init
<1>3. HeldAt(p) /\ WantOnly(p)
  BY <1>1 DEF HeldAt, WantOnly, HoldsNothing, HoldsLoose, HoldsPacked, DeletePCs,
     WritePCs, Writers
<1> QED
  BY <1>1, <1>2, <1>3, RefConstants DEF Paths

\* The lock files of lib/lockfile.c exclude, whatever processes do and
\* wherever they crash.
THEOREM LocksExclude == Spec => []LockExclusion
<1>1. Init => LockInv
  BY LockInvInit
<1>2. TypeOK /\ LockInv => LockExclusion
  BY RefConstants DEF TypeOK, LockInv, LockExclusion, Paths
<1> QED
  BY <1>1, <1>2, LockInvInductive, TypeCorrect, PTL DEF Spec

-----------------------------------------------------------------------------
(* A branch that has no line in packed-refs.  What a process has read under *)
(* the lock of the loose file stays there until the process changes it: a   *)
(* rename or an unlink needs that lock, and a late fclose() only fills an   *)
(* empty file.                                                              *)
LooseInv ==
    /\ packed = None
    /\ loose \in Commits => buf = Free
    /\ \A p \in Proc :
        /\ src[p] # "packed"
        /\ pc[p] = "opened" /\ want[p] = 1 => loose \in Commits /\ loose = val[p]
        /\ pc[p] = "c_rename" => loose \in Commits
        /\ pc[p] = "c_rename" /\ op[p] = "commit" => loose = exp[p]

\* Only the holder of the loose file's lock is at a step that depends on it.
LEMMA LooseHolder ==
    ASSUME TypeOK, LockInv, LooseInv, NEW p \in Proc, NEW q \in Proc,
           lf[p] = "loose",
           pc[q] = "c_rename" \/ (pc[q] = "opened" /\ want[q] = 1)
    PROVE  p = q
<1>1. lf[q] = "loose"
  BY DEF TypeOK, LockInv, LooseInv, HeldAt
<1> QED
  BY <1>1 DEF LockInv, Paths

\* LooseInv is preserved by every step.
LEMMA LooseInvInductive ==
    TypeOK /\ LockInv /\ LooseInv /\ [Next]_vars => LooseInv'
<1> SUFFICES ASSUME TypeOK, LockInv, LooseInv, [Next]_vars PROVE LooseInv'
  OBVIOUS
<1> USE RefConstants DEF TypeOK, LooseInv, goals, shared, Goto
<1>1. CASE UNCHANGED vars
  BY <1>1 DEF vars
<1>2. ASSUME NEW p \in Proc, NEW o \in scene.ops[p], StartUnlocked(p, o) PROVE LooseInv'
  BY <1>2 DEF StartUnlocked, Open
<1>3. ASSUME NEW p \in Proc, NEW o \in scene.ops[p], StartLocked(p, o) PROVE LooseInv'
  BY <1>3 DEF StartLocked, Open
<1>4. ASSUME NEW p \in Proc, StartRefWrite(p) PROVE LooseInv'
  BY <1>4 DEF StartRefWrite
<1>5. ASSUME NEW p \in Proc, NEW x, NEW at,
             NEW then \in PCs \ {"opened", "c_rename"}, Lock(p, x, at, then)
      PROVE  LooseInv'
  BY <1>5 DEF Lock, LockAcquire, LockRetry, LockTimeout, Return, PCs
<1>6. ASSUME NEW p \in Proc, OpenStep(p) PROVE LooseInv'
  <2>1. CASE OpenLockLoose(p) \/ OpenLockPacked(p)
    BY <1>5, <2>1 DEF OpenLockLoose, OpenLockPacked, PCs
  <2>2. CASE ReadLooseHit(p)
    BY <2>2 DEF ReadLooseHit
  <2>3. CASE ReadLooseMiss(p)
    BY <2>3 DEF ReadLooseMiss
  <2>4. CASE ReadPackedHit(p)
    BY <2>4 DEF ReadPackedHit
  <2>5. CASE ReadPackedMiss(p)
    BY <2>5 DEF ReadPackedMiss
  <2> QED
    BY <1>6, <2>1, <2>2, <2>3, <2>4, <2>5 DEF OpenStep
<1>7. ASSUME NEW p \in Proc, DecideStep(p) PROVE LooseInv'
  <2>1. CASE CommitHeadResolved(p)
    BY <2>1 DEF CommitHeadResolved, Open
  <2>2. CASE CommitCheckHead(p)
    BY <2>2 DEF CommitCheckHead
  <2>3. CASE FetchUpdateRef(p)
    <3>1. want[p] = 1
      BY <2>3 DEF FetchUpdateRef, LockInv, WantOnly
    <3> QED
      BY <2>3, <3>1 DEF FetchUpdateRef
  <2>4. CASE FetchBranchExists(p) \/ NotRefCreate(p) \/ DeleteOpened(p)
    BY <2>4 DEF FetchBranchExists, NotRefCreate, DeleteOpened
  <2>5. CASE OpenedReturn(p) \/ NotRefReturn(p)
    BY <2>5 DEF OpenedReturn, NotRefReturn, Return
  <2> QED
    BY <1>7, <2>1, <2>2, <2>3, <2>4, <2>5 DEF DecideStep
<1>8. ASSUME NEW p \in Proc, WriteStep(p) PROVE LooseInv'
  <2>1. CASE CRename(p)
    <3>1. lf[p] = "loose"
      BY <2>1 DEF CRename, LockInv, HeldAt
    <3>2. \A q \in Proc : pc[q] = "c_rename" \/ (pc[q] = "opened" /\ want[q] = 1)
                         => q = p
      BY <3>1, LooseHolder
    <3> QED
      BY <2>1, <3>2 DEF CRename
  <2>2. CASE WRename(p)
    <3>1. lf[p] = "loose"
      BY <2>2 DEF WRename, LockInv, HeldAt, HoldsLoose
    <3>2. \A q \in Proc : pc[q] = "c_rename" \/ (pc[q] = "opened" /\ want[q] = 1)
                         => q = p
      BY <3>1, LooseHolder
    <3> QED
      BY <2>2, <3>2 DEF WRename
  <2>3. CASE CFlush(p)
    BY <2>3 DEF CFlush, Fclose
  <2>4. CASE RefUnlock(p)
    BY <2>4 DEF RefUnlock, Return
  <2>5. CASE WLock(p)
    BY <1>5, <2>5 DEF WLock, PCs
  <2>6. CASE WUnlock(p)
    BY <2>6 DEF WUnlock
  <2>7. CASE WFlush(p)
    BY <2>7 DEF WFlush, Fclose, Return
  <2> QED
    BY <1>8, <2>1, <2>2, <2>3, <2>4, <2>5, <2>6, <2>7 DEF WriteStep
<1>9. ASSUME NEW p \in Proc, DeleteStep(p) PROVE LooseInv'
  <2>1. CASE DeleteLooseLock(p) \/ DeletePackedLock(p)
    BY <1>5, <2>1 DEF DeleteLooseLock, DeletePackedLock, PCs
  <2>2. CASE DeleteLooseUnlink(p)
    <3>1. lf[p] = "loose"
      BY <2>2 DEF DeleteLooseUnlink, LockInv, HeldAt, HoldsLoose
    <3>2. \A q \in Proc : pc[q] = "c_rename" \/ (pc[q] = "opened" /\ want[q] = 1)
                         => q = p
      BY <3>1, LooseHolder
    <3> QED
      BY <2>2, <3>2 DEF DeleteLooseUnlink
  <2>3. CASE DeletePackedRewrite(p)
    BY <2>3 DEF DeletePackedRewrite
  <2>4. CASE DeleteUnlock(p) /\ left[p] # "both"
    BY <2>4 DEF DeleteUnlock, Return
  <2>5. CASE DeleteUnlock(p) /\ left[p] = "both"
    BY <2>5 DEF DeleteUnlock, Open
  <2> QED
    BY <1>9, <2>1, <2>2, <2>3, <2>4, <2>5 DEF DeleteStep
<1>10. ASSUME NEW p \in Proc, Crash(p) PROVE LooseInv'
  BY <1>10 DEF Crash, Return
<1> QED
  BY <1>1, <1>2, <1>3, <1>4, <1>6, <1>7, <1>8, <1>9, <1>10 DEF Next, Run

\* commit_worktree's check for a concurrent commit is sound for a branch that
\* has only a loose file: a commit replaces exactly the head it was built for,
\* for any number of processes, in any interleaving with commits, fetches,
\* reference writes, deletions and crashes.
THEOREM CommitsNotLost ==
    Spec /\ scene.packed = None => []CommitReplacesCheckedHead
<1>1. Init /\ scene.packed = None => LooseInv
  BY RefConstants DEF Init, LooseInv
<1>2. Init => LockInv
  BY LockInvInit
<1>3. LooseInv => CommitReplacesCheckedHead
  BY RefConstants DEF LooseInv, CommitReplacesCheckedHead, Tip
<1> QED
  BY <1>1, <1>2, <1>3, LockInvInductive, LooseInvInductive, TypeCorrect, PTL
     DEF Spec

\* For such a branch every rename onto the loose file and every unlink of it
\* is made by the process that holds its lock file.
THEOREM LooseFileGuarded ==
    Spec /\ scene.packed = None => LooseChangesUnderLock
<1> DEFINE Guarded ==
      \/ buf' # buf /\ buf' \in Proc
      \/ loose' # loose /\ loose' = None
      => \E p \in Proc : lf[p] = "loose" /\ pc'[p] # pc[p]
<1>1. Init /\ scene.packed = None => LooseInv /\ LockInv
  BY RefConstants, LockInvInit DEF Init, LooseInv
<1>2. TypeOK /\ LockInv /\ LooseInv /\ [Next]_vars => [Guarded]_vars
  <2> SUFFICES ASSUME TypeOK, LockInv, LooseInv, Next PROVE Guarded
    OBVIOUS
  <2> USE RefConstants DEF TypeOK, goals, shared, Goto
  <2>1. ASSUME NEW p \in Proc, CRename(p) PROVE Guarded
    BY <2>1 DEF CRename, LockInv, LooseInv, HeldAt
  <2>2. ASSUME NEW p \in Proc, WRename(p) PROVE Guarded
    BY <2>2 DEF WRename, LockInv, HeldAt, HoldsLoose
  <2>3. ASSUME NEW p \in Proc, DeleteLooseUnlink(p) PROVE Guarded
    BY <2>3 DEF DeleteLooseUnlink, LockInv, HeldAt, HoldsLoose
  <2>4. ASSUME NEW p \in Proc, CFlush(p) PROVE Guarded
    BY <2>4 DEF CFlush, Fclose, LockInv, LooseInv, HeldAt
  <2>5. ASSUME NEW p \in Proc, WFlush(p) PROVE Guarded
    BY <2>5 DEF WFlush, Fclose, LockInv, WantOnly, WritePCs
  <2>6. ASSUME NEW p \in Proc, Crash(p) PROVE Guarded
    BY <2>6 DEF Crash
  <2>7. ASSUME loose' = loose, buf' = buf PROVE Guarded
    BY <2>7
  <2>8. ASSUME NEW p \in Proc, NEW x, NEW at, NEW then, Lock(p, x, at, then)
        PROVE  loose' = loose /\ buf' = buf
    BY <2>8 DEF Lock
  <2>9. ASSUME NEW p \in Proc,
               \/ \E o \in scene.ops[p] : StartUnlocked(p, o) \/ StartLocked(p, o)
               \/ StartRefWrite(p) \/ OpenStep(p) \/ DecideStep(p)
        PROVE  loose' = loose /\ buf' = buf
    BY <2>8, <2>9 DEF StartUnlocked, StartLocked, StartRefWrite, OpenStep,
       OpenLockLoose, OpenLockPacked, ReadLooseHit, ReadLooseMiss,
       ReadPackedHit, ReadPackedMiss, DecideStep, CommitHeadResolved,
       CommitCheckHead, FetchUpdateRef, FetchBranchExists, OpenedReturn,
       NotRefCreate, NotRefReturn, DeleteOpened
  <2>10. ASSUME NEW p \in Proc,
                \/ RefUnlock(p) \/ WLock(p) \/ WUnlock(p) \/ DeleteLooseLock(p)
                \/ DeletePackedLock(p) \/ DeletePackedRewrite(p)
                \/ DeleteUnlock(p)
         PROVE  loose' = loose /\ buf' = buf
    BY <2>8, <2>10 DEF RefUnlock, WLock, WUnlock, DeleteLooseLock,
       DeletePackedLock, DeletePackedRewrite, DeleteUnlock
  <2> HIDE DEF Guarded
  <2> QED
    BY <2>1, <2>2, <2>3, <2>4, <2>5, <2>6, <2>7, <2>9, <2>10
       DEF Next, Run, WriteStep, DeleteStep
<1> QED
  BY <1>1, <1>2, LockInvInductive, LooseInvInductive, TypeCorrect, PTL
     DEF Spec, LooseChangesUnderLock
-----------------------------------------------------------------------------
(* References that are only read and deleted.  What a process has taken away *)
(* stays away, and the line it is going to take out of packed-refs is still   *)
(* the one it has read, or gone.                                              *)
ReadPCs == {"idle", "read_loose", "read_packed", "opened", "not_ref", "unlock"}

OnlyDeleted == \A q \in Proc : scene.ops[q] \subseteq {"delete", "read"}

DeleteInv ==
    /\ loose # Empty
    /\ \A p \in Proc :
        /\ op[p] \in {"delete", "read"} /\ want[p] = 0
        /\ pc[p] \in ReadPCs \cup DeletePCs
        /\ left[p] = "packed" => loose = None
        /\ left[p] = "loose" => packed = None
        /\ src[p] = "packed" => packed \in {val[p], None}
        /\ pc[p] = "opened" => src[p] # "none"
        /\ pc[p] = "opened" /\ left[p] = "packed" => src[p] = "packed"
        /\ pc[p] = "read_loose" => src[p] = "none"
        /\ pc[p] \in {"dp_lock", "dp_rewrite"} => packed \in {val[p], None}
        /\ pc[p] = "dl_unlock" => loose = None
        /\ pc[p] = "dp_unlock" => packed = None
        /\ pc[p] \in {"dl_lock", "dl_unlink", "dl_unlock"} => left[p] # "packed"
        /\ pc[p] \in {"dp_lock", "dp_rewrite", "dp_unlock"} => left[p] # "loose"

\* DeleteInv is preserved by every step of such processes.
LEMMA DeleteInvInductive ==
    ASSUME OnlyDeleted, TypeOK, DeleteInv, [Next]_vars
    PROVE  DeleteInv'
<1> USE RefConstants DEF OnlyDeleted, TypeOK, DeleteInv, ReadPCs, DeletePCs, goals, shared, Goto
<1>1. CASE UNCHANGED vars
  BY <1>1 DEF vars
<1>2. ASSUME NEW p \in Proc, NEW o \in scene.ops[p], StartUnlocked(p, o) PROVE DeleteInv'
  BY <1>2 DEF StartUnlocked, Open
<1>3. ASSUME NEW p \in Proc, StartRefWrite(p) \/ \E o \in scene.ops[p] : StartLocked(p, o)
      PROVE  DeleteInv'
  BY <1>3 DEF StartLocked, StartRefWrite
<1>4. ASSUME NEW p \in Proc, NEW x, NEW at, NEW then, Lock(p, x, at, then),
             \/ at = "dl_lock" /\ then = "dl_unlink"
             \/ at = "dp_lock" /\ then = "dp_rewrite"
      PROVE  DeleteInv'
  BY <1>4 DEF Lock, LockAcquire, LockRetry, LockTimeout, Return
<1>5. ASSUME NEW p \in Proc, OpenStep(p) PROVE DeleteInv'
  <2>1. CASE OpenLockLoose(p) \/ OpenLockPacked(p)
    BY <2>1 DEF OpenLockLoose, OpenLockPacked, Lock
  <2>2. CASE ReadLooseHit(p)
    BY <2>2 DEF ReadLooseHit
  <2>3. CASE ReadLooseMiss(p)
    BY <2>3 DEF ReadLooseMiss
  <2>4. CASE ReadPackedHit(p)
    BY <2>4 DEF ReadPackedHit
  <2>5. CASE ReadPackedMiss(p)
    BY <2>5 DEF ReadPackedMiss
  <2> QED
    BY <1>5, <2>1, <2>2, <2>3, <2>4, <2>5 DEF OpenStep
<1>6. ASSUME NEW p \in Proc, DecideStep(p) PROVE DeleteInv'
  <2>1. CASE \/ CommitHeadResolved(p) \/ CommitCheckHead(p) \/ FetchUpdateRef(p)
             \/ FetchBranchExists(p) \/ NotRefCreate(p)
    BY <2>1 DEF CommitHeadResolved, CommitCheckHead, FetchUpdateRef,
                FetchBranchExists, NotRefCreate
  <2>2. CASE DeleteOpened(p)
    BY <2>2 DEF DeleteOpened
  <2>3. CASE OpenedReturn(p) \/ NotRefReturn(p)
    BY <2>3 DEF OpenedReturn, NotRefReturn, Return
  <2> QED
    BY <1>6, <2>1, <2>2, <2>3 DEF DecideStep
<1>7. ASSUME NEW p \in Proc, WriteStep(p) PROVE DeleteInv'
  <2>1. CASE RefUnlock(p)
    BY <2>1 DEF RefUnlock, Return
  <2>2. CASE ~RefUnlock(p)
    BY <1>7, <2>2 DEF WriteStep, CRename, CFlush, WLock, Lock, WRename, WUnlock, WFlush
  <2> QED
    BY <2>1, <2>2
<1>8. ASSUME NEW p \in Proc, DeleteStep(p) PROVE DeleteInv'
  <2>1. CASE DeleteLooseLock(p) \/ DeletePackedLock(p)
    BY <1>4, <2>1 DEF DeleteLooseLock, DeletePackedLock
  <2>2. CASE DeleteLooseUnlink(p)
    BY <2>2 DEF DeleteLooseUnlink
  <2>3. CASE DeletePackedRewrite(p)
    BY <2>3 DEF DeletePackedRewrite
  <2>4. CASE DeleteUnlock(p) /\ left[p] # "both"
    BY <2>4 DEF DeleteUnlock, Return
  <2>5. CASE DeleteUnlock(p) /\ left[p] = "both"
    BY <2>5 DEF DeleteUnlock, Open
  <2> QED
    BY <1>8, <2>1, <2>2, <2>3, <2>4, <2>5 DEF DeleteStep
<1>9. ASSUME NEW p \in Proc, Crash(p) PROVE DeleteInv'
  BY <1>9 DEF Crash, Return
<1> QED
  BY <1>1, <1>2, <1>3, <1>5, <1>6, <1>7, <1>8, <1>9 DEF Next, Run

\* got_ref_delete takes a reference out of both places, however many processes
\* delete or read it at the same time, and wherever they are killed.
THEOREM DeleteTakesBoth == Spec => []DeleteDeletesBoth
<1>1. Init => (OnlyDeleted => DeleteInv)
  BY RefConstants DEF Init, DeleteInv, ReadPCs
<1>2. [Next]_vars => OnlyDeleted' = OnlyDeleted
  BY DEF Next, vars, OnlyDeleted
<1>3. TypeOK /\ (OnlyDeleted => DeleteInv) /\ [Next]_vars => (OnlyDeleted => DeleteInv)'
  BY <1>2, DeleteInvInductive
<1>4. TypeOK /\ (OnlyDeleted => DeleteInv) => DeleteDeletesBoth
  BY DEF TypeOK, OnlyDeleted, DeleteInv, DeleteDeletesBoth
<1> QED
  BY <1>1, <1>3, <1>4, TypeCorrect, PTL DEF Spec
=============================================================================
