------------------------------- MODULE Rebase -------------------------------
(***************************************************************************)
(* `got rebase branch', `got rebase -c' and `got rebase -a': cmd_rebase of *)
(* got/got.c and the functions of lib/worktree.c that it calls.  A command *)
(* that fails before it has written anything is no step.                   *)
(***************************************************************************)
EXTENDS Replay

(* Mutant: the branch to rebase is recorded as the one to return to.       *)
RebaseStartBranchAsBase(b) ==
    /\ proc = Idle
    /\ "rebase" \in Commands /\ starts < MaxStarts
    /\ ~InProgress("histedit")
    /\ InProgress("rebase") => "restart" \in UserActs
    /\ store[store.head] # NoId
    /\ ~IsPrefix(store.base, store[b])
    /\ CheckRebaseOk
    /\ store.base = store[store.head]
    /\ proc' = [Idle EXCEPT
                  !.op = "rebase", !.at = "collect", !.br = b,
                  !.from = LongestCommonPrefix({store.base, store[b]}),
                  !.tip = store[b],
                  !.plan = << <<"r_newbase", b>>, <<"r_branch", b>>,
                              <<"r_tmp", store.base>>, <<"head", "r_tmp">> >>]
    /\ IF InProgress("rebase")
       THEN seen' = seen \cup {"restart"} /\ UNCHANGED <<home, dropped>>
       ELSE home' = store.head /\ dropped' = {} /\ UNCHANGED seen
    /\ starts' = starts + 1
    /\ UNCHANGED <<store, folded, others, faults>>

(* The command resolves the branch, finds the common ancestor and prepares *)
(* the work tree.  Nothing asks whether a rebase is in progress already:   *)
(* the work tree's branch may be the temporary one.                        *)
RebaseStart(b) ==
    /\ proc = Idle
    /\ "rebase" \in Commands /\ starts < MaxStarts
    /\ ~InProgress("histedit")
    /\ InProgress("rebase") => "restart" \in UserActs
    /\ store[store.head] # NoId
    /\ ~IsPrefix(store.base, store[b])
    /\ CheckRebaseOk
    /\ store.base = store[store.head]
    /\ proc' = [Idle EXCEPT
                  !.op = "rebase", !.at = "collect", !.br = b,
                  !.from = LongestCommonPrefix({store.base, store[b]}),
                  !.tip = store[b],
                  !.plan = << <<"r_newbase", store.head>>, <<"r_branch", b>>,
                              <<"r_tmp", store.base>>, <<"head", "r_tmp">> >>]
    /\ IF InProgress("rebase")
       THEN seen' = seen \cup {"restart"} /\ UNCHANGED <<home, dropped>>
       ELSE home' = store.head /\ dropped' = {} /\ UNCHANGED seen
    /\ starts' = starts + 1
    /\ UNCHANGED <<store, folded, others, faults>>

(* got_worktree_rebase_continue, which -c and -a both begin with.          *)
RebaseResumable ==
    /\ InProgress("rebase")
    /\ store.r_branch # NoName
    /\ store.r_commit # NoId
    /\ store.r_newbase # NoName
    /\ store.r_tmp # NoId

(* -c commits the merged and resolved change; the commits that follow are  *)
(* collected once that is done.                                            *)
RebaseContinue ==
    /\ proc = Idle
    /\ RebaseResumable
    /\ store.disk.conf = {}
    /\ proc' = [Idle EXCEPT
                  !.op = "rebase", !.at = "resolve", !.br = store.r_branch,
                  !.from = store.r_commit,
                  !.plan = RebaseCommitWrites("rebase", Files,
                                              Last(store.r_commit).msg)]
    /\ UNCHANGED <<store, history>>

ResolveBranch ==
    /\ At("resolve")
    /\ proc' = [proc EXCEPT !.at = "collect", !.tip = store[proc.br]]
    /\ UNCHANGED <<store, history>>

RebaseAbort ==
    /\ proc = Idle
    /\ RebaseResumable
    /\ store[store.r_newbase] # NoId
    /\ proc' = [Idle EXCEPT
                  !.op = "rebase", !.at = "aborting",
                  !.plan = AbortWrites("rebase", store.r_newbase,
                                       store[store.r_newbase])]
    /\ UNCHANGED <<store, history>>

(* A branch that is a root commit cannot be rebased.  At the start of a     *)
(* rebase the operation is aborted.  With -c the commit resumed, which has  *)
(* a parent, is no ancestor of a root, and the command only fails, as it    *)
(* does whenever the branch no longer contains that commit.  Otherwise the  *)
(* commits after the common ancestor, or after the commit just resumed, are *)
(* collected.                                                               *)
Collect ==
    /\ At("collect")
    /\ proc' = IF ~IsPrefix(proc.from, proc.tip)
               THEN Idle
               ELSE IF Len(proc.tip) = 1
               THEN [proc EXCEPT
                       !.at = "aborting",
                       !.plan = AbortWrites("rebase", store.r_newbase,
                                            store[store.r_newbase])]
               ELSE [proc EXCEPT
                       !.at = "next",
                       !.list = CommitsAfter(proc.from, proc.tip)]
    /\ UNCHANGED <<store, history>>

(* collect_commits fails: it was interrupted, or found a change outside    *)
(* the path prefix of the work tree.                                       *)
CollectFails ==
    /\ At("collect")
    /\ "error" \in Faults /\ faults < MaxFaults
    /\ proc' = Idle
    /\ faults' = faults + 1
    /\ seen' = seen \cup {"error"}
    /\ UNCHANGED <<store, home, dropped, folded, starts, others>>

(* Mutant: the commit to be merged is not recorded.                        *)
RebaseNextUnrecorded ==
    /\ At("next") /\ proc.op = "rebase" /\ proc.list # <<>>
    /\ proc' = [proc EXCEPT !.at = "merge"]
    /\ UNCHANGED <<store, history>>

(* The commit to be merged is recorded first.  The record of another       *)
(* commit is an error that ends the command.                               *)
RebaseNext ==
    /\ At("next") /\ proc.op = "rebase" /\ proc.list # <<>>
    /\ LET id == Head(proc.list).id
       IN  proc' = IF store.r_commit \in {NoId, id}
                   THEN [proc EXCEPT !.plan = StoreCommitId("rebase", id),
                                     !.at = "merge"]
                   ELSE Idle
    /\ UNCHANGED <<store, history>>

(* A conflict ends the command; the rebase stays in progress.              *)
RebaseMerge ==
    /\ At("merge") /\ proc.op = "rebase"
    /\ LET id == Head(proc.list).id
       IN  \E c \in Conflicts(id, TouchedBy(id)) :
             /\ store' = [store EXCEPT !.disk = MergeFiles(id, TouchedBy(id), c)]
             /\ proc' = IF c # {} THEN Idle
                        ELSE [proc EXCEPT !.at = "commit",
                                          !.merged = TouchedBy(id)]
    /\ UNCHANGED history

RebaseCommand ==
    \/ \E b \in Branches : RebaseStart(b)
    \/ RebaseContinue
    \/ RebaseAbort

RebaseStep ==
    \/ ResolveBranch
    \/ Collect
    \/ RebaseNext
    \/ RebaseMerge
=============================================================================
