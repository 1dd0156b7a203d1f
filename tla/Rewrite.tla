------------------------------ MODULE Rewrite ------------------------------
(***************************************************************************)
(* Rebase and histedit in one work tree, with the user who resolves        *)
(* conflicts between commands, other people who commit to the branches,    *)
(* and kills.                                                              *)
(***************************************************************************)
EXTENDS Rebase, Histedit

Running == Write \/ Commit \/ Complete \/ RebaseStep \/ HisteditStep

Failing == Kill \/ CollectFails \/ ScriptRejected

Next ==
    \/ RebaseCommand
    \/ HisteditCommand
    \/ Running
    \/ Failing
    \/ Environment

(* A running command goes on; the user edits files with conflict markers   *)
(* and continues a rebase.  Nobody has to start or to abort one.           *)
Fairness ==
    /\ WF_vars(Running)
    /\ WF_vars(\E f \in Files : Resolve(f, TRUE))
    /\ WF_vars(RebaseContinue)

Spec == ReplayInit /\ [][Next]_vars /\ Fairness

(***************************************************************************)
(* Properties                                                              *)
(***************************************************************************)
(* The branch that .got/head-ref names exists at all times, also after a   *)
(* kill: complete and abort switch the work tree back before they delete   *)
(* the temporary branch (worktree.c:6471, 6520).                           *)
HeadRefExists == "restart" \notin seen => store[store.head] # NoId

(* A rebase or histedit that has stopped can be aborted: the references    *)
(* that got_worktree_rebase_continue and got_worktree_histedit_continue    *)
(* insist on are all there (worktree.c:5957, 6762).                        *)
StoppedCanBeAborted ==
    proc = Idle =>
        /\ InProgress("rebase") => RebaseResumable
        /\ InProgress("histedit") => HisteditResumable

(* The same, for stops caused by conflicts and by `edit' alone.            *)
ConflictCanBeAborted ==
    seen \cap {"kill", "error", "restart"} = {} => StoppedCanBeAborted

(* "the rebase operation may be aborted which will leave branch unmodified *)
(* and the work tree switched back to its original branch" (got.1:1451),   *)
(* unless a rebase was started while one was in progress (cmd_rebase does  *)
(* not refuse that).                                                       *)
AbortEnds == proc.at = "aborting" /\ Len(proc.plan) = 1 /\ proc' = Idle
AbortReturnsHome ==
    [][AbortEnds /\ "restart" \notin seen => store'.head = home]_vars

(* When the temporary branch becomes the rebased branch, every change the  *)
(* branch has at that moment is there, except those the user has thrown    *)
(* away: also commits others made while the rebase was interrupted.        *)
RebaseKeepsChanges ==
    [][proc.op = "rebase" /\ seen \cap {"kill", "restart"} = {} =>
         \A b \in Branches :
            Tree(store[b]) \subseteq Tree(store'[b]) \cup dropped]_vars

(* What each commit of id adds belongs to the change its log message names *)
(* or to one that was folded into it.                                      *)
AsIs(id) ==
    \A i \in 2..Len(id) : id[i].msg # "user" =>
        \A h \in id[i].tree \ id[i - 1].tree : h[1] \in {id[i].msg} \cup folded

(* "Commits on this branch represent the same changes with the same log    *)
(* messages as their counterparts" (got.1:1427), also when conflicts are   *)
(* resolved in between; for histedit as long as -c finds a change.         *)
ReplayedAsIs ==
    seen \cap {"kill", "stale commit ref"} = {} =>
        AsIs(store.r_tmp) /\ AsIs(store.h_tmp)

(* An operation that is over leaves no local change behind: it started     *)
(* without any, and everything merged since was committed or undone.       *)
NothingLeftBehind ==
    proc = Idle /\ store.head \in Branches
        /\ seen \cap {"kill", "restart", "fold resumed", "fold unused"} = {}
    => Changed = {}

(* A rebase ends if the user keeps resolving conflicts and continuing it:  *)
(* no commit is replayed for ever.                                         *)
RebaseEnds ==
    InProgress("rebase")
        ~> ~InProgress("rebase") \/ seen \cap {"kill", "error"} # {}
============================================================================
