------------------------------- MODULE Replay -------------------------------
(***************************************************************************)
(* What `got rebase' and `got histedit' share: commits are merged one by   *)
(* one into a work tree that is switched to a temporary branch, and an     *)
(* operation that stops on a conflict lives on in references under         *)
(* refs/got/worktree and in the work tree's meta data (lib/worktree.c,     *)
(* got/got.c).                                                             *)
(*                                                                         *)
(* Everything on disk is one record.  A command is a sequence of single    *)
(* writes to it: `plan' holds the ones it has decided on and not done, so  *)
(* that a kill leaves any prefix of them behind.                           *)
(*                                                                         *)
(* A commit is the sequence of all commits up to it, which identifies it   *)
(* the way a SHA1 does; there are no merge commits, and the common         *)
(* ancestor of two commits is their longest common prefix.  The content of *)
(* a tree is the set of the hunks <<change, file>> it contains.            *)
(***************************************************************************)
EXTENDS Naturals, Sequences, FiniteSets, SequencesExt

CONSTANTS
    Files,       \* the versioned files
    Messages,    \* the log messages; a change is named by its commit's
    Starts,      \* initial branches, records [main, topic] of commits
    Commands,    \* the commands the user gives
    EditCmds,    \* the commands in histedit scripts (`mesg' is a `pick')
    UserActs,    \* what else the user does, of "drop", "revert", "restart"
    MaxStarts,   \* bound on the number of operations started
    MaxOthers,   \* bound on the number of commits made by others
    Faults,      \* the faults that may happen, of "kill" and "error"
    MaxFaults    \* bound on their number

Branches == {"main", "topic"}
Operations == {"rebase", "histedit"}
Events == {"kill", "error", "restart", "fold resumed", "fold unused",
           "stale commit ref"}

NoId == <<>>
NoName == ""

(* A commit adds its log message and its tree to its ancestors.            *)
Hunk == Messages \X Files
Commits == Seq([msg : Messages, tree : SUBSET Hunk]) \ {NoId}

Tree(id) == Last(id).tree
In(hunks, f) == {h \in hunks : h[2] = f}
Within(hunks, fs) == {h \in hunks : h[2] \in fs}

ASSUME ReplayConstants ==
    /\ {"user", "other"} \subseteq Messages
    /\ Starts \subseteq [Branches -> Commits]
    /\ \A s \in Starts : s.main[1] = s.topic[1]
    /\ Commands \subseteq Operations \cup {"commit", "update"}
    /\ EditCmds \subseteq {"pick", "edit", "fold", "drop"}
    /\ UserActs \subseteq {"drop", "revert", "restart"}
    /\ Faults \subseteq {"kill", "error"}
    /\ MaxStarts \in Nat /\ MaxOthers \in Nat /\ MaxFaults \in Nat

VARIABLES
    store,    \* the disk: references, meta data, index and files
    proc,     \* the running command
    home,     \* history: the branch of the work tree when it started
    dropped,  \* history: hunks the user has thrown away
    folded,   \* history: changes that a script has folded
    seen,     \* history: what has happened so far, a subset of Events
    starts, others, faults

vars == <<store, proc, home, dropped, folded, seen, starts, others, faults>>
history == <<home, dropped, folded, seen, starts, others, faults>>

Idle == [op |-> "none", at |-> "idle", plan |-> <<>>, br |-> NoName,
         from |-> NoId, tip |-> NoId, list |-> <<>>, merged |-> {}]

TmpRef == [rebase |-> "r_tmp", histedit |-> "h_tmp"]
CommitRef == [rebase |-> "r_commit", histedit |-> "h_commit"]

InProgress(op) == store.head = TmpRef[op]
At(pc) == proc.at = pc /\ proc.plan = <<>>

(* Files whose state differs from the index, with conflict markers or not. *)
Changed == {f \in Files : In(store.disk.hunks, f) # In(store.index.blob, f)}
           \cup store.disk.conf

(***************************************************************************)
(* Merging                                                                 *)
(***************************************************************************)
TouchedBy(id) ==
    {f \in Files : In(Tree(id), f) # In(Tree(Front(id)), f)}

(* A file that has neither the old nor the new version of a commit, or has *)
(* conflict markers from an earlier merge, may conflict.                   *)
MayConflict(id, f) ==
    \/ f \in store.disk.conf
    \/ In(store.disk.hunks, f) \notin {In(Tree(Front(id)), f), In(Tree(id), f)}

(* The three-way merge of the files fs of a commit, with conflicts in c.   *)
MergeFiles(id, fs, c) ==
    LET from == Tree(Front(id))
        to == Tree(id)
    IN  [hunks |-> (store.disk.hunks \ Within(from \ to, fs))
                   \cup Within(to \ from, fs),
         conf |-> store.disk.conf \cup c]

Conflicts(id, fs) == SUBSET {f \in fs : MayConflict(id, f)}

(***************************************************************************)
(* Committing what has been merged                                         *)
(***************************************************************************)
(* write_tree replaces an entry of the branch's tree only if it has the    *)
(* blob that the index records.                                            *)
MatchesEntry(f) ==
    In(store.index.blob, f) = In(Tree(store[store.head]), f)

(* The new commit: the tree comes from the branch, the parent from the     *)
(* base commit of the work tree.                                           *)
NewCommit(ct, msg) ==
    LET old == Tree(store[store.head])
        fs == {f \in ct : MatchesEntry(f)}
    IN  Append(store.base,
               [msg |-> msg,
                tree |-> (old \ Within(old, fs)) \cup Within(store.disk.hunks, fs)])

IndexAfterCommit(ct, id) ==
    [blob |-> (store.index.blob \ Within(store.index.blob, ct))
              \cup Within(store.disk.hunks, ct),
     commit |-> [f \in Files |-> IF f \in ct THEN id
                                 ELSE store.index.commit[f]]]

(* Mutant: the reference to the original commit outlives the new commit.   *)
RebaseCommitKeepsRef(op, paths, msg) ==
    LET ct == Changed \cap paths
        id == NewCommit(ct, msg)
    IN  IF ct = {}
        THEN << <<CommitRef[op], NoId>> >>
        ELSE << <<TmpRef[op], id>>, <<"base", id>>,
                <<"index", IndexAfterCommit(ct, id)>> >>

(* rebase_commit: without a change the commit is elided.                   *)
RebaseCommitWrites(op, paths, msg) ==
    LET ct == Changed \cap paths
        id == NewCommit(ct, msg)
    IN  IF ct = {}
        THEN << <<CommitRef[op], NoId>> >>
        ELSE << <<TmpRef[op], id>>, <<"base", id>>, <<CommitRef[op], NoId>>,
                <<"index", IndexAfterCommit(ct, id)>> >>

(***************************************************************************)
(* Preparing, completing and aborting                                      *)
(***************************************************************************)
CheckRebaseOk ==
    /\ \A f \in Files : store.index.commit[f] = store.base
    /\ Changed = {}

DeleteRefs(op) ==
    IF op = "rebase"
    THEN << <<"r_tmp", NoId>>, <<"r_newbase", NoName>>,
            <<"r_branch", NoName>>, <<"r_commit", NoId>> >>
    ELSE << <<"h_tmp", NoId>>, <<"h_base", NoId>>,
            <<"h_branch", NoName>>, <<"h_commit", NoId>> >>

CompleteWrites(op, b) ==
    << <<b, store[TmpRef[op]]>>, <<"head", b>> >>
    \o DeleteRefs(op)
    \o << <<"index", [store.index EXCEPT
                        !.commit = [f \in Files |-> store.base]]>> >>

(* Files that checkout_files installs after revert has undone all changes. *)
Installed(id) ==
    {f \in Files : /\ store.index.commit[f] # id
                   /\ In(store.index.blob, f) # In(Tree(id), f)}

CheckedOut(id) ==
    (store.index.blob \ Within(store.index.blob, Installed(id)))
    \cup Within(Tree(id), Installed(id))

(* Mutant: the references go before the work tree has switched branches.   *)
AbortDeletesFirst(op, b, id) ==
    DeleteRefs(op)
    \o << <<"head", b>>, <<"base", id>>,
          <<"disk", [hunks |-> store.index.blob, conf |-> {}]>>,
          <<"disk", [hunks |-> CheckedOut(id), conf |-> {}]>> >>

AbortWrites(op, b, id) ==
    << <<"head", b>>, <<"base", id>> >>
    \o DeleteRefs(op)
    \o << <<"disk", [hunks |-> store.index.blob, conf |-> {}]>>,
          <<"disk", [hunks |-> CheckedOut(id), conf |-> {}]>>,
          <<"index", [blob |-> CheckedOut(id),
                      commit |-> [f \in Files |->
                                    IF f \in Installed(id) THEN id
                                    ELSE store.index.commit[f]]]>> >>

(***************************************************************************)
(* Commits to replay                                                       *)
(***************************************************************************)
(* Mutant: the walk stops one commit early.                                *)
CommitsAfterFirst(from, tip) ==
    [i \in 1..(Len(tip) - Len(from) - 1) |->
        [cmd |-> "pick", id |-> SubSeq(tip, 1, Len(from) + i + 1)]]

(* collect_commits: the commits after `from' up to tip, oldest first.      *)
CommitsAfter(from, tip) ==
    [i \in 1..(Len(tip) - Len(from)) |->
        [cmd |-> "pick", id |-> SubSeq(tip, 1, Len(from) + i)]]

(* store_commit_id: an existing reference is left alone.                   *)
StoreCommitId(op, id) ==
    IF store[CommitRef[op]] = NoId THEN << <<CommitRef[op], id>> >> ELSE <<>>

(***************************************************************************)
(* Steps that both commands take                                           *)
(***************************************************************************)
Do(w) == store' = [store EXCEPT ![w[1]] = w[2]]

Write ==
    /\ proc.plan # <<>>
    /\ Do(Head(proc.plan))
    /\ proc' = IF proc.at \in {"completing", "aborting"} /\ Len(proc.plan) = 1
               THEN Idle
               ELSE [proc EXCEPT !.plan = Tail(@)]
    /\ UNCHANGED history

(* Mutant: the commit just made stays at the head of the list.             *)
CommitAgain ==
    /\ At("commit")
    /\ proc' = IF store.disk.conf \cap proc.merged # {} THEN Idle
               ELSE [proc EXCEPT
                       !.plan = RebaseCommitWrites(proc.op, proc.merged,
                                    Last(Head(proc.list).id).msg),
                       !.at = "next", !.merged = {}]
    /\ UNCHANGED <<store, history>>

(* rebase_commit with the paths that merge_files has reported.  A file     *)
(* with conflict markers is an error that ends the command.                *)
Commit ==
    /\ At("commit")
    /\ proc' = IF store.disk.conf \cap proc.merged # {} THEN Idle
               ELSE [proc EXCEPT
                       !.plan = RebaseCommitWrites(proc.op, proc.merged,
                                    Last(Head(proc.list).id).msg),
                       !.at = "next", !.list = Tail(@), !.merged = {}]
    /\ UNCHANGED <<store, history>>

Complete ==
    /\ At("next") /\ proc.list = <<>>
    /\ proc' = [proc EXCEPT !.plan = CompleteWrites(proc.op, proc.br),
                            !.at = "completing"]
    /\ UNCHANGED <<store, history>>

(* The process is killed, in a merge after some of the files.              *)
Kill ==
    /\ "kill" \in Faults /\ faults < MaxFaults
    /\ proc # Idle
    /\ proc' = Idle
    /\ \/ store' = store
       \/ /\ At("merge")
          /\ LET id == Head(proc.list).id
             IN  \E fs \in SUBSET TouchedBy(id) : \E c \in Conflicts(id, fs) :
                    store' = [store EXCEPT !.disk = MergeFiles(id, fs, c)]
    /\ faults' = faults + 1
    /\ seen' = seen \cup {"kill"}
    /\ UNCHANGED <<home, dropped, folded, starts, others>>

(***************************************************************************)
(* The user and other people                                               *)
(***************************************************************************)
(* The user edits a file with conflict markers: the merged lines stay, or  *)
(* all uncommitted ones go.                                                *)
Resolve(f, keep) ==
    /\ proc = Idle
    /\ f \in store.disk.conf
    /\ keep \/ "drop" \in UserActs
    /\ LET gone == IF keep THEN {}
                   ELSE In(store.disk.hunks \ store.index.blob, f)
       IN  /\ store' = [store EXCEPT
                          !.disk = [hunks |-> store.disk.hunks \ gone,
                                    conf |-> store.disk.conf \ {f}]]
           /\ dropped' = dropped \cup gone
    /\ UNCHANGED <<proc, home, folded, seen, starts, others, faults>>

(* `got revert' of all files.                                              *)
Revert ==
    /\ proc = Idle
    /\ "revert" \in UserActs
    /\ Changed # {}
    /\ store' = [store EXCEPT
                   !.disk = [hunks |-> store.index.blob, conf |-> {}]]
    /\ dropped' = dropped \cup (store.disk.hunks \ store.index.blob)
    /\ UNCHANGED <<proc, home, folded, seen, starts, others, faults>>

(* check_out_of_date, which `got commit' asks and rebase_commit does not.  *)
OutOfDate(f) ==
    store.index.commit[f] # store[store.head] /\ ~MatchesEntry(f)

(* `got commit', which a histedit allows and a rebase refuses.             *)
GotCommit ==
    /\ proc = Idle
    /\ "commit" \in Commands
    /\ ~InProgress("rebase")
    /\ store[store.head] # NoId
    /\ Changed # {} /\ store.disk.conf = {}
    /\ \A f \in Changed : ~OutOfDate(f)
    /\ LET id == NewCommit(Changed, "user")
       IN  store' = [store EXCEPT ![store.head] = id, !.base = id,
                                  !.index = IndexAfterCommit(Changed, id)]
    /\ UNCHANGED <<proc, history>>

(* `got update -b branch -c commit' in a work tree without changes.        *)
Update(b, n) ==
    /\ proc = Idle
    /\ "update" \in Commands
    /\ ~InProgress("rebase") /\ ~InProgress("histedit")
    /\ Changed = {}
    /\ n \in 1..Len(store[b])
    /\ LET id == SubSeq(store[b], 1, n)
       IN  store' = [store EXCEPT
                       !.head = b, !.base = id,
                       !.disk.hunks = Tree(id),
                       !.index = [blob |-> Tree(id),
                                  commit |-> [f \in Files |-> id]]]
    /\ UNCHANGED <<proc, history>>

(* Somebody commits to a branch while an operation is interrupted.  Before *)
(* one starts, this is but another initial state.                          *)
OthersCommit(b, f) ==
    /\ proc = Idle
    /\ InProgress("rebase") \/ InProgress("histedit")
    /\ others < MaxOthers
    /\ others' = others + 1
    /\ LET id == Append(store[b], [msg |-> "other",
                                   tree |-> Tree(store[b]) \cup {<<"other", f>>}])
       IN  store' = [store EXCEPT ![b] = id]
    /\ UNCHANGED <<proc, home, dropped, folded, seen, starts, faults>>

Environment ==
    \/ \E f \in Files : \E keep \in BOOLEAN : Resolve(f, keep)
    \/ Revert
    \/ GotCommit
    \/ \E b \in Branches : \E n \in 1..Len(store[b]) : Update(b, n)
    \/ \E b \in Branches : \E f \in Files : OthersCommit(b, f)

ReplayInit ==
    /\ \E s \in Starts :
          store = [main |-> s.main, topic |-> s.topic,
                   r_newbase |-> NoName, r_branch |-> NoName,
                   r_tmp |-> NoId, r_commit |-> NoId,
                   h_branch |-> NoName, h_base |-> NoId,
                   h_tmp |-> NoId, h_commit |-> NoId, script |-> <<>>,
                   head |-> "main", base |-> s.main,
                   disk |-> [hunks |-> Tree(s.main), conf |-> {}],
                   index |-> [blob |-> Tree(s.main),
                              commit |-> [f \in Files |-> s.main]]]
    /\ proc = Idle
    /\ home = "main"
    /\ dropped = {} /\ folded = {} /\ seen = {}
    /\ starts = 0 /\ others = 0 /\ faults = 0
=============================================================================
