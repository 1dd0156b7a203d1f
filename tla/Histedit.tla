------------------------------ MODULE Histedit ------------------------------
(***************************************************************************)
(* `got histedit', `got histedit -c' and `got histedit -a': cmd_histedit   *)
(* of got/got.c and the functions of lib/worktree.c that it calls.         *)
(***************************************************************************)
EXTENDS Replay

(* histedit_check_script.                                                  *)
ScriptOk(script, commits) ==
    /\ script # <<>>
    /\ \A i, j \in DOMAIN script : i # j => script[i].id # script[j].id
    /\ \A c \in DOMAIN commits :
          \E i \in DOMAIN script : script[i].id = commits[c].id
    /\ Last(script).cmd # "fold"

(* What the user may make of the template in the editor.                   *)
Scripts(commits) ==
    {s \in [DOMAIN commits ->
              [cmd : EditCmds, id : {commits[i].id : i \in DOMAIN commits}]] :
        ScriptOk(s, commits)}

(* A commit to be folded that no commit further below will use.            *)
FoldUnused(s) ==
    \E i \in DOMAIN s : /\ s[i].cmd = "fold"
                        /\ \A j \in (i + 1)..Len(s) : s[j].cmd \in {"fold", "drop"}

HisteditStart ==
    /\ proc = Idle
    /\ "histedit" \in Commands /\ starts < MaxStarts
    /\ store.head \in Branches
    /\ IsStrictPrefix(store.base, store[store.head])
    /\ CheckRebaseOk
    /\ proc' = [Idle EXCEPT
                  !.op = "histedit", !.at = "script", !.br = store.head,
                  !.list = CommitsAfter(store.base, store[store.head]),
                  !.plan = << <<"h_branch", store.head>>,
                              <<"h_base", store.base>>,
                              <<"h_tmp", store.base>>, <<"head", "h_tmp">> >>]
    /\ home' = store.head /\ dropped' = {}
    /\ starts' = starts + 1
    /\ UNCHANGED <<store, folded, seen, others, faults>>

(* The script is written and saved, or the user gives up in the editor and *)
(* the operation is aborted.                                               *)
HisteditScript ==
    /\ At("script")
    /\ \/ \E s \in Scripts(proc.list) :
            /\ proc' = [proc EXCEPT !.plan = << <<"script", s>> >>,
                                    !.at = "next", !.list = s]
            /\ folded' = folded \cup
                 {Last(s[i].id).msg :
                     i \in {j \in DOMAIN s : s[j].cmd = "fold"}}
            /\ seen' = seen \cup (IF FoldUnused(s) THEN {"fold unused"} ELSE {})
       \/ /\ proc' = [proc EXCEPT
                        !.plan = AbortWrites("histedit", store.h_branch,
                                             store.h_base),
                        !.at = "aborting"]
          /\ UNCHANGED <<folded, seen>>
    /\ UNCHANGED <<store, home, dropped, starts, others, faults>>

(* A script given with -F is saved before histedit_check_script rejects    *)
(* it.                                                                     *)
ScriptRejected ==
    /\ At("script")
    /\ "error" \in Faults /\ faults < MaxFaults
    /\ store' = [store EXCEPT !.script = <<>>]
    /\ proc' = Idle
    /\ faults' = faults + 1
    /\ seen' = seen \cup {"error"}
    /\ UNCHANGED <<home, dropped, folded, starts, others>>

(* got_worktree_histedit_continue, which -c and -a both need.              *)
HisteditResumable ==
    /\ InProgress("histedit")
    /\ store.h_branch # NoName
    /\ store.h_commit # NoId
    /\ store.h_base # NoId
    /\ store.h_tmp # NoId

(* got_worktree_histedit_skip_commit.                                      *)
SkipCommitWrites(id) ==
    StoreCommitId("histedit", id) \o << <<"h_commit", NoId>> >>

(* -c goes on with the script's entry for the recorded commit.  Its change *)
(* is committed, unless there is none: then the record is left in place.   *)
HisteditContinue ==
    /\ proc = Idle
    /\ HisteditResumable
    /\ IsPrefix(store.h_base, store[store.h_branch])
    /\ ScriptOk(store.script, CommitsAfter(store.h_base, store[store.h_branch]))
    /\ \E i \in DOMAIN store.script :
         /\ store.script[i].id = store.h_commit
         /\ LET fold == store.script[i].cmd \in {"drop", "fold"}
            IN  /\ ~fold => store.disk.conf = {}
                /\ proc' = [Idle EXCEPT
                     !.op = "histedit", !.at = "next", !.br = store.h_branch,
                     !.list = SubSeq(store.script, i + 1, Len(store.script)),
                     !.plan = IF fold THEN SkipCommitWrites(store.h_commit)
                              ELSE IF Changed = {} THEN <<>>
                              ELSE RebaseCommitWrites("histedit", Files,
                                       Last(store.h_commit).msg)]
                /\ seen' = seen \cup (IF fold THEN {"fold resumed"}
                                      ELSE IF Changed = {}
                                      THEN {"stale commit ref"} ELSE {})
    /\ UNCHANGED <<store, home, dropped, folded, starts, others, faults>>

HisteditAbort ==
    /\ proc = Idle
    /\ HisteditResumable
    /\ proc' = [Idle EXCEPT
                  !.op = "histedit", !.at = "aborting",
                  !.plan = AbortWrites("histedit", store.h_branch,
                                       store.h_base)]
    /\ UNCHANGED <<store, history>>

HisteditNext ==
    /\ At("next") /\ proc.op = "histedit" /\ proc.list # <<>>
    /\ LET e == Head(proc.list)
       IN  proc' = IF e.cmd = "drop"
                   THEN [proc EXCEPT !.plan = SkipCommitWrites(e.id),
                                     !.list = Tail(@)]
                   ELSE [proc EXCEPT !.plan = StoreCommitId("histedit", e.id),
                                     !.at = "merge"]
    /\ UNCHANGED <<store, history>>

(* Mutant: the paths of a folded commit are forgotten.                     *)
HisteditMergeForgets ==
    /\ At("merge") /\ proc.op = "histedit"
    /\ LET e == Head(proc.list)
       IN  \E c \in Conflicts(e.id, TouchedBy(e.id)) :
             /\ store' = [store EXCEPT
                            !.disk = MergeFiles(e.id, TouchedBy(e.id), c)]
             /\ proc' = IF c # {} \/ e.cmd = "edit" THEN Idle
                        ELSE IF e.cmd = "fold"
                        THEN [proc EXCEPT
                                !.plan = SkipCommitWrites(e.id),
                                !.at = "next", !.list = Tail(@)]
                        ELSE [proc EXCEPT !.at = "commit",
                                          !.merged = @ \cup TouchedBy(e.id)]
    /\ UNCHANGED history

(* A conflict ends the command, and so does a commit to be amended.  The   *)
(* paths of a folded commit are added to those of the next.                *)
HisteditMerge ==
    /\ At("merge") /\ proc.op = "histedit"
    /\ LET e == Head(proc.list)
       IN  \E c \in Conflicts(e.id, TouchedBy(e.id)) :
             /\ store' = [store EXCEPT
                            !.disk = MergeFiles(e.id, TouchedBy(e.id), c)]
             /\ proc' = IF c # {} \/ e.cmd = "edit" THEN Idle
                        ELSE IF e.cmd = "fold"
                        THEN [proc EXCEPT
                                !.plan = SkipCommitWrites(e.id),
                                !.at = "next", !.list = Tail(@),
                                !.merged = @ \cup TouchedBy(e.id)]
                        ELSE [proc EXCEPT !.at = "commit",
                                          !.merged = @ \cup TouchedBy(e.id)]
    /\ UNCHANGED history

HisteditCommand ==
    \/ HisteditStart
    \/ HisteditContinue
    \/ HisteditAbort

HisteditStep ==
    \/ HisteditScript
    \/ HisteditNext
    \/ HisteditMerge
=============================================================================
