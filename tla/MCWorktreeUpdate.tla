-------------------------- MODULE MCWorktreeUpdate --------------------------
(* Two files over a line of four commits.  f changes in its first region   *)
(* from 0 to 1 and in its second from 1 to 2, and is deleted in 3.  g is   *)
(* added in 1; in NoAddTree it exists from the start.                      *)
EXTENDS WorktreeUpdate

CONSTANTS f, g, a, b, u, v

Plain(first, second) ==
    [x |-> FALSE,
     c |-> [r \in Regions |-> CASE r = 1 -> {first} [] r = 2 -> {second}
                                [] OTHER -> {a}]]

FilePaths == <<f, g>>

StableTree ==
    [k \in Commits |->
        [p \in {f, g} |->
            IF p = f
            THEN CASE k = 0 -> Plain(a, a) [] k = 1 -> Plain(b, a)
                   [] k = 2 -> Plain(b, b) [] OTHER -> None
            ELSE IF k = 0 THEN None ELSE Plain(a, b)]]

NoAddTree ==
    [k \in Commits |->
        [StableTree[k] EXCEPT ![g] = Plain(IF k >= 2 THEN b ELSE a, b)]]

(* The state without the history that neither LocalChangesSurvive nor      *)
(* FreshMeansUnmodified looks at.                                          *)
LocalView == <<disk, fi, mi, base, pc, sel, todo, inst, failed, mine, edits, crashes>>
=============================================================================
