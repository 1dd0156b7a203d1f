----------------------------- MODULE MCRefStore -----------------------------
(* RefStore for TLC: processes are interchangeable, and so are object ids  *)
(* other than the ones the files hold at the start.                        *)
EXTENDS RefStore, TLC

CONSTANTS c0, c1, c2, p1, p2, p3

Scene(l, k, procs, ops) ==
    [loose |-> l, packed |-> k, ops |-> [p \in Proc |-> IF p \in procs THEN ops ELSE {}]]

(* Two processes with all operations on a reference that is not packed, or *)
(* three that delete one which is in both places.                          *)
LooseOrDeleted ==
    {Scene(c0, None, {p1, p2}, AllOps), Scene(c1, c0, {p1, p2, p3}, {"delete"})}

(* Commits to a branch that is only packed.                                *)
PackedCommits == {Scene(None, c0, Proc, {"commit"})}

(* Writing and reading a reference that has a file.                        *)
WritesAndReads == {Scene(c0, None, Proc, {"ref_write", "read"})}

Symm == Permutations(Proc)
=============================================================================
