----------------------------- MODULE MCCommands -----------------------------
(* Two processes with one command each in a repository of two branches.       *)
EXTENDS Commands, TLC

Symmetric == Permutations(Proc) \cup Permutations(Branch)
=============================================================================
