--------------------------- MODULE MCWorktreeOps ---------------------------
(* Two files: f exists from the start, g does not.  The commit to be       *)
(* cherrypicked changes f and adds g.                                      *)
EXTENDS WorktreeOps

CONSTANTS f, g, a, b, d, u

Plain(v) == [x |-> FALSE, c |-> [r \in Regions |-> {v}]]

FilePaths == <<f, g>>
OneFile == [p \in {f, g} |-> IF p = f THEN Plain(a) ELSE None]
SideChange == [from |-> OneFile,
               to |-> [p \in {f, g} |-> IF p = f THEN Plain(b) ELSE Plain(a)]]
DeletedFile == {<<f, Plain(b)>>, <<f, None>>}
=============================================================================
