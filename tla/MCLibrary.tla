----------------------------- MODULE MCLibrary ------------------------------
(* Instances of Library for TLC.                                           *)
EXTENDS Library, TLC

(* Commit 2 follows 1 on the server, 3 follows 1 here.                     *)
MCAnc == (1 :> {1}) @@ (2 :> {1, 2}) @@ (3 :> {1, 3})

MCTypeOf == (1 :> "tree") @@ (2 :> "commit") @@ (3 :> "tag") @@ (4 :> "blob")
MCInPack == [p1 |-> {1}, p2 |-> {3}, p3 |-> {2}]

(* A directory with a subdirectory; one whose other entries are left out,  *)
(* and an empty one.                                                       *)
MCDirs == {[a |-> File(1), s |-> Dir([b |-> File(2), c |-> File(1)])],
           [a |-> File(1), e |-> Dir(NoEntries), f |-> [type |-> "fifo"], i |-> File(2)],
           NoEntries}
MCEdits == {<< <<"s">>, "b", 1 >>, << <<>>, "a", 2 >>}

(* Histories of five commits, with one root, at most two parents each, and *)
(* times or contents that matter; the path has up to three versions.       *)
ParentSeqs(c) ==
  {<<p>> : p \in 1..(c - 1)} \cup {pq \in (1..(c - 1)) \X (1..(c - 1)) : pq[1] # pq[2]}
Shapes == {<< <<>>, <<1>>, c, d, e >> :
             c \in ParentSeqs(3), d \in ParentSeqs(4), e \in ParentSeqs(5)}
Times == {1} \X {1} \X {1, 2} \X {1, 2} \X {1, 2}
Contents == {0, 1} \X {1} \X (0..2) \X {0, 2} \X {1, 3}
Dag(parents, time, content, packed) ==
  [c \in 1..5 |-> [parents |-> parents[c], time |-> time[c],
                   content |-> content[c], packed |-> packed /\ c < 5]]
MCRootDags == {Dag(ps, t, <<0, 0, 0, 0, 0>>, FALSE) : ps \in Shapes, t \in Times}
MCPathDags == {Dag(ps, <<1, 2, 3, 4, 5>>, x, b) : ps \in Shapes, x \in Contents, b \in BOOLEAN}
MCLinesOf == << {1, 3}, {1, 2, 3}, {2, 3} >>

(* Files and directories "a", "a." and "b", where "." sorts before and "b" *)
(* after the separator.                                                    *)
MCChars == ("a" :> <<97>>) @@ ("a." :> <<97, 46>>) @@ ("b" :> <<98>>)
FileOrNot(n) == {[p \in {} |-> "file"], (<<n>> :> "file")}
DirWith(n, S) == [p \in {<<n>>} \cup {<<n, m>> : m \in S} |-> IF Len(p) = 1 THEN "dir" ELSE "file"]
MCTrees == {x @@ y @@ z :
              x \in FileOrNot("a") \cup {<<"a">> :> "submodule"}
                    \cup {DirWith("a", S) : S \in SUBSET {"a", "b"}},
              y \in FileOrNot("a.") \cup {DirWith("a.", {"a"})},
              z \in FileOrNot("b")}
MCIndexes == SUBSET {<<"a">>, <<"a.">>, <<"a", "a">>, <<"a", "b">>, <<"a.", "a">>}
MCPathArgs == {<< <<>> >>, << <<"a">> >>, << <<"a.">> >>, << <<"b">> >>, << <<"a", "b">> >>,
               << <<"a.">>, <<"a">> >>}
MCIgnoreFiles == (<<>> :> <<{}, {[deep |-> TRUE, name |-> "b"]}>>)
                 @@ (<<"a">> :> <<{[deep |-> FALSE, name |-> "a"]}, {[deep |-> FALSE, name |-> "b"]}>>)
=============================================================================
