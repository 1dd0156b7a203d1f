------------------------------- MODULE Blame --------------------------------
(***************************************************************************)
(* got_blame (lib/blame.c): which commit each line of a file comes from.   *)
(* It follows the commits that CommitGraph returns along first parents,    *)
(* comparing the file in each of them with the file in its parent, and     *)
(* keeps a map from the lines of the version it looks at to the lines of   *)
(* the version it annotates.                                               *)
(*                                                                         *)
(* A version of the file is a set of lines, in increasing order; the diff  *)
(* of two versions is then unique.  How the diff library chooses between   *)
(* diffs of files with repeated or moved lines is left out.                *)
(***************************************************************************)
EXTENDS CommitGraph

CONSTANT LinesOf   \* the lines of each content of the path other than 0

LineSeq(S) == SetToSortSeq(S, <)
LineNumber(S, x) == Cardinality({y \in S : y <= x})
Version(c) == LinesOf[dag[c].content]

(* blame->lines (0: not annotated yet), linemap2 (0: not in the version being blamed)
   and the version it belongs to. *)
BlameStart(c) ==
  [lines |-> [n \in 1..Cardinality(Version(c)) |-> 0],
   linemap2 |-> [n \in 1..Cardinality(Version(c)) |-> n],
   version2 |-> Version(c), last |-> c]

AllAnnotated(b) == \A n \in DOMAIN b.lines : b.lines[n] # 0
AnnotateLine(lines, n, c) ==
  IF n \in DOMAIN lines /\ lines[n] = 0 THEN [lines EXCEPT ![n] = c] ELSE lines

(* blame_changes: lines in both versions are mapped on, lines of the parent alone map
   to nothing, other lines are the commit's. *)
MapLineToFirst(b, x) == IF x \in b.version2 THEN b.linemap2[LineNumber(b.version2, x)] ELSE 1
MapLine(b, x) == IF x \in b.version2 THEN b.linemap2[LineNumber(b.version2, x)] ELSE 0
BlameChanges(b, old, c) ==
  [b EXCEPT !.linemap2 = [n \in 1..Cardinality(old) |-> MapLine(b, LineSeq(old)[n])],
            !.lines = FoldLeft(LAMBDA lines, x : AnnotateLine(lines, MapLine(b, x), c),
                               @, LineSeq(b.version2 \ old)),
            !.version2 = old]

(* blame_commit and close_file2_and_reuse_file1.  Without a parent that has the file
   there is nothing to compare; the iteration ends there. *)
BlameCommit(b, c) ==
  IF AllAnnotated(b) THEN b
  ELSE IF Parents(c) = <<>> \/ dag[Head(Parents(c))].content = 0 THEN [b EXCEPT !.last = c]
  ELSE BlameChanges([b EXCEPT !.last = c], Version(Head(Parents(c))), c)

(* blame_open: what remains comes from the last commit. *)
BlameOpen(c, commits) ==
  LET b == FoldLeft(BlameCommit, BlameStart(c), commits)
  IN [n \in DOMAIN b.lines |-> IF b.lines[n] = 0 THEN b.last ELSE b.lines[n]]

--------------------------------------------------------------------------
(* The oldest commit on the first-parent line since which the line has been there. *)
Origin(x) ==
  LET since[c \in GraphCommit] ==
        IF /\ Parents(c) # <<>> /\ dag[Head(Parents(c))].content # 0
           /\ x \in Version(Head(Parents(c)))
        THEN since[Head(Parents(c))] ELSE c
  IN since[NCommits]

(* Each line is attributed to the commit which brought it in, also if that is long
   before the commits that changed the lines around it, if these were removed again, or
   if the traversal skipped packed commits in between (blame_changes, blame_open). *)
BlameNamesTheOrigin ==
  graph.pc = "done" /\ mode.first /\ ~mode.root /\ dag[NCommits].content # 0 =>
    LET lines == LineSeq(Version(NCommits))
    IN BlameOpen(NCommits, graph.out) = [n \in DOMAIN lines |-> Origin(lines[n])]
=============================================================================
