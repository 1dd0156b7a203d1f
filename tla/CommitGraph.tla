---------------------------- MODULE CommitGraph -----------------------------
(***************************************************************************)
(* The traversal of commit history behind `got log', `got blame', tog and  *)
(* many others (lib/commit_graph.c).  The graph holds a set of traversed   *)
(* commits, a set of open branches, which are the commits to look at next, *)
(* and the list of commits to be returned.  Commits that do not change the *)
(* path of interest are passed over; of a merge, only the branches that    *)
(* contributed to the path are followed.  In first-parent traversal a      *)
(* helper process may skip a run of packed commits.                        *)
(*                                                                         *)
(* Commits are numbered so that parents come before their children; the    *)
(* order of their ids and their times are arbitrary.                       *)
(***************************************************************************)
EXTENDS Integers, Sequences, FiniteSets, SequencesExt

CONSTANTS NCommits,            \* the number of commits; the last is the first one
          RootDags, PathDags   \* histories to traverse for "/" and for another path

ASSUME NCommitsIsPositive == NCommits \in Nat \ {0}

VARIABLES
  dag,    \* per commit: parents (a sequence), time, content of the path (0: none), packed
  mode,   \* [root: is the path "/", first: first-parent traversal only]
  graph   \* node_ids, open_branches, iter_list; what was returned; pc

graphVars == <<dag, mode, graph>>

GraphCommit == 1..NCommits
Parents(c) == dag[c].parents
NoGraph == [pc |-> "none", nodes |-> {}, open |-> {}, iter |-> <<>>, out |-> <<>>,
            again |-> FALSE]

(* detect_changed_path: against the first parent.  A commit without the path ends its
   history; in the root commit the path is created. *)
DetectChangedPath(c) ==
  IF mode.root THEN "changed"
  ELSE IF Parents(c) = <<>> THEN (IF dag[c].content # 0 THEN "changed" ELSE "same")
  ELSE IF dag[c].content = 0 THEN "stop"
  ELSE IF dag[c].content = dag[Parents(c)[1]].content THEN "same" ELSE "changed"

(* add_node_to_iter_list: by time, but never before the first. *)
AddNodeToIterList(iter, c) ==
  LET later == {i \in 2..Len(iter) : dag[c].time >= dag[iter[i]].time}
  IN IF later = {} THEN Append(iter, c)
     ELSE InsertAt(iter, CHOOSE i \in later : \A j \in later : i <= j, c)

(* commit_traversal_request in got-read-pack: from c along first parents, as long as
   they are in the pack and the path stays the same; the last may have changed it. *)
TraversePacked(c) ==
  LET run[d \in GraphCommit] ==
        IF /\ Parents(d) # <<>> /\ dag[d].content # 0
           /\ dag[Parents(d)[1]].packed /\ dag[d].content = dag[Parents(d)[1]].content
        THEN <<d>> \o run[Parents(d)[1]] ELSE <<d>>
  IN IF dag[c].packed THEN run[c] ELSE <<>>

(* packed_first_parent_traversal: these are traversed, and the last is the new tip. *)
PackedFirstParentTraversal(g, c) ==
  LET list == TraversePacked(c)
      new == ToSet(list) \ (g.open \cup g.nodes)
  IN IF new = {} THEN [g EXCEPT !.open = @ \cup {c}]
     ELSE [g EXCEPT !.nodes = @ \cup (new \ {Last(list)}),
                    !.open = @ \cup (new \cap {Last(list)})]

AdvanceFirstParent(g, c) ==
  IF Parents(c) = <<>> \/ Head(Parents(c)) \in g.open THEN g
  ELSE IF ~mode.root /\ dag[c].packed THEN PackedFirstParentTraversal(g, Head(Parents(c)))
  ELSE [g EXCEPT !.open = @ \cup {Head(Parents(c))}]

(* A merge, when one path is of interest: a branch that has the merged content is the
   only one to follow; if all have the same content, it is the first. *)
Differ(g, c) ==
  LET other == {p \in ToSet(Parents(c)) : p \notin g.open}
  IN \/ \E p \in other : dag[p].content = 0
     \/ \E p, q \in other : dag[p].content # dag[q].content
MergedFrom(g, c) ==
  SelectSeq(Parents(c), LAMBDA p : p \notin g.open /\ dag[p].content = dag[c].content)
AdvanceMerge(g, c) ==
  IF MergedFrom(g, c) # <<>>
  THEN [g EXCEPT !.open = @ \cup {Head(MergedFrom(g, c))},
                 !.again = @ \/ Head(MergedFrom(g, c)) \in g.nodes]
  ELSE [g EXCEPT !.open = @ \cup
          ((IF Differ(g, c) THEN ToSet(Parents(c)) ELSE {Head(Parents(c))}) \ g.nodes)]

AdvanceParentsAll(g, c) == [g EXCEPT !.open = @ \cup ToSet(Parents(c))]
AdvanceParents(g, c) == [g EXCEPT !.open = @ \cup (ToSet(Parents(c)) \ g.nodes)]

CloseBranch(g, c) == [g EXCEPT !.open = @ \ {c}]
AdvanceBranch(g, c) ==
  LET closed == CloseBranch(g, c)
  IN IF mode.first THEN AdvanceFirstParent(closed, c)
     ELSE IF Len(Parents(c)) > 1 /\ ~mode.root THEN AdvanceMerge(closed, c)
     ELSE AdvanceParents(closed, c)

(* fetch_commits_from_open_branches: all tips become nodes, then one is looked at after
   the other, in the order of their ids. *)
FetchTip(g, c) ==
  LET how == DetectChangedPath(c)
      listed == IF how = "changed" THEN [g EXCEPT !.iter = AddNodeToIterList(@, c)] ELSE g
  IN IF how = "stop" THEN CloseBranch(g, c) ELSE AdvanceBranch(listed, c)

FetchCommits ==
  /\ graph.open # {}
  /\ \/ graph.pc = "start" /\ graph.iter = <<>>
     \/ graph.pc = "next" /\ Len(graph.iter) = 1
  /\ \E tips \in SetToSeqs(graph.open) :
       graph' = FoldLeft(FetchTip, [graph EXCEPT !.nodes = @ \cup graph.open], tips)
  /\ UNCHANGED <<dag, mode>>

(* got_commit_graph_iter_start has found the first commit, or there is none. *)
IterStarted ==
  /\ graph.pc = "start" /\ (graph.iter # <<>> \/ graph.open = {})
  /\ graph' = [graph EXCEPT !.pc = IF graph.iter # <<>> THEN "next" ELSE "done"]
  /\ UNCHANGED <<dag, mode>>

IterNext ==
  /\ graph.pc = "next" /\ graph.iter # <<>> /\ (Len(graph.iter) > 1 \/ graph.open = {})
  /\ graph' = [graph EXCEPT !.out = Append(@, Head(graph.iter)), !.iter = Tail(@)]
  /\ UNCHANGED <<dag, mode>>

IterCompleted ==
  /\ graph.pc = "next" /\ graph.iter = <<>>
  /\ graph' = [graph EXCEPT !.pc = "done"]
  /\ UNCHANGED <<dag, mode>>

(* The commits along first parents, the newest first. *)
FirstParents ==
  LET chain[d \in GraphCommit] ==
        <<d>> \o (IF Parents(d) = <<>> THEN <<>> ELSE chain[Parents(d)[1]])
  IN chain

(* got_commit_graph_find_youngest_common_ancestor: two first-parent traversals take
   turns until one of them returns what has been seen. *)
Turns(a, b) ==
  [k \in 1..2 * NCommits |->
     LET chain == IF k % 2 = 1 THEN a ELSE b
     IN IF (k + 1) \div 2 <= Len(chain) THEN chain[(k + 1) \div 2] ELSE 0]
YoungestCommonAncestor(c, d) ==
  LET ids == Turns(FirstParents[c], FirstParents[d])
      hits == {k \in DOMAIN ids : ids[k] # 0 /\ \E j \in 1..(k - 1) : ids[j] = ids[k]}
  IN IF hits = {} THEN 0 ELSE ids[CHOOSE k \in hits : \A j \in hits : k <= j]

--------------------------------------------------------------------------
GraphInit ==
  /\ \/ dag \in RootDags /\ mode \in [root : {TRUE}, first : BOOLEAN]
     \/ dag \in PathDags /\ mode \in [root : {FALSE}, first : BOOLEAN]
  /\ graph = [NoGraph EXCEPT !.pc = "start", !.open = {NCommits}]
GraphIdle ==
  /\ dag = [c \in GraphCommit |-> [parents |-> <<>>, time |-> 0, content |-> 0, packed |-> FALSE]]
  /\ mode = [root |-> TRUE, first |-> TRUE]
  /\ graph = NoGraph

GraphNext == FetchCommits \/ IterStarted \/ IterNext \/ IterCompleted

--------------------------------------------------------------------------
(* What the traversal is to return: the commits reachable from the first, all of them
   for the root directory; of one path, along first parents, those that changed it, down
   to where it ceases to exist. *)
Reachable ==
  LET reach[c \in GraphCommit] == {c} \cup UNION {reach[p] : p \in ToSet(Parents(c))}
  IN reach[NCommits]
PathHistory ==
  LET hist[c \in GraphCommit] ==
        LET rest == IF Parents(c) = <<>> THEN <<>> ELSE hist[Parents(c)[1]]
        IN CASE DetectChangedPath(c) = "stop" -> <<>>
             [] DetectChangedPath(c) = "changed" -> <<c>> \o rest
             [] DetectChangedPath(c) = "same" -> rest
  IN hist[NCommits]

(* The iteration ends having returned every reachable commit once, whatever their
   times; with first parents only (got blame), the commits that changed the path from
   the newest to the oldest, also across runs of packed commits; otherwise reachable
   commits that changed the path, one of them with the content it has now, and none twice
   unless a merge took the content from a commit traversed before it
   (fetch_commits_from_open_branches, advance_branch, iter_next).  Of two commits, the
   youngest common ancestor is the first on the one's first-parent line which is on the
   other's. *)
HistoryIsTraversed ==
  graph.pc = "done" =>
    /\ mode.root /\ ~mode.first =>
         ToSet(graph.out) = Reachable /\ Len(graph.out) = Cardinality(Reachable)
    /\ mode.first => graph.out = PathHistory
    /\ ~mode.root /\ ~mode.first =>
         /\ ToSet(graph.out) \subseteq {c \in Reachable : DetectChangedPath(c) = "changed"}
         /\ dag[NCommits].content # 0 =>
              \E c \in ToSet(graph.out) : dag[c].content = dag[NCommits].content
         /\ graph.again \/ Len(graph.out) = Cardinality(ToSet(graph.out))
    /\ mode.root /\ mode.first =>
         \A c, d \in GraphCommit :
           LET common == SelectSeq(FirstParents[c], LAMBDA x : x \in ToSet(FirstParents[d]))
           IN YoungestCommonAncestor(c, d) = IF common = <<>> THEN 0 ELSE Head(common)
=============================================================================
