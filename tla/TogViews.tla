------------------------------ MODULE TogViews ------------------------------
(***************************************************************************)
(* The views of tog and the view loop (tog/tog.c): a list of top-level     *)
(* views, each with at most one child, one of which has the focus.         *)
(*                                                                         *)
(* A diff view keeps a pointer to the log view it was opened from          *)
(* (log_view), a blame view to the commit id of the tree view it was       *)
(* opened from (commit_id); `uses' is the view that owns what is pointed   *)
(* to.  A view is named by the number it was opened as, 0 is NULL.         *)
(***************************************************************************)
EXTENDS Naturals, Sequences, SequencesExt

CONSTANTS
    MaxViews,     \* bound on the number of views opened
    WideScreens   \* whether the terminal has room for a split screen

ViewIds == 1 .. MaxViews
ViewTypes == {"log", "diff", "tree", "blame", "ref"}

ASSUME TogViewsConstants == MaxViews \in Nat \ {0} /\ WideScreens \subseteq BOOLEAN

VARIABLES
    wide,      \* COLS >= 120
    opened,    \* number of views opened so far
    views,     \* the open views
    toplevel,  \* the list of the view loop
    current    \* the view that gets the keys; 0 when the loop has ended

viewVars == <<wide, opened, views, toplevel, current>>

NoView == [type |-> "none"]
IsOpen(v) == v \in ViewIds /\ views[v] # NoView

(* view_close: the child is closed first.                                  *)
Close(vs, v) ==
    [w \in ViewIds |-> IF w \in {v, vs[v].child} THEN NoView ELSE vs[w]]

(* view_open, with the focus.                                              *)
NewView(type, parent, uses) ==
    [type |-> type, parent |-> parent, child |-> 0, focussed |-> TRUE,
     focus_child |-> FALSE, uses |-> uses, split |-> parent # 0 /\ wide]

(* The end of a turn of the view loop: the focus may have moved between a  *)
(* view and its child.                                                     *)
Settle(vs, v) ==
    LET other == IF vs[v].parent = 0 THEN vs[v].child ELSE vs[v].parent
    IN  IF other # 0 /\ vs[other].focussed THEN other ELSE v

(* What can be opened from where, and whether the new view points into the *)
(* old one: open_diff_view_for_commit and browse_commit_tree from the log, *)
FromLog == {<<"diff", TRUE>>, <<"tree", FALSE>>, <<"ref", FALSE>>}

(* blame_tree_entry and log_selected_tree_entry from a tree,               *)
FromTree == {<<"blame", TRUE>>, <<"log", FALSE>>, <<"ref", FALSE>>}

(* log_ref_entry and browse_ref_tree from the references,                  *)
FromRef == {<<"log", FALSE>>, <<"tree", FALSE>>}

(* a diff from blame, and nothing from a diff.                             *)
FromBlame == {<<"diff", FALSE>>}

(* Mutant: the references can be opened from a diff, too.                  *)
FromDiffRefs == {<<"ref", FALSE>>}
FromDiff == {}

Opens == [log |-> FromLog, tree |-> FromTree, ref |-> FromRef,
          blame |-> FromBlame, diff |-> FromDiff]

(* From a top-level view the new one becomes its child and replaces the    *)
(* child it had.                                                           *)
OpenAsChild(type, uses) ==
    LET n == opened + 1
        old == IF views[current].child = 0 THEN views
               ELSE [views EXCEPT ![views[current].child] = NoView]
    IN  /\ views[current].parent = 0
        /\ views' = [old EXCEPT
                        ![current].focussed = FALSE,
                        ![current].child = n, ![current].focus_child = TRUE,
                        ![n] = NewView(type, current, uses)]
        /\ current' = n
        /\ UNCHANGED toplevel

(* From a child the new one goes to the end of the list, where it replaces *)
(* the top-level view of its type.                                         *)
OpenTopLevel(type, uses) ==
    LET n == opened + 1
        same == {i \in DOMAIN toplevel : views[toplevel[i]].type = type}
        left == [views EXCEPT ![current].focussed = FALSE]
        vs == IF same = {} THEN left ELSE Close(left, toplevel[Min(same)])
    IN  /\ views[current].parent # 0
        /\ views' = [vs EXCEPT ![n] = NewView(type, 0, uses)]
        /\ toplevel' = Append(IF same = {} THEN toplevel
                              ELSE RemoveAt(toplevel, Min(same)), n)
        /\ current' = n

OpenView ==
    /\ current # 0 /\ opened < MaxViews
    /\ \E o \in Opens[views[current].type] :
          LET uses == IF o[2] THEN current ELSE 0
          IN  OpenAsChild(o[1], uses) \/ OpenTopLevel(o[1], uses)
    /\ opened' = opened + 1
    /\ UNCHANGED wide

(* Mutant: Tab in a child leaves its focus on.                             *)
TabKeepsFocus ==
    /\ current # 0
    /\ LET c == views[current].child
           p == views[current].parent
       IN  views' = CASE c # 0 -> [views EXCEPT ![current].focussed = FALSE,
                                     ![c].focussed = TRUE,
                                     ![current].focus_child = TRUE]
                      [] c = 0 /\ p # 0 ->
                            [views EXCEPT ![p].focussed = TRUE,
                                     ![p].focus_child = FALSE]
                      [] OTHER -> views
    /\ current' = Settle(views', current)
    /\ UNCHANGED <<wide, opened, toplevel>>

(* view_input, key Tab.                                                    *)
Tab ==
    /\ current # 0
    /\ LET c == views[current].child
           p == views[current].parent
       IN  views' = CASE c # 0 -> [views EXCEPT ![current].focussed = FALSE,
                                     ![c].focussed = TRUE,
                                     ![current].focus_child = TRUE]
                      [] c = 0 /\ p # 0 ->
                            [views EXCEPT ![current].focussed = FALSE,
                                     ![p].focussed = TRUE,
                                     ![p].focus_child = FALSE]
                      [] OTHER -> views
    /\ current' = Settle(views', current)
    /\ UNCHANGED <<wide, opened, toplevel>>

(* Key f switches a child between split and full screen.                   *)
Fullscreen ==
    /\ current # 0
    /\ LET p == views[current].parent
           c == IF p = 0 THEN views[current].child ELSE current
           top == IF p = 0 THEN current ELSE p
       IN  /\ c # 0
           /\ views' = IF views[c].split
                       THEN [views EXCEPT ![top].focussed = FALSE,
                                          ![c].focussed = TRUE,
                                          ![c].split = FALSE]
                       ELSE [views EXCEPT ![c].split = wide]
    /\ current' = Settle(views', current)
    /\ UNCHANGED <<wide, opened, toplevel>>

(* The view to go on with after a view has been closed: the one before it, *)
(* or its parent, or else the last one.                                    *)
PickFocus(vs, list, prev) ==
    LET v == IF prev # 0 THEN prev ELSE Last(list)
    IN  IF vs[v].focus_child
        THEN [vs |-> [vs EXCEPT ![vs[v].child].focussed = TRUE],
              at |-> vs[v].child]
        ELSE [vs |-> [vs EXCEPT ![v].focussed = TRUE], at |-> v]

(* Key q closes a view and its child.                                      *)
Quit ==
    /\ current # 0
    /\ LET p == views[current].parent
           i == CHOOSE j \in DOMAIN toplevel : toplevel[j] = current
           prev == IF p # 0 THEN p ELSE IF i > 1 THEN toplevel[i - 1] ELSE 0
           vs == Close(IF p = 0 THEN views
                       ELSE [views EXCEPT ![p].child = 0,
                                          ![p].focus_child = FALSE], current)
           list == IF p = 0 THEN RemoveAt(toplevel, i) ELSE toplevel
       IN  /\ toplevel' = list
           /\ IF list = <<>>
              THEN views' = vs /\ current' = 0
              ELSE LET f == PickFocus(vs, list, prev)
                   IN  views' = f.vs /\ current' = Settle(f.vs, f.at)
    /\ UNCHANGED <<wide, opened>>

(* Key Q ends the loop, which closes every view.                           *)
QuitAll ==
    /\ current # 0
    /\ views' = [v \in ViewIds |-> NoView]
    /\ toplevel' = <<>> /\ current' = 0
    /\ UNCHANGED <<wide, opened>>

(* The command line opens one view of any type.                            *)
ViewsInit ==
    /\ wide \in WideScreens /\ opened = 1
    /\ \E type \in ViewTypes :
          views = [v \in ViewIds |-> IF v = 1 THEN NewView(type, 0, 0)
                                     ELSE NoView]
    /\ toplevel = <<1>> /\ current = 1

ViewsIdle ==
    /\ wide = FALSE /\ opened = 0 /\ views = [v \in ViewIds |-> NoView]
    /\ toplevel = <<>> /\ current = 0

ViewsNext == OpenView \/ Tab \/ Fullscreen \/ Quit \/ QuitAll

(***************************************************************************)
(* Properties                                                              *)
(***************************************************************************)
(* Every open view is in the list or the child of a view in it, a view and *)
(* its child agree about each other, and the view that gets the keys, only *)
(* that one, has the focus.                                                *)
FocusIsUnique ==
    /\ \A v \in ViewIds : IsOpen(v) =>
          IF views[v].parent = 0
          THEN v \in ToSet(toplevel)
          ELSE IsOpen(views[v].parent) /\ views[views[v].parent].child = v
    /\ {v \in ViewIds : IsOpen(v) /\ views[v].focussed}
          = IF current = 0 THEN {} ELSE {current}

(* What a diff or a blame view points into is open as long as the view is: *)
(* the keys < and > of a diff view and B of a blame view follow it.        *)
PointersAreLive ==
    \A v \in ViewIds :
        IsOpen(v) /\ views[v].uses # 0 => IsOpen(views[v].uses)
=============================================================================
