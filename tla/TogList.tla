------------------------------ MODULE TogList -------------------------------
(***************************************************************************)
(* Moving, scrolling and searching in the diff, blame, tree and reference  *)
(* views of tog (tog/tog.c), and the blame thread.                         *)
(*                                                                         *)
(* The lines of a file, the entries of a tree and references are numbered  *)
(* from 1.  In the tree view first = 0 means that the line ".." is on top. *)
(* `sel' is the selected row; rows are counted from 1 in the blame view    *)
(* and from 0 in the tree and reference views, as in the code.  Every key  *)
(* is followed by the redraw at the end of the view loop.                  *)
(***************************************************************************)
EXTENDS Integers, Sequences

CONSTANTS
    Kinds,        \* the views to look at
    Heights,      \* their heights in lines
    Lengths,      \* numbers of lines, entries or references
    Matches,      \* what a pattern may match: sets of lines
    MaxListKeys,  \* bound on the number of keys pressed
    MaxDepth      \* bound on the depth of trees and on re-blamed commits

(* A window has room for a line below every header, and lists are not      *)
(* empty: in an empty tree or list of references there is nothing to       *)
(* select, and the blame view of an empty file starts its thread with null *)
(* pointers (run_blame leaves early, show_blame_view goes on).             *)
ASSUME TogListConstants ==
    /\ Kinds \subseteq {"diff", "blame", "tree", "ref"}
    /\ Heights \subseteq Nat \ (0 .. 4) /\ Lengths \subseteq Nat \ {0}
    /\ MaxListKeys \in Nat /\ MaxDepth \in Nat

VARIABLES
    kind, height,
    len,        \* lines of the file, entries of the tree, references
    top,        \* first displayed, last displayed, number displayed, eof
    sel,        \* selected row
    entry,      \* selected entry of the tree and reference views
    parents,    \* trees above the one on display, with their positions
    found,      \* direction, pattern and last match of the search
    blamer,     \* the blame thread: "none", "running", "exited"
    annotated,  \* lines it has annotated
    loop,       \* "key", "join", "back", "quit", "spin" (searching for ever)
    listKeys,
    oddities    \* history: what invalidates positions

listVars == <<kind, height, len, top, sel, entry, parents, found, blamer,
              annotated, loop, listKeys, oddities>>

Lesser(a, b) == IF a < b THEN a ELSE b
Greater(a, b) == IF a > b THEN a ELSE b

(***************************************************************************)
(* Drawing                                                                 *)
(***************************************************************************)
(* The lines from f on, of n, that fit into rows.                          *)
Window(f, n, rows) ==
    LET last == Lesser(n, f + rows - 1)
    IN  [first |-> f, last |-> last, shown |-> Greater(0, last - f + 1),
         eof |-> n < f + rows - 1]

(* The views have headers of one, two and three lines.                     *)
DrawFile(f, n, h) == Window(f, n, h - 1)
DrawBlame(f, n, h) == Window(f, n, h - 2)
ShowRefs(f, n, h) == Window(f, n, h - 1)
DrawTreeEntries(f, n, h) ==
    IF f # 0 THEN Window(f, n, h - 3)
    ELSE [Window(1, n, h - 4) EXCEPT !.first = 0, !.shown = @ + 1]

Display(f, n, h) == CASE kind = "diff" -> DrawFile(f, n, h)
                      [] kind = "blame" -> DrawBlame(f, n, h)
                      [] kind = "tree" -> DrawTreeEntries(f, n, h)
                      [] kind = "ref" -> ShowRefs(f, n, h)

(* The selected entry is set while drawing, if its row is displayed; the   *)
(* line ".." is entry 0.                                                   *)
Draw(f, n, h, s) ==
    /\ top' = Display(f, n, h)
    /\ sel' = s
    /\ entry' = IF kind \in {"tree", "ref"} /\ s < top'.shown THEN f + s
                ELSE entry

(* The lines of line_offsets: a diff has an offset more than lines.        *)
Offsets == IF kind = "diff" THEN len + 1 ELSE len

(***************************************************************************)
(* Keys: where each view goes, as <<first line displayed, selected row>>   *)
(***************************************************************************)
(* Page Down reads on where drawing stopped: it moves by one line more     *)
(* than there are left at most.                                            *)
InputDiff(key) ==
    <<CASE key = "up" -> Greater(1, top.first - 1)
        [] key = "ppage" -> Greater(1, top.first - (height - 1))
        [] top.eof /\ key \in {"down", "npage"} -> top.first
        [] ~top.eof /\ key = "down" -> top.first + 1
        [] ~top.eof /\ key = "npage" ->
              top.first + Lesser(height - 1, len - top.last + 1), sel>>

BlameUp == IF sel > 1 THEN <<top.first, sel - 1>>
           ELSE <<Greater(1, top.first - 1), sel>>

(* Mutant: the selection may move one line below the last one.             *)
BlameDownTooFar ==
    IF sel < height - 2 /\ top.first + sel <= len + 1
    THEN <<top.first, sel + 1>>
    ELSE <<IF top.last < len THEN top.first + 1 ELSE top.first, sel>>

BlameDown ==
    IF sel < height - 2 /\ top.first + sel <= len
    THEN <<top.first, sel + 1>>
    ELSE <<IF top.last < len THEN top.first + 1 ELSE top.first, sel>>

BlamePageUp ==
    IF top.first = 1 THEN <<1, 1>>
    ELSE <<IF top.first > height - 2 THEN top.first - (height - 2) ELSE 1,
           sel>>

BlamePageDown ==
    LET bottom == Lesser(len, height - 2)
    IN  IF top.last >= len THEN <<top.first, Greater(sel, bottom)>>
        ELSE <<IF top.last + height - 2 <= len THEN top.first + height - 2
               ELSE len - (height - 3), sel>>

InputBlame(key) == CASE key = "up" -> BlameUp
                     [] key = "down" -> BlameDown
                     [] key = "ppage" -> BlamePageUp
                     [] key = "npage" -> BlamePageDown

(* Only below the root is there a line ".." to scroll up to.               *)
TopEntry == IF parents = <<>> THEN 1 ELSE 0

TreeScrollUp(n) ==
    IF top.first = 0 THEN 0 ELSE Greater(TopEntry, top.first - n)
TreeScrollDown(n) == top.first + Lesser(n, len - top.last)

InputTree(key) ==
    CASE key = "up" -> IF sel > 0 THEN <<top.first, sel - 1>>
                       ELSE <<TreeScrollUp(1), sel>>
      [] key = "ppage" -> <<TreeScrollUp(height - 3),
                            IF top.first = TopEntry THEN 0 ELSE sel>>
      [] key = "down" -> IF sel < top.shown - 1 THEN <<top.first, sel + 1>>
                         ELSE <<TreeScrollDown(1), sel>>
      [] key = "npage" ->
            IF top.last = len THEN <<top.first, Greater(sel, top.shown - 1)>>
            ELSE <<TreeScrollDown(height - 3), sel>>

RefScrollUp(n) == Greater(1, top.first - n)
RefScrollDown(n) == top.first + Lesser(n, len - top.last)

InputRef(key) ==
    CASE key = "up" -> IF sel > 0 THEN <<top.first, sel - 1>>
                       ELSE <<RefScrollUp(1), sel>>
      [] key = "ppage" -> <<RefScrollUp(height - 1),
                            IF top.first = 1 THEN 0 ELSE sel>>
      [] key = "down" -> IF sel < top.shown - 1 THEN <<top.first, sel + 1>>
                         ELSE <<RefScrollDown(1), sel>>
      [] key = "npage" ->
            IF top.last = len THEN <<top.first, Greater(sel, top.shown - 1)>>
            ELSE <<RefScrollDown(height - 1), sel>>

ListKey ==
    /\ loop = "key" /\ listKeys < MaxListKeys
    /\ listKeys' = listKeys + 1

Move(key) ==
    /\ ListKey
    /\ LET to == CASE kind = "diff" -> InputDiff(key)
                   [] kind = "blame" -> InputBlame(key)
                   [] kind = "tree" -> InputTree(key)
                   [] kind = "ref" -> InputRef(key)
       IN  /\ Draw(to[1], len, height, to[2])
           /\ oddities' = oddities \cup
                  (IF kind = "blame" /\ key = "npage" /\ to[1] + to[2] - 1 > len
                   THEN {"past the end"} ELSE {})
    /\ UNCHANGED <<kind, height, len, parents, found, blamer, annotated, loop>>

(* KEY_RESIZE: the selected row must fit.                                  *)
Resize(h) ==
    /\ ListKey
    /\ height' = h
    /\ Draw(top.first, len, h,
            CASE kind = "blame" /\ sel > h - 2 -> Lesser(len, h - 2)
              [] kind = "tree" /\ sel >= h - 3 -> h - 4
              [] kind = "ref" /\ sel >= h - 1 -> h - 2
              [] OTHER -> sel)
    /\ UNCHANGED <<kind, len, parents, found, blamer, annotated, loop,
                   oddities>>

(* Another diff is put on display: the keys a, w and ] and, with the log   *)
(* view's selection, < and > (set_selected_commit); [ makes it shorter.    *)
Rediff(n, k) ==
    /\ ListKey /\ kind = "diff"
    /\ k = "[" => n <= len
    /\ k = "]" => n >= len
    /\ len' = n
    /\ Draw(IF \/ k \in {"a", "<"}
               \/ k = "[" /\ top.first + height - 1 > n + 1
            THEN 1 ELSE top.first, n, height, sel)
    /\ oddities' = oddities \cup {"stale match"}
    /\ UNCHANGED <<kind, height, parents, found, blamer, annotated, loop>>

(* Enter on a directory, tree_view_visit_subtree; on ".." or Backspace     *)
(* back to the parent.                                                     *)
VisitSubtree(n) ==
    /\ ListKey /\ kind = "tree"
    /\ entry # 0 /\ Len(parents) < MaxDepth
    /\ parents' = <<[len |-> len, first |-> top.first, entry |-> entry,
                     sel |-> sel]>> \o parents
    /\ len' = n
    /\ Draw(0, n, height, 0)
    /\ oddities' = oddities \cup {"stale match"}
    /\ UNCHANGED <<kind, height, found, blamer, annotated, loop>>

LeaveSubtree ==
    /\ ListKey /\ kind = "tree" /\ parents # <<>>
    /\ LET p == parents[1]
       IN  /\ len' = p.len
           /\ top' = Display(p.first, p.len, height)
           /\ sel' = p.sel
           /\ entry' = IF p.sel < top'.shown THEN p.first + p.sel ELSE p.entry
    /\ parents' = Tail(parents)
    /\ oddities' = oddities \cup {"stale match"}
                   \cup (IF sel' >= top'.shown THEN {"row is gone"} ELSE {})
    /\ UNCHANGED <<kind, height, found, blamer, annotated, loop>>

(* Ctrl-L in the reference view; other processes may have changed them.    *)
ReloadRefs(n) ==
    /\ ListKey /\ kind = "ref"
    /\ len' = n
    /\ Draw(1, n, height, sel)
    /\ oddities' = oddities \cup {"stale match"}
                   \cup (IF sel >= top'.shown THEN {"row is gone"} ELSE {})
    /\ UNCHANGED <<kind, height, parents, found, blamer, annotated, loop>>

(***************************************************************************)
(* Searching                                                               *)
(***************************************************************************)
(* Where the search starts: after the last match, in the tree and          *)
(* reference views after the selected entry, else at an end.               *)
Beyond(f, at) ==
    IF f.matched = 0 \/ at = 0
    THEN IF f.dir = "forward" THEN 1 ELSE Offsets
    ELSE IF f.dir = "forward" THEN at + 1 ELSE at - 1

(* The first match from line s on, once around the n lines, or only to the *)
(* end if there was no match before; 0 if there is none.                   *)
Around(f, s, n) ==
    LET line(i) == IF f.dir = "forward" THEN ((s - 1 + i) % n) + 1
                   ELSE ((s - 1 - i) % n) + 1
        tries == {i \in 0 .. n - 1 : line(i) \in f.pattern \cap 1 .. len}
    IN  IF tries = {} THEN 0
        ELSE line(CHOOSE i \in tries : \A j \in tries : i <= j)

SearchNextDiff(f) == Around(f, Beyond(f, f.matched), Offsets)
SearchNextBlame(f) == Around(f, Beyond(f, f.matched), len)
SearchNextTree(f) == Around(f, Beyond(f, entry), len)
SearchNextRef(f) == Around(f, Beyond(f, entry), len)

Hit(f) == CASE kind = "diff" -> SearchNextDiff(f)
            [] kind = "blame" -> SearchNextBlame(f)
            [] kind = "tree" -> SearchNextTree(f)
            [] kind = "ref" -> SearchNextRef(f)

(* The search_next functions.  With an earlier match they wrap around, and *)
(* never stop if there is no match in what is displayed now.               *)
SearchWith(f) ==
    LET hit == Hit(f)
    IN  IF hit # 0
        THEN /\ found' = [f EXCEPT !.matched = hit]
             /\ Draw(hit, len, height, IF kind \in {"tree", "ref"} THEN 0
                                       ELSE 1)
             /\ oddities' = oddities \ {"stale match"}
             /\ UNCHANGED loop
        ELSE /\ found' = f
             /\ loop' = IF f.matched # 0 THEN "spin" ELSE loop
             /\ UNCHANGED <<top, sel, entry, oddities>>

SearchUnchanged == UNCHANGED <<kind, height, len, parents, blamer, annotated>>

(* Mutant: search_start does not forget the match of the last search.      *)
SearchStartKeepsMatch(pattern) ==
    /\ ListKey /\ SearchUnchanged
    /\ SearchWith([dir |-> "forward", pattern |-> pattern,
                   matched |-> found.matched])

SearchStart(pattern) ==
    /\ ListKey /\ SearchUnchanged
    /\ SearchWith([dir |-> "forward", pattern |-> pattern, matched |-> 0])

SearchNextKey(dir) ==
    /\ ListKey /\ SearchUnchanged
    /\ found.dir # "none"
    /\ SearchWith([found EXCEPT !.dir = dir])

(***************************************************************************)
(* The blame thread                                                        *)
(***************************************************************************)
(* blame_cb annotates a line, with the mutex; blame_thread ends.           *)
Annotate(l) ==
    /\ blamer = "running" /\ loop = "key"
    /\ l \in (1 .. len) \ annotated
    /\ annotated' = annotated \cup {l}
    /\ UNCHANGED <<kind, height, len, top, sel, entry, parents, found, blamer,
                   loop, listKeys, oddities>>

(* It ends when every line is annotated, or at the next call of blame_cb   *)
(* or cancel_blame_view after `done' was set.                              *)
BlameEnds ==
    /\ blamer = "running"
    /\ annotated = 1 .. len \/ loop \in {"join", "back", "quit"}
    /\ blamer' = "exited"
    /\ UNCHANGED <<kind, height, len, top, sel, entry, parents, found,
                   annotated, loop, listKeys, oddities>>

(* Keys b and p blame the commit of the selected line or its parent, key B *)
(* goes back: stop_blame releases the mutex and joins the thread.          *)
BlameOther(way) ==
    /\ ListKey /\ kind = "blame"
    /\ IF way = "back" THEN parents # <<>>
       ELSE /\ top.first + sel - 1 \in annotated
            /\ Len(parents) < MaxDepth
    /\ loop' = way
    /\ UNCHANGED <<kind, height, len, top, sel, entry, parents, found, blamer,
                   annotated, oddities>>

(* run_blame on another commit's version of the file; show_blame_view      *)
(* starts the thread again.                                                *)
RunBlame(n) ==
    /\ loop \in {"join", "back"} /\ blamer = "exited"
    /\ loop = "back" => n = parents[1].len
    /\ parents' = IF loop = "back" THEN Tail(parents)
                  ELSE <<[len |-> len]>> \o parents
    /\ loop' = "key" /\ blamer' = "running"
    /\ len' = n /\ annotated' = {}
    /\ IF top.first + height - 1 > n
       THEN Draw(1, n, height, 1) ELSE Draw(top.first, n, height, sel)
    /\ oddities' = (oddities \ {"past the end"}) \cup {"stale match"}
    /\ UNCHANGED <<kind, height, found, listKeys>>

QuitList ==
    /\ ListKey
    /\ loop' = "quit"
    /\ UNCHANGED <<kind, height, len, top, sel, entry, parents, found, blamer,
                   annotated, oddities>>

(***************************************************************************)
(* Specification                                                           *)
(***************************************************************************)
(* open_diff_view, open_blame_view, open_tree_view, open_ref_view.         *)
ListInit ==
    /\ kind \in Kinds /\ height \in Heights /\ len \in Lengths
    /\ top = Display(1, len, height)
    /\ sel = IF kind \in {"diff", "blame"} THEN 1 ELSE 0
    /\ entry = 1 /\ parents = <<>>
    /\ found = [dir |-> "none", pattern |-> {}, matched |-> 0]
    /\ blamer = IF kind = "blame" THEN "running" ELSE "none"
    /\ annotated = {} /\ loop = "key" /\ listKeys = 0 /\ oddities = {}

ListIdle ==
    /\ kind = "diff" /\ height = 2 /\ len = 0
    /\ top = [first |-> 1, last |-> 0, shown |-> 0, eof |-> TRUE]
    /\ sel = 1 /\ entry = 1 /\ parents = <<>>
    /\ found = [dir |-> "none", pattern |-> {}, matched |-> 0]
    /\ blamer = "none" /\ annotated = {} /\ loop = "quit" /\ listKeys = 0
    /\ oddities = {}

ListUser ==
    \/ \E key \in {"up", "down", "ppage", "npage"} : Move(key)
    \/ LeaveSubtree \/ QuitList \/ \E way \in {"join", "back"} : BlameOther(way)
    \/ \E h \in Heights : Resize(h)
    \/ \E n \in Lengths :
          \/ VisitSubtree(n) \/ ReloadRefs(n)
          \/ \E k \in {"a", "[", "]", "<"} : Rediff(n, k)
    \/ \E p \in Matches : SearchStart(p)
    \/ \E d \in {"forward", "backward"} : SearchNextKey(d)

BlameThread == BlameEnds \/ \E l \in 1 .. len : Annotate(l)
BlameAgain == \E n \in Lengths : RunBlame(n)

ListNext == ListUser \/ BlameThread \/ BlameAgain
ListFairness == WF_listVars(BlameThread) /\ WF_listVars(BlameAgain)

(***************************************************************************)
(* Properties                                                              *)
(***************************************************************************)
(* In a list that is not empty, in a window of more than four lines, the   *)
(* selection is a line, an entry or a reference that exists and is on      *)
(* the screen: what Enter, b and p act on is what is highlighted, and the  *)
(* arrays of lines are not left.  (Page Down in the blame view may go past *)
(* the end if fewer lines than fit are on the screen; Ctrl-L in the        *)
(* reference view, and going back to a parent tree on a smaller screen,    *)
(* may leave the selected row empty.)                                      *)
SelectionExists ==
    oddities \cap {"past the end", "row is gone"} = {} =>
        CASE kind = "diff" -> top.first \in 1 .. Offsets
          [] kind = "blame" -> /\ top.first + sel - 1 \in 1 .. len
                               /\ sel \in 1 .. height - 2
          [] OTHER -> sel < top.shown /\ entry = top.first + sel

(* A search comes to an end: it wraps around only as long as there is a    *)
(* match to be found, that is, when the last match is one of what is on    *)
(* display.                                                                *)
SearchTerminates == loop = "spin" => "stale match" \in oddities
=============================================================================
