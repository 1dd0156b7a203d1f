----------------------------- MODULE TogProofs ------------------------------
(* Proofs about Tog, for any screens, texts, histories and keys: one view has *)
(* the focus and no view points into a closed one; what is selected is on     *)
(* display, in the lists and in the log view, whose commits another thread    *)
(* loads; and the searches of the lists end.                                  *)
EXTENDS Tog, WellFoundedInduction, TLAPS

(* A set of numbers has a least element.                                      *)
LEMMA NatMin ==
    ASSUME NEW T, T \subseteq Nat, T # {}
    PROVE  \E x \in T : \A y \in T : x =< y
<1> DEFINE R == {ss \in Nat \X Nat : ss[1] < ss[2]}
<1>1. IsWellFoundedOn(R, Nat) BY NatLessThanWellFounded, Zenon DEF OpToRel
<1>2. \A x, y \in Nat : y < x => <<y, x>> \in R OBVIOUS
<1> HIDE DEF R
<1>3. PICK x \in T : \A y \in T : ~(<<y, x>> \in R) BY <1>1, WFMin
<1>4. \A y \in T : y \in Nat /\ ~(y < x) BY <1>2, <1>3, Zenon
<1> QED BY <1>3, <1>4

-----------------------------------------------------------------------------
(* The views.                                                                 *)
View == [type : ViewTypes, parent : 0..MaxViews, child : 0..MaxViews, focussed : BOOLEAN,
         focus_child : BOOLEAN, uses : 0..MaxViews, split : BOOLEAN]
ViewTable == [ViewIds -> View \cup {NoView}]

(* Whether a view of type t may be opened from one of type s.                 *)
MayOpen(s, t) == \E o \in Opens[s] : o[1] = t

(* A view v of the table vs is open.                                          *)
Open(vs, v) == v \in ViewIds /\ vs[v] # NoView

(* A view and its child know each other; a child has no child.                *)
FamilyOK(vs, v) ==
    /\ vs[v].parent # 0 =>
          /\ Open(vs, vs[v].parent) /\ vs[v].child = 0
          /\ vs[vs[v].parent].parent = 0 /\ vs[vs[v].parent].child = v
          /\ MayOpen(vs[vs[v].parent].type, vs[v].type)
    /\ vs[v].child # 0 => Open(vs, vs[v].child) /\ vs[vs[v].child].parent = v
    /\ vs[v].focus_child => vs[v].child # 0

(* The list of the view loop has the open views without a parent, each once.  *)
ListOK(vs, list) ==
    /\ list \in Seq(ViewIds)
    /\ \A i \in DOMAIN list : Open(vs, list[i]) /\ vs[list[i]].parent = 0
    /\ \A i, j \in DOMAIN list : list[i] = list[j] => i = j
    /\ \A v \in ViewIds : Open(vs, v) /\ vs[v].parent = 0 => \E i \in DOMAIN list : list[i] = v

TreeOK(vs, list) ==
    /\ vs \in ViewTable /\ ListOK(vs, list)
    /\ \A v \in ViewIds : Open(vs, v) => FamilyOK(vs, v)

(* The top-level view of the two in which v is.                               *)
Top(vs, v) == IF vs[v].parent = 0 THEN v ELSE vs[v].parent

(* A view that points into another one is its child, or it is on its own and  *)
(* it, or its child, gets the keys.                                           *)
UsesOK(vs, cur, v) ==
    vs[v].uses # 0 =>
        /\ Open(vs, vs[v].uses) /\ <<vs[v].type, TRUE>> \in Opens[vs[vs[v].uses].type]
        /\ \/ vs[v].parent = vs[v].uses
           \/ vs[v].parent = 0 /\ cur # 0 /\ Top(vs, cur) = v

ViewsInv ==
    /\ wide \in BOOLEAN /\ opened \in 0..MaxViews
    /\ TreeOK(views, toplevel)
    /\ \A v \in ViewIds : v > opened => views[v] = NoView
    /\ current # 0 => Open(views, current)
    /\ \A v \in ViewIds : Open(views, v) => /\ UsesOK(views, current, v)
                                            /\ views[v].focussed <=> v = current

-----------------------------------------------------------------------------
(* Views and their types.                                                     *)

(* Fields of a view.                                                          *)
LEMMA ViewIs ==
    ASSUME NEW w \in View
    PROVE  /\ w.type \in ViewTypes /\ w.parent \in 0..MaxViews /\ w.child \in 0..MaxViews
           /\ w.focussed \in BOOLEAN /\ w.focus_child \in BOOLEAN
           /\ w.uses \in 0..MaxViews /\ w.split \in BOOLEAN /\ w # NoView
<1>1. w.type \in ViewTypes BY DEF View
<1>2. NoView.type \notin ViewTypes BY DEF NoView, ViewTypes
<1>3. w # NoView BY <1>1, <1>2
<1> QED BY <1>3 DEF View

(* An open view is one.                                                       *)
LEMMA OpenIs ==
    ASSUME NEW vs \in ViewTable, NEW v, Open(vs, v)
    PROVE  vs[v] \in View /\ v \in ViewIds /\ v # 0 /\ v \in 0..MaxViews
  BY TogViewsConstants DEF ViewTable, Open, ViewIds

(* view_open.                                                                 *)
LEMMA NewViewIs ==
    ASSUME NEW t \in ViewTypes, NEW p \in 0..MaxViews, NEW u \in 0..MaxViews, wide \in BOOLEAN,
           NEW w, w = NewView(t, p, u)
    PROVE  /\ w \in View /\ w # NoView
           /\ w.type = t /\ w.parent = p /\ w.child = 0 /\ w.uses = u
           /\ w.focussed /\ ~w.focus_child
<1>1. w \in View BY TogViewsConstants DEF NewView, View
<1>2. w # NoView BY <1>1, ViewIs
<1> QED BY <1>1, <1>2 DEF NewView

(* What is opened from where, and what points into what.                      *)
LEMMA OpensIs ==
    ASSUME NEW s \in ViewTypes, NEW o \in Opens[s]
    PROVE  /\ o[1] \in ViewTypes /\ o[2] \in BOOLEAN /\ MayOpen(s, o[1])
           /\ o[2] => <<o[1], TRUE>> \in Opens[s]
           /\ s # "diff" /\ (s = "blame" => o[1] = "diff")
<1>1. o \in Opens[s] /\ s \in {"log", "diff", "tree", "blame", "ref"} BY DEF ViewTypes
<1>2. /\ Opens["log"] = FromLog /\ Opens["tree"] = FromTree /\ Opens["ref"] = FromRef
      /\ Opens["blame"] = FromBlame /\ Opens["diff"] = {}
  BY DEF Opens, FromDiff
<1>3. \/ s = "log" /\ o \in FromLog
      \/ s = "tree" /\ o \in FromTree
      \/ s = "ref" /\ o \in FromRef
      \/ s = "blame" /\ o \in FromBlame
  BY <1>1, <1>2
<1>4. ASSUME NEW t \in ViewTypes, NEW b \in BOOLEAN, o = <<t, b>>
      PROVE  o[1] = t /\ o[2] = b /\ (o[2] => <<o[1], TRUE>> \in Opens[s])
  <2>1. o[1] = t /\ o[2] = b BY <1>4
  <2>2. b => o = <<t, TRUE>> BY <1>4
  <2> QED BY <2>1, <2>2
<1>5. \E t \in ViewTypes, b \in BOOLEAN : o = <<t, b>> /\ (s = "blame" => t = "diff")
  BY <1>3 DEF FromLog, FromTree, FromRef, FromBlame, ViewTypes
<1> QED BY <1>3, <1>4, <1>5 DEF MayOpen

(* The types of a view and of one that points into it.                        *)
LEMMA UseTypes ==
    ASSUME NEW s \in ViewTypes, NEW t \in ViewTypes, <<t, TRUE>> \in Opens[s]
    PROVE  /\ t \in {"diff", "blame"} /\ s \in {"log", "tree"}
           /\ ~MayOpen(t, s)
<1>1. /\ Opens["log"] = FromLog /\ Opens["tree"] = FromTree /\ Opens["ref"] = FromRef
      /\ Opens["blame"] = FromBlame /\ Opens["diff"] = {}
  BY DEF Opens, FromDiff
<1>t. \A a, b : <<t, TRUE>> = <<a, b>> => t = a /\ b = TRUE OBVIOUS
<1>2. \/ s = "log" /\ t = "diff"
      \/ s = "tree" /\ t = "blame"
  <2>1. CASE s = "log" BY <1>1, <1>t, <2>1 DEF FromLog
  <2>2. CASE s = "tree" BY <1>1, <1>t, <2>2 DEF FromTree
  <2>3. CASE s = "ref" BY <1>1, <1>t, <2>3 DEF FromRef
  <2>4. CASE s = "blame" BY <1>1, <1>t, <2>4 DEF FromBlame
  <2>5. CASE s = "diff" BY <1>1, <2>5
  <2> QED BY <2>1, <2>2, <2>3, <2>4, <2>5 DEF ViewTypes
<1>3. ~MayOpen("diff", s) BY <1>1 DEF MayOpen
<1>4. s # "diff" => ~MayOpen("blame", s) BY <1>1 DEF MayOpen, FromBlame
<1> QED BY <1>2, <1>3, <1>4

-----------------------------------------------------------------------------
(* The tree of views.                                                         *)

(* TAILQ_REMOVE.                                                              *)
LEMMA RemoveAtIs ==
    ASSUME NEW S, NEW s \in Seq(S), NEW m \in DOMAIN s, NEW l, l = RemoveAt(s, m),
           \A i, j \in DOMAIN s : s[i] = s[j] => i = j
    PROVE  /\ l \in Seq(S)
           /\ \A i, j \in DOMAIN l : l[i] = l[j] => i = j
           /\ \A i \in DOMAIN l : l[i] # s[m] /\ \E j \in DOMAIN s : l[i] = s[j]
           /\ \A j \in DOMAIN s : s[j] # s[m] => \E i \in DOMAIN l : l[i] = s[j]
<1>1. m \in 1..Len(s) /\ Len(s) \in Nat /\ DOMAIN s = 1..Len(s) OBVIOUS
<1> DEFINE a == SubSeq(s, 1, m - 1)
           b == SubSeq(s, m + 1, Len(s))
<1>2. a \in Seq(S) /\ Len(a) = m - 1 /\ \A i \in 1..(m - 1) : a[i] = s[i] BY <1>1
<1>3. b \in Seq(S) /\ Len(b) = Len(s) - m /\ \A i \in 1..(Len(s) - m) : b[i] = s[m + i] BY <1>1
<1>4. l = a \o b BY Zenon DEF RemoveAt
<1> HIDE DEF a, b
<1>5. l \in Seq(S) /\ Len(l) = Len(s) - 1
  <2>1. a \in Seq(S) /\ b \in Seq(S) BY <1>2, <1>3
  <2>2. a \o b \in Seq(S) /\ Len(a \o b) = Len(a) + Len(b) BY <2>1
  <2>3. l \in Seq(S) /\ Len(l) = Len(a) + Len(b) BY <1>4, <2>2, Zenon
  <2>4. Len(a) + Len(b) = Len(s) - 1 BY <1>1, <1>2, <1>3
  <2> QED BY <2>3, <2>4
<1>6. DOMAIN l = 1..(Len(s) - 1) BY <1>5
<1>7. \A i \in DOMAIN l : l[i] = IF i < m THEN s[i] ELSE s[i + 1]
  <2> SUFFICES ASSUME NEW i \in DOMAIN l PROVE l[i] = IF i < m THEN s[i] ELSE s[i + 1]
    OBVIOUS
  <2>1. i \in 1..(Len(s) - 1) BY <1>6
  <2>2. CASE i < m
    <3>1. l[i] = a[i] BY <1>1, <1>2, <1>3, <1>4, <2>1, <2>2
    <3> QED BY <1>1, <1>2, <2>1, <2>2, <3>1
  <2>3. CASE ~(i < m)
    <3>1. l[i] = b[i - (m - 1)] BY <1>1, <1>2, <1>3, <1>4, <2>1, <2>3
    <3>2. i - (m - 1) \in 1..(Len(s) - m) /\ m + (i - (m - 1)) = i + 1 BY <1>1, <2>1, <2>3
    <3> QED BY <1>3, <2>3, <3>1, <3>2
  <2> QED BY <2>2, <2>3
<1>8. \A i, j \in DOMAIN l : l[i] = l[j] => i = j BY <1>1, <1>6, <1>7
<1>9. \A i \in DOMAIN l : l[i] # s[m] /\ \E j \in DOMAIN s : l[i] = s[j] BY <1>1, <1>6, <1>7
<1>10. ASSUME NEW j \in DOMAIN s, s[j] # s[m] PROVE \E i \in DOMAIN l : l[i] = s[j]
  <2>1. CASE j < m
    <3>1. j \in DOMAIN l /\ l[j] = s[j] BY <1>1, <1>6, <1>7, <2>1
    <3> QED BY <3>1
  <2>2. CASE j > m
    <3>1. j - 1 \in DOMAIN l /\ l[j - 1] = s[j] BY <1>1, <1>6, <1>7, <2>2
    <3> QED BY <3>1
  <2> QED BY <1>1, <1>10, <2>1, <2>2
<1> QED BY <1>5, <1>8, <1>9, <1>10

(* Closing a top-level view.                                                  *)
LEMMA CloseTop ==
    ASSUME NEW vs, NEW list, TreeOK(vs, list), NEW m \in DOMAIN list,
           NEW ws, ws = Close(vs, list[m])
    PROVE  /\ TreeOK(ws, RemoveAt(list, m))
           /\ \A v \in ViewIds : ws[v] = IF v \in {list[m], vs[list[m]].child} THEN NoView ELSE vs[v]
<1> DEFINE z == list[m]
           y == vs[z].child
           l == RemoveAt(list, m)
<1>1. vs \in ViewTable /\ ListOK(vs, list) /\ \A v \in ViewIds : Open(vs, v) => FamilyOK(vs, v)
  BY DEF TreeOK
<1>2. Open(vs, z) /\ vs[z].parent = 0 /\ z \in ViewIds /\ z # 0
  BY <1>1, OpenIs DEF ListOK
<1>3. FamilyOK(vs, z) BY <1>1, <1>2
<1>4. ws = [w \in ViewIds |-> IF w \in {z, y} THEN NoView ELSE vs[w]] BY DEF Close
<1>5. list \in Seq(ViewIds) /\ \A i, j \in DOMAIN list : list[i] = list[j] => i = j
  BY <1>1 DEF ListOK
<1>6. /\ l \in Seq(ViewIds)
      /\ \A i, j \in DOMAIN l : l[i] = l[j] => i = j
      /\ \A i \in DOMAIN l : l[i] # z /\ \E j \in DOMAIN list : l[i] = list[j]
      /\ \A j \in DOMAIN list : list[j] # z => \E i \in DOMAIN l : l[i] = list[j]
  BY <1>5, RemoveAtIs
<1> HIDE DEF z, y, l
<1>7. \A v \in ViewIds : ws[v] = IF v \in {z, y} THEN NoView ELSE vs[v] BY <1>4
<1>8. ws \in ViewTable BY <1>1, <1>4 DEF ViewTable
<1>9. \A v : Open(ws, v) <=> Open(vs, v) /\ v # z /\ v # y BY <1>7 DEF Open
<1>10. \A v : Open(ws, v) => ws[v] = vs[v] BY <1>7, <1>9 DEF Open
<1>11. Open(vs, y) \/ y = 0 BY <1>3 DEF FamilyOK, y
<1>12. Open(vs, y) => vs[y].parent = z /\ vs[y].parent # 0 /\ vs[y].child = 0
  <2> SUFFICES ASSUME Open(vs, y) PROVE vs[y].parent = z /\ vs[y].parent # 0 /\ vs[y].child = 0
    OBVIOUS
  <2>1. y # 0 /\ y \in ViewIds BY <1>1, OpenIs
  <2>2. vs[y].parent = z BY <1>3, <2>1 DEF FamilyOK, y
  <2>3. FamilyOK(vs, y) BY <1>1, <2>1
  <2> QED BY <1>2, <2>2, <2>3 DEF FamilyOK
<1>13. ASSUME NEW v \in ViewIds, Open(ws, v) PROVE FamilyOK(ws, v)
  <2>1. Open(vs, v) /\ v # z /\ v # y /\ ws[v] = vs[v] BY <1>9, <1>10, <1>13
  <2>2. FamilyOK(vs, v) BY <1>1, <2>1
  <2>3. ASSUME vs[v].parent # 0
        PROVE  Open(ws, vs[v].parent) /\ ws[vs[v].parent] = vs[vs[v].parent]
    <3> DEFINE p == vs[v].parent
    <3>1. Open(vs, p) /\ vs[p].parent = 0 /\ vs[p].child = v BY <2>2, <2>3 DEF FamilyOK
    <3>2. p # z BY <2>1, <3>1 DEF y
    <3>3. p # y BY <1>12, <3>1
    <3> QED BY <1>9, <1>10, <3>1, <3>2, <3>3
  <2>4. ASSUME vs[v].child # 0
        PROVE  Open(ws, vs[v].child) /\ ws[vs[v].child] = vs[vs[v].child]
    <3> DEFINE c == vs[v].child
    <3>1. Open(vs, c) /\ vs[c].parent = v BY <2>2, <2>4 DEF FamilyOK
    <3>2. v # 0 BY <1>1, <2>1, OpenIs
    <3>3. c # z /\ c # y BY <1>2, <1>12, <2>1, <3>1, <3>2
    <3> QED BY <1>9, <1>10, <3>1, <3>3
  <2> QED BY <2>1, <2>2, <2>3, <2>4 DEF FamilyOK
<1>14. ListOK(ws, l)
  <2>1. \A i \in DOMAIN l : Open(ws, l[i]) /\ ws[l[i]].parent = 0
    <3> SUFFICES ASSUME NEW i \in DOMAIN l PROVE Open(ws, l[i]) /\ ws[l[i]].parent = 0
      OBVIOUS
    <3>1. l[i] # z /\ Open(vs, l[i]) /\ vs[l[i]].parent = 0 BY <1>1, <1>6 DEF ListOK
    <3>2. l[i] # y BY <1>12, <3>1
    <3> QED BY <1>9, <1>10, <3>1, <3>2
  <2>2. ASSUME NEW v \in ViewIds, Open(ws, v), ws[v].parent = 0
        PROVE  \E i \in DOMAIN l : l[i] = v
    <3>1. Open(vs, v) /\ v # z /\ vs[v].parent = 0 BY <1>9, <1>10, <2>2
    <3> QED BY <1>1, <1>6, <3>1 DEF ListOK
  <2> QED BY <1>6, <2>1, <2>2 DEF ListOK
<1> QED BY <1>7, <1>8, <1>13, <1>14 DEF TreeOK, z, y, l

(* A new top-level view.                                                      *)
LEMMA AddTop ==
    ASSUME NEW vs, NEW list, TreeOK(vs, list), NEW n \in ViewIds, vs[n] = NoView,
           NEW w \in View, w.parent = 0, w.child = 0, ~w.focus_child,
           NEW ws, ws = [vs EXCEPT ![n] = w]
    PROVE  TreeOK(ws, Append(list, n))
<1> DEFINE l == Append(list, n)
<1>1. vs \in ViewTable /\ ListOK(vs, list) /\ \A v \in ViewIds : Open(vs, v) => FamilyOK(vs, v)
  BY DEF TreeOK
<1>2. ws \in ViewTable BY <1>1 DEF ViewTable
<1>3. ws[n] = w /\ \A v \in ViewIds : v # n => ws[v] = vs[v] BY <1>1 DEF ViewTable
<1>4. w # NoView BY ViewIs
<1>5. \A v : Open(ws, v) <=> Open(vs, v) \/ v = n BY <1>3, <1>4 DEF Open
<1>6. \A v : Open(vs, v) => v # n /\ ws[v] = vs[v] BY <1>3 DEF Open
<1>7. ASSUME NEW v \in ViewIds, Open(ws, v) PROVE FamilyOK(ws, v)
  <2>1. CASE v = n BY <1>3, <2>1 DEF FamilyOK
  <2>2. CASE v # n
    <3>1. Open(vs, v) /\ ws[v] = vs[v] BY <1>5, <1>6, <1>7, <2>2
    <3>2. FamilyOK(vs, v) BY <1>1, <3>1
    <3> QED BY <1>5, <1>6, <3>1, <3>2 DEF FamilyOK
  <2> QED BY <2>1, <2>2
<1>8. list \in Seq(ViewIds) BY <1>1 DEF ListOK
<1>9. /\ l \in Seq(ViewIds) /\ DOMAIN l = DOMAIN list \cup {Len(list) + 1}
      /\ l[Len(list) + 1] = n /\ Len(list) + 1 \notin DOMAIN list
      /\ \A i \in DOMAIN list : l[i] = list[i]
  BY <1>8
<1> HIDE DEF l
<1>10. ListOK(ws, l)
  <2>1. \A i \in DOMAIN list : Open(vs, list[i]) /\ vs[list[i]].parent = 0 BY <1>1 DEF ListOK
  <2>2. \A i \in DOMAIN l : Open(ws, l[i]) /\ ws[l[i]].parent = 0
    BY <1>3, <1>5, <1>6, <1>9, <2>1
  <2>3. \A i \in DOMAIN list : l[i] # n BY <1>6, <1>9, <2>1
  <2>4. \A i, j \in DOMAIN l : l[i] = l[j] => i = j BY <1>1, <1>9, <2>3 DEF ListOK
  <2>5. ASSUME NEW v \in ViewIds, Open(ws, v), ws[v].parent = 0
        PROVE  \E i \in DOMAIN l : l[i] = v
    <3>1. CASE v = n BY <1>9, <3>1
    <3>2. CASE v # n
      <4>1. Open(vs, v) /\ vs[v].parent = 0 BY <1>5, <1>6, <2>5, <3>2
      <4>2. \E i \in DOMAIN list : list[i] = v BY <1>1, <4>1 DEF ListOK
      <4> QED BY <1>9, <4>2
    <3> QED BY <3>1, <3>2
  <2> QED BY <1>9, <2>2, <2>4, <2>5 DEF ListOK
<1> QED BY <1>2, <1>7, <1>10 DEF TreeOK, l

(* Steps that only move the focus or resize views.                            *)
LEMMA SameTree ==
    ASSUME NEW vs, NEW list, TreeOK(vs, list), NEW ws \in ViewTable,
           \A v \in ViewIds : ws[v] = NoView <=> vs[v] = NoView,
           \A v \in ViewIds : vs[v] # NoView =>
              /\ ws[v].type = vs[v].type /\ ws[v].parent = vs[v].parent
              /\ ws[v].child = vs[v].child
              /\ ws[v].focus_child => vs[v].child # 0
    PROVE  TreeOK(ws, list)
<1>1. \A v : Open(ws, v) <=> Open(vs, v) BY DEF Open
<1>2. \A v : Open(vs, v) => /\ ws[v].type = vs[v].type /\ ws[v].parent = vs[v].parent
                            /\ ws[v].child = vs[v].child
                            /\ ws[v].focus_child => vs[v].child # 0
  BY DEF Open
<1>3. ASSUME NEW v \in ViewIds, Open(ws, v) PROVE FamilyOK(ws, v)
  <2>1. Open(vs, v) /\ FamilyOK(vs, v) BY <1>1, <1>3 DEF TreeOK
  <2> QED BY <1>1, <1>2, <2>1 DEF FamilyOK
<1>4. ListOK(ws, list)
  <2>1. ListOK(vs, list) BY DEF TreeOK
  <2> QED BY <1>1, <1>2, <2>1 DEF ListOK
<1> QED BY <1>3, <1>4 DEF TreeOK

-----------------------------------------------------------------------------
(* Steps.                                                                     *)

(* What is known of the view that gets the keys.                              *)
LEMMA CurrentIs ==
    ASSUME ViewsInv, current # 0
    PROVE  /\ views \in ViewTable /\ current \in ViewIds /\ Open(views, current)
           /\ views[current] \in View /\ FamilyOK(views, current) /\ current \in 0..MaxViews
  BY OpenIs DEF ViewsInv, TreeOK

(* A top-level view that points into another one: nothing can be opened from  *)
(* its child, and its child is not the one it points into.                    *)
LEMMA TopUser ==
    ASSUME ViewsInv, NEW v \in ViewIds, Open(views, v), views[v].uses # 0, views[v].parent = 0
    PROVE  /\ current # 0 /\ Top(views, current) = v
           /\ views[v].uses # views[v].child
           /\ current # v => views[current].type = "diff"
<1> DEFINE u == views[v].uses
<1>1. /\ Open(views, u) /\ <<views[v].type, TRUE>> \in Opens[views[u].type]
      /\ current # 0 /\ Top(views, current) = v
  BY DEF ViewsInv, UsesOK
<1>2. views \in ViewTable /\ \A w \in ViewIds : Open(views, w) => FamilyOK(views, w)
  BY DEF ViewsInv, TreeOK
<1>3. views[v] \in View /\ views[u] \in View /\ u \in ViewIds BY <1>1, <1>2, OpenIs
<1>4. views[v].type \in ViewTypes /\ views[u].type \in ViewTypes BY <1>3, ViewIs
<1>5. views[v].type \in {"diff", "blame"} /\ ~MayOpen(views[v].type, views[u].type)
  BY <1>1, <1>4, UseTypes
<1>6. u # views[v].child
  <2> SUFFICES ASSUME u = views[v].child PROVE FALSE
    OBVIOUS
  <2>1. FamilyOK(views, v) /\ FamilyOK(views, u) BY <1>1, <1>2, <1>3
  <2>2. views[u].parent = v /\ v # 0 BY <1>2, <2>1, OpenIs DEF FamilyOK
  <2> QED BY <1>5, <2>1, <2>2 DEF FamilyOK
<1>7. ASSUME current # v PROVE views[current].type = "diff"
  <2>1. views[current].parent = v /\ v # 0 BY <1>1, <1>2, <1>7, OpenIs DEF Top
  <2>2. FamilyOK(views, current) BY <1>1, CurrentIs
  <2>3. MayOpen(views[v].type, views[current].type) BY <2>1, <2>2 DEF FamilyOK
  <2>4. PICK o \in Opens[views[v].type] : o[1] = views[current].type BY <2>3 DEF MayOpen
  <2>5. views[v].type # "diff" /\ (views[v].type = "blame" => o[1] = "diff")
    BY <1>4, <2>4, OpensIs
  <2> QED BY <1>5, <2>4, <2>5
<1> QED BY <1>1, <1>6, <1>7

(* The invariant after a step.                                                *)
LEMMA ViewsInvNext ==
    ASSUME wide' \in BOOLEAN, opened' \in 0..MaxViews, TreeOK(views', toplevel'),
           \A v \in ViewIds : v > opened' => views'[v] = NoView,
           current' # 0 => Open(views', current'),
           \A v \in ViewIds : Open(views', v) => /\ UsesOK(views', current', v)
                                                 /\ views'[v].focussed <=> v = current'
    PROVE  ViewsInv'
<1>1. TreeOK(views, toplevel)' BY Zenon DEF TreeOK, ListOK, FamilyOK, MayOpen, Open
<1>2. (current # 0 => Open(views, current))' BY DEF Open
<1>3. (\A v \in ViewIds : Open(views, v) => /\ UsesOK(views, current, v)
                                            /\ views[v].focussed <=> v = current)'
  BY Zenon DEF UsesOK, Open, Top
<1> QED BY <1>1, <1>2, <1>3 DEF ViewsInv

(* The focus moves within a view and its child.                               *)
LEMMA FocusStep ==
    ASSUME ViewsInv, current # 0, wide' = wide, opened' = opened, toplevel' = toplevel,
           views' \in ViewTable, Open(views, current'), current' # 0,
           Top(views, current') = Top(views, current),
           \A v \in ViewIds : views'[v] = NoView <=> views[v] = NoView,
           \A v \in ViewIds : views[v] # NoView =>
              /\ views'[v].type = views[v].type /\ views'[v].parent = views[v].parent
              /\ views'[v].child = views[v].child /\ views'[v].uses = views[v].uses
              /\ views'[v].focus_child => views[v].child # 0
              /\ views'[v].focussed <=> v = current'
    PROVE  ViewsInv'
<1>1. TreeOK(views', toplevel') BY SameTree DEF ViewsInv
<1>2. \A v : Open(views', v) <=> Open(views, v) BY DEF Open
<1>3. \A v : Open(views, v) =>
              /\ views'[v].type = views[v].type /\ views'[v].parent = views[v].parent
              /\ views'[v].child = views[v].child /\ views'[v].uses = views[v].uses
              /\ views'[v].focussed <=> v = current'
  BY DEF Open
<1>4. Top(views', current') = Top(views, current)
  BY <1>3 DEF Top
<1>5. ASSUME NEW v \in ViewIds, Open(views', v) PROVE UsesOK(views', current', v)
  <2>1. Open(views, v) /\ UsesOK(views, current, v) BY <1>2, <1>5 DEF ViewsInv
  <2> DEFINE u == views[v].uses
  <2>2. views'[v].type = views[v].type /\ views'[v].parent = views[v].parent /\ views'[v].uses = u
    BY <1>3, <2>1
  <2>3. u # 0 => /\ Open(views, u) /\ <<views[v].type, TRUE>> \in Opens[views[u].type]
                 /\ \/ views[v].parent = u
                    \/ views[v].parent = 0 /\ current # 0 /\ Top(views, current) = v
    BY <2>1 DEF UsesOK
  <2> HIDE DEF u
  <2>4. Open(views, u) => Open(views', u) /\ views'[u].type = views[u].type BY <1>2, <1>3
  <2> QED BY <1>4, <2>2, <2>3, <2>4 DEF UsesOK
<1>6. \A v \in ViewIds : v > opened' => views'[v] = NoView BY DEF ViewsInv
<1>7. wide' \in BOOLEAN /\ opened' \in 0..MaxViews BY DEF ViewsInv
<1> QED BY <1>1, <1>2, <1>3, <1>5, <1>6, <1>7, ViewsInvNext

(* A view and its child.                                                      *)
LEMMA ChildIs ==
    ASSUME ViewsInv, NEW v \in ViewIds, Open(views, v), views[v].child # 0, NEW c, c = views[v].child
    PROVE  /\ c \in ViewIds /\ Open(views, c) /\ c # v /\ views[c] \in View
           /\ views[c].parent = v /\ views[c].child = 0 /\ v # 0 /\ views[v].parent = 0
           /\ Top(views, c) = v /\ Top(views, v) = v
<1>1. views \in ViewTable /\ \A w \in ViewIds : Open(views, w) => FamilyOK(views, w)
  BY DEF ViewsInv, TreeOK
<1>2. Open(views, c) /\ views[c].parent = v /\ views[v].parent = 0 BY <1>1 DEF FamilyOK
<1>3. c \in ViewIds /\ views[c] \in View /\ v # 0 BY <1>1, <1>2, OpenIs
<1>4. FamilyOK(views, c) BY <1>1, <1>2, <1>3
<1> QED BY <1>2, <1>3, <1>4 DEF FamilyOK, Top

(* A child and its parent.                                                    *)
LEMMA ParentIs ==
    ASSUME ViewsInv, NEW v \in ViewIds, Open(views, v), views[v].parent # 0, NEW p, p = views[v].parent
    PROVE  p \in ViewIds /\ Open(views, p) /\ views[p].child = v /\ v # 0 /\ views[p].child # 0
<1>1. views \in ViewTable /\ FamilyOK(views, v) BY DEF ViewsInv, TreeOK
<1>2. Open(views, p) /\ views[p].child = v BY <1>1 DEF FamilyOK
<1> QED BY <1>1, <1>2, OpenIs

(* One of two views a and b of a family loses the focus to the other.         *)
LEMMA FocusTo ==
    ASSUME ViewsInv, current # 0, wide' = wide, opened' = opened, toplevel' = toplevel,
           NEW a \in ViewIds, NEW b \in ViewIds, a # b, Open(views, a), Open(views, b),
           current \in {a, b}, current' = b, Top(views, a) = Top(views, b),
           NEW x \in View, NEW y \in View, views' = [views EXCEPT ![a] = x, ![b] = y],
           ~x.focussed, y.focussed,
           x.type = views[a].type, x.parent = views[a].parent, x.child = views[a].child,
           x.uses = views[a].uses, x.focus_child => x.child # 0,
           y.type = views[b].type, y.parent = views[b].parent, y.child = views[b].child,
           y.uses = views[b].uses, y.focus_child => y.child # 0
    PROVE  ViewsInv'
<1>1. views \in ViewTable /\ b # 0 BY OpenIs DEF ViewsInv, TreeOK
<1>2. views' \in ViewTable BY <1>1 DEF ViewTable
<1>3. views'[a] = x /\ views'[b] = y /\ \A v \in ViewIds : v # a /\ v # b => views'[v] = views[v]
  BY <1>1 DEF ViewTable
<1>4. x # NoView /\ y # NoView /\ views[a] # NoView /\ views[b] # NoView BY ViewIs DEF Open
<1>5. ASSUME NEW v \in ViewIds
      PROVE  /\ views'[v] = NoView <=> views[v] = NoView
             /\ views[v] # NoView =>
                  /\ views'[v].type = views[v].type /\ views'[v].parent = views[v].parent
                  /\ views'[v].child = views[v].child /\ views'[v].uses = views[v].uses
                  /\ views'[v].focus_child => views[v].child # 0
                  /\ views'[v].focussed <=> v = current'
  <2>1. CASE v = a BY <1>3, <1>4, <2>1
  <2>2. CASE v = b BY <1>3, <1>4, <2>2
  <2>3. CASE v # a /\ v # b
    <3>1. views'[v] = views[v] BY <1>3, <2>3
    <3>2. views[v] # NoView => /\ views[v].focus_child => views[v].child # 0
                               /\ views[v].focussed <=> v = current
      BY DEF ViewsInv, TreeOK, FamilyOK, Open
    <3> QED BY <2>3, <3>1, <3>2
  <2> QED BY <2>1, <2>2, <2>3
<1>6. Top(views, current') = Top(views, current) /\ current' # 0 /\ Open(views, current')
  BY <1>1
<1> QED BY <1>2, <1>5, <1>6, FocusStep

(* Steps of other parts of tog.                                               *)
LEMMA ViewsStay == ViewsInv /\ UNCHANGED viewVars => ViewsInv'
<1> SUFFICES ASSUME ViewsInv, UNCHANGED viewVars PROVE ViewsInv'
  OBVIOUS
<1>1. /\ wide' = wide /\ opened' = opened /\ views' = views /\ toplevel' = toplevel
      /\ current' = current
  BY DEF viewVars
<1> QED BY <1>1, ViewsInvNext DEF ViewsInv

(* The Tab key.                                                               *)
LEMMA TabStep == ViewsInv /\ Tab => ViewsInv'
<1> SUFFICES ASSUME ViewsInv, Tab PROVE ViewsInv'
  OBVIOUS
<1> DEFINE c == views[current].child
           p == views[current].parent
<1>1. /\ current # 0 /\ current' = Settle(views', current)
      /\ wide' = wide /\ opened' = opened /\ toplevel' = toplevel
  BY DEF Tab
<1>2. /\ views \in ViewTable /\ current \in ViewIds /\ Open(views, current)
      /\ views[current] \in View
  BY <1>1, CurrentIs
<1>3. CASE c # 0
  <2> DEFINE x == [views[current] EXCEPT !.focussed = FALSE, !.focus_child = TRUE]
             y == [views[c] EXCEPT !.focussed = TRUE]
  <2>1. /\ c \in ViewIds /\ Open(views, c) /\ c # current /\ views[c] \in View
        /\ views[c].parent = current /\ views[c].child = 0 /\ p = 0
        /\ Top(views, c) = Top(views, current)
    BY <1>2, <1>3, ChildIs
  <2>2. views' = [views EXCEPT ![current].focussed = FALSE, ![c].focussed = TRUE,
                               ![current].focus_child = TRUE]
    BY <1>3 DEF Tab
  <2>3. /\ x \in View /\ x.type = views[current].type /\ x.parent = p /\ x.child = c
        /\ x.uses = views[current].uses /\ ~x.focussed
    BY <1>2 DEF View
  <2>4. /\ y \in View /\ y.type = views[c].type /\ y.parent = views[c].parent /\ y.child = 0
        /\ y.uses = views[c].uses /\ y.focussed /\ y.focus_child = views[c].focus_child
    BY <2>1 DEF View
  <2>5. views' = [views EXCEPT ![current] = x, ![c] = y]
    BY <1>2, <2>1, <2>2 DEF ViewTable
  <2>6. ~views[c].focus_child BY <2>1 DEF ViewsInv, TreeOK, FamilyOK
  <2> HIDE DEF x, y
  <2>7. views'[current] = x /\ views'[c] = y BY <1>2, <2>1, <2>5 DEF ViewTable
  <2>8. current' = c BY <1>1, <1>3, <2>1, <2>3, <2>4, <2>7 DEF Settle
  <2> QED BY <1>1, <1>2, <1>3, <2>1, <2>3, <2>4, <2>5, <2>6, <2>8, FocusTo
<1>4. CASE c = 0 /\ p # 0
  <2> DEFINE x == [views[current] EXCEPT !.focussed = FALSE]
             y == [views[p] EXCEPT !.focussed = TRUE, !.focus_child = FALSE]
  <2>1. p \in ViewIds /\ Open(views, p) /\ views[p].child = current /\ views[p].child # 0
    BY <1>2, <1>4, ParentIs
  <2>2. current # p /\ Top(views, current) = Top(views, p) BY <2>1, ChildIs
  <2>3. views[p] \in View BY <1>2, <2>1, OpenIs
  <2>4. views' = [views EXCEPT ![current].focussed = FALSE, ![p].focussed = TRUE,
                               ![p].focus_child = FALSE]
    BY <1>4 DEF Tab
  <2>5. /\ x \in View /\ x.type = views[current].type /\ x.parent = p /\ x.child = 0
        /\ x.uses = views[current].uses /\ ~x.focussed
        /\ x.focus_child = views[current].focus_child
    BY <1>2, <1>4 DEF View
  <2>6. /\ y \in View /\ y.type = views[p].type /\ y.parent = views[p].parent
        /\ y.child = views[p].child /\ y.uses = views[p].uses /\ y.focussed /\ ~y.focus_child
    BY <2>3 DEF View
  <2>7. views' = [views EXCEPT ![current] = x, ![p] = y]
    BY <1>2, <2>1, <2>2, <2>3, <2>4 DEF ViewTable
  <2>8. ~views[current].focus_child BY <1>2, <1>4 DEF ViewsInv, TreeOK, FamilyOK
  <2> HIDE DEF x, y
  <2>9. views'[current] = x /\ views'[p] = y BY <1>2, <2>1, <2>2, <2>7 DEF ViewTable
  <2>10. current' = p BY <1>1, <1>4, <2>5, <2>6, <2>9 DEF Settle
  <2> QED BY <1>1, <1>2, <1>4, <2>1, <2>2, <2>5, <2>6, <2>7, <2>8, <2>10, FocusTo
<1>5. CASE c = 0 /\ p = 0
  <2>1. views' = views BY <1>5 DEF Tab
  <2>2. current' = current BY <1>1, <1>5, <2>1 DEF Settle
  <2> QED BY <1>1, <2>1, <2>2, ViewsStay DEF viewVars
<1> QED BY <1>3, <1>4, <1>5

(* Key f.                                                                     *)
LEMMA FullscreenStep == ViewsInv /\ Fullscreen => ViewsInv'
<1> SUFFICES ASSUME ViewsInv, Fullscreen PROVE ViewsInv'
  OBVIOUS
<1> DEFINE p == views[current].parent
           c == IF p = 0 THEN views[current].child ELSE current
           t == IF p = 0 THEN current ELSE p
<1>1. /\ current # 0 /\ current' = Settle(views', current) /\ c # 0
      /\ wide' = wide /\ opened' = opened /\ toplevel' = toplevel
      /\ views' = IF views[c].split
                  THEN [views EXCEPT ![t].focussed = FALSE, ![c].focussed = TRUE,
                                     ![c].split = FALSE]
                  ELSE [views EXCEPT ![c].split = wide]
  BY DEF Fullscreen
<1>2. /\ views \in ViewTable /\ current \in ViewIds /\ Open(views, current)
      /\ views[current] \in View
  BY <1>1, CurrentIs
<1>3. t \in ViewIds /\ Open(views, t) /\ views[t].child = c /\ current \in {t, c}
  <2>1. CASE p = 0 BY <1>2, <2>1
  <2>2. CASE p # 0 BY <1>2, <2>2, ParentIs
  <2> QED BY <2>1, <2>2
<1> HIDE DEF c, t
<1>4. /\ c \in ViewIds /\ Open(views, c) /\ c # t /\ views[c] \in View /\ t # 0
      /\ views[c].parent = t /\ views[c].child = 0 /\ views[t].parent = 0
      /\ Top(views, c) = Top(views, t)
  BY <1>1, <1>3, ChildIs
<1>5. views[t] \in View BY <1>2, <1>3, OpenIs
<1>6. ~views[c].focus_child /\ (views[t].focus_child => c # 0)
  BY <1>3, <1>4 DEF ViewsInv, TreeOK, FamilyOK
<1>7. CASE views[c].split
  <2> DEFINE x == [views[t] EXCEPT !.focussed = FALSE]
             y == [views[c] EXCEPT !.focussed = TRUE, !.split = FALSE]
  <2>1. /\ x \in View /\ x.type = views[t].type /\ x.parent = 0 /\ x.child = c
        /\ x.uses = views[t].uses /\ ~x.focussed /\ x.focus_child = views[t].focus_child
    BY <1>3, <1>4, <1>5 DEF View
  <2>2. /\ y \in View /\ y.type = views[c].type /\ y.parent = t /\ y.child = 0
        /\ y.uses = views[c].uses /\ y.focussed /\ y.focus_child = views[c].focus_child
    BY <1>4 DEF View
  <2>3. views' = [views EXCEPT ![t] = x, ![c] = y]
    BY <1>1, <1>2, <1>3, <1>4, <1>5, <1>7 DEF ViewTable
  <2> HIDE DEF x, y
  <2>4. views'[t] = x /\ views'[c] = y BY <1>2, <1>3, <1>4, <2>3 DEF ViewTable
  <2>5. current' = c
    <3>1. CASE current = t BY <1>1, <2>1, <2>2, <2>4, <3>1 DEF Settle
    <3>2. CASE current = c BY <1>1, <1>4, <2>1, <2>2, <2>4, <3>2 DEF Settle
    <3> QED BY <1>3, <3>1, <3>2
  <2>6. /\ current # 0 /\ wide' = wide /\ opened' = opened /\ toplevel' = toplevel
        /\ x.focus_child => x.child # 0
        /\ y.focus_child => y.child # 0
    BY <1>1, <1>6, <2>1, <2>2
  <2>7. x.child = views[t].child /\ y.child = views[c].child /\ x.parent = views[t].parent
        /\ y.parent = views[c].parent
    BY <1>3, <1>4, <2>1, <2>2
  <2> QED BY <1>3, <1>4, <2>1, <2>2, <2>3, <2>5, <2>6, <2>7, FocusTo
<1>8. CASE ~views[c].split
  <2> DEFINE y == [views[c] EXCEPT !.split = wide]
  <2>1. /\ y \in View /\ y.type = views[c].type /\ y.parent = t /\ y.child = 0
        /\ y.uses = views[c].uses /\ y.focussed = views[c].focussed
        /\ y.focus_child = views[c].focus_child
    BY <1>4 DEF View, ViewsInv
  <2>2. views' = [views EXCEPT ![c] = y] BY <1>1, <1>2, <1>4, <1>8 DEF ViewTable
  <2> HIDE DEF y
  <2>3. views' \in ViewTable /\ views'[c] = y /\ \A v \in ViewIds : v # c => views'[v] = views[v]
    BY <1>2, <1>4, <2>1, <2>2 DEF ViewTable
  <2>4. \A v \in ViewIds : Open(views, v) => (views[v].focussed <=> v = current) BY DEF ViewsInv
  <2>5. current' = current
    <3>1. views'[t] = views[t] /\ current' = Settle(views', current) BY <1>1, <1>3, <1>4, <2>3
    <3>2. CASE current = t
      <4>1. ~views[c].focussed BY <1>4, <2>4, <3>2
      <4> QED BY <1>3, <1>4, <2>1, <2>3, <3>1, <3>2, <4>1 DEF Settle
    <3>3. CASE current = c
      <4>1. ~views[t].focussed BY <1>3, <1>4, <2>4, <3>3
      <4> QED BY <1>3, <1>4, <2>1, <2>3, <3>1, <3>3, <4>1 DEF Settle
    <3> QED BY <1>3, <3>2, <3>3
  <2>6. y # NoView BY <2>1, ViewIs
  <2>7. ASSUME NEW v \in ViewIds
        PROVE  /\ views'[v] = NoView <=> views[v] = NoView
               /\ views[v] # NoView =>
                    /\ views'[v].type = views[v].type /\ views'[v].parent = views[v].parent
                    /\ views'[v].child = views[v].child /\ views'[v].uses = views[v].uses
                    /\ views'[v].focus_child => views[v].child # 0
                    /\ views'[v].focussed <=> v = current'
    <3>1. CASE v = c BY <1>4, <1>6, <2>1, <2>3, <2>4, <2>5, <2>6, <3>1 DEF Open
    <3>2. CASE v # c
      <4>1. views'[v] = views[v] BY <2>3, <3>2
      <4>2. views[v] # NoView => /\ views[v].focus_child => views[v].child # 0
                                 /\ views[v].focussed <=> v = current
        BY DEF ViewsInv, TreeOK, FamilyOK, Open
      <4> QED BY <2>5, <4>1, <4>2
    <3> QED BY <3>1, <3>2
  <2> QED BY <1>1, <1>2, <2>3, <2>5, <2>7, FocusStep
<1> QED BY <1>7, <1>8

(* A new view in the place of a view's child.                                 *)
LEMMA OpenAsChildStep ==
    ASSUME ViewsInv, current # 0, opened < MaxViews, opened' = opened + 1, wide' = wide,
           NEW t \in ViewTypes, MayOpen(views[current].type, t),
           NEW u \in {0, current}, u # 0 => <<t, TRUE>> \in Opens[views[current].type],
           OpenAsChild(t, u)
    PROVE  ViewsInv'
<1> DEFINE n == opened + 1
           d == views[current].child
           w == NewView(t, current, u)
           x == [views[current] EXCEPT !.focussed = FALSE, !.child = n, !.focus_child = TRUE]
<1>1. /\ views \in ViewTable /\ current \in ViewIds /\ Open(views, current)
      /\ views[current] \in View /\ current \in 0..MaxViews
  BY CurrentIs
<1>2. /\ n \in ViewIds /\ n # 0 /\ n \in 0..MaxViews /\ views[n] = NoView
      /\ wide \in BOOLEAN /\ opened \in 0..MaxViews
  BY TogViewsConstants DEF ViewsInv, ViewIds
<1>3. n # current BY <1>1, <1>2 DEF Open
<1>4. views[current].parent = 0 /\ toplevel' = toplevel /\ current' = n BY DEF OpenAsChild
<1>5. d # 0 => /\ d \in ViewIds /\ Open(views, d) /\ d # current /\ d # n
               /\ views[d].parent = current
  BY <1>1, <1>2, ChildIs DEF Open
<1>6. /\ x \in View /\ x.type = views[current].type /\ x.parent = 0 /\ x.child = n
      /\ x.uses = views[current].uses /\ ~x.focussed
  BY <1>1, <1>2, <1>4 DEF View
<1>7. /\ w \in View /\ w.type = t /\ w.parent = current /\ w.child = 0 /\ w.uses = u
      /\ w.focussed /\ ~w.focus_child
  <2>1. u \in 0..MaxViews BY <1>1, TogViewsConstants
  <2>2. w = NewView(t, current, u) OBVIOUS
  <2> HIDE DEF w
  <2> QED BY <1>1, <1>2, <2>1, <2>2, NewViewIs
<1>8. /\ views' \in ViewTable /\ views'[n] = w /\ views'[current] = x
      /\ d # 0 => views'[d] = NoView
      /\ \A v \in ViewIds : v # n /\ v # current /\ v # d => views'[v] = views[v]
  <2>1. CASE d = 0
    <3>1. views' = [views EXCEPT ![current] = x, ![n] = w]
      BY <1>1, <1>2, <1>3, <2>1 DEF OpenAsChild, ViewTable
    <3> HIDE DEF x, w, n
    <3> QED BY <1>1, <1>2, <1>3, <1>6, <1>7, <2>1, <3>1 DEF ViewTable
  <2>2. CASE d # 0
    <3> DEFINE old == [views EXCEPT ![d] = NoView]
    <3>1. views' = [old EXCEPT ![current].focussed = FALSE, ![current].child = n,
                               ![current].focus_child = TRUE, ![n] = w]
      BY <2>2 DEF OpenAsChild
    <3>2. old \in ViewTable /\ old[d] = NoView /\ \A v \in ViewIds : v # d => old[v] = views[v]
      BY <1>1, <1>5, <2>2 DEF ViewTable
    <3>3. old[current] = views[current] BY <1>1, <1>5, <2>2, <3>2
    <3> HIDE DEF old
    <3>4. views' = [old EXCEPT ![current] = x, ![n] = w]
      BY <1>1, <1>2, <1>3, <3>1, <3>2, <3>3 DEF ViewTable
    <3> HIDE DEF x, w, n
    <3>5. /\ views' \in ViewTable /\ views'[n] = w /\ views'[current] = x
          /\ \A v \in ViewIds : v # n /\ v # current => views'[v] = old[v]
      BY <1>1, <1>2, <1>3, <1>6, <1>7, <3>2, <3>4 DEF ViewTable
    <3> QED BY <1>5, <2>2, <3>2, <3>5
  <2> QED BY <2>1, <2>2
<1>9. x # NoView /\ w # NoView BY <1>6, <1>7, ViewIs
<1> HIDE DEF x, w, n
<1>10. \A v : Open(views', v) <=> v = n \/ (Open(views, v) /\ v # d)
  <2>1. 0 \notin ViewIds BY TogViewsConstants DEF ViewIds
  <2> SUFFICES ASSUME NEW v PROVE Open(views', v) <=> v = n \/ (Open(views, v) /\ v # d)
    OBVIOUS
  <2>2. CASE v = n BY <1>2, <1>8, <1>9, <2>2 DEF Open
  <2>3. CASE v = current
    <3>1. current # d BY <1>5
    <3>2. views'[current] # NoView BY <1>8, <1>9
    <3> QED BY <1>1, <2>3, <3>1, <3>2 DEF Open
  <2>4. CASE v = d /\ v # n BY <1>5, <1>8, <2>1, <2>4 DEF Open
  <2>5. CASE v # n /\ v # current /\ v # d BY <1>8, <2>5 DEF Open
  <2> QED BY <2>2, <2>3, <2>4, <2>5
<1>11. \A v : Open(views, v) /\ v # d /\ v # current => views'[v] = views[v] /\ v # n
  BY <1>2, <1>8 DEF Open
<1>12. \A v \in ViewIds : Open(views, v) => FamilyOK(views, v) BY DEF ViewsInv, TreeOK
<1>13. current # d BY <1>5
<1>14. Open(views', current) /\ Open(views', n) BY <1>1, <1>10, <1>13
<1>15. ASSUME NEW v \in ViewIds, Open(views, v), v # d, v # current
       PROVE  /\ FamilyOK(views', v) /\ UsesOK(views', n, v) /\ ~views'[v].focussed
  <2>1. views'[v] = views[v] /\ v # n /\ FamilyOK(views, v) /\ v # 0
    BY <1>1, <1>11, <1>12, <1>15, OpenIs
  <2>2. ASSUME NEW p, p = views[v].parent, p # 0
        PROVE  Open(views', p) /\ views'[p] = views[p]
    <3>1. Open(views, p) /\ views[p].parent = 0 /\ views[p].child = v BY <2>1, <2>2 DEF FamilyOK
    <3>2. p # current /\ p # d
      BY <1>1, <1>5, <1>15, <3>1, OpenIs
    <3> QED BY <1>10, <1>11, <3>1, <3>2
  <2>3. ASSUME NEW c, c = views[v].child, c # 0
        PROVE  Open(views', c) /\ views'[c] = views[c]
    <3>1. Open(views, c) /\ views[c].parent = v BY <2>1, <2>3 DEF FamilyOK
    <3>2. c # current /\ c # d BY <1>4, <1>5, <1>15, <2>1, <2>3, <3>1
    <3> QED BY <1>10, <1>11, <3>1, <3>2
  <2>4. FamilyOK(views', v) BY <2>1, <2>2, <2>3 DEF FamilyOK
  <2>5. UsesOK(views, current, v) /\ (views[v].focussed <=> v = current)
    BY <1>15 DEF ViewsInv
  <2>6. Top(views, current) = current BY <1>4 DEF Top
  <2>7. views[v].uses # 0 => /\ views[v].parent = views[v].uses
                             /\ <<views[v].type, TRUE>> \in Opens[views[views[v].uses].type]
    BY <1>15, <2>5, <2>6 DEF UsesOK
  <2>8. UsesOK(views', n, v) BY <2>1, <2>2, <2>7 DEF UsesOK
  <2> QED BY <1>15, <2>1, <2>4, <2>5, <2>8
<1>16. FamilyOK(views', n) /\ UsesOK(views', n, n)
  <2>1. /\ views'[n].parent = current /\ views'[n].child = 0 /\ ~views'[n].focus_child
        /\ views'[n].type = t /\ views'[n].uses = u
        /\ views'[current].parent = 0 /\ views'[current].child = n
        /\ views'[current].type = views[current].type
    BY <1>6, <1>7, <1>8
  <2>2. FamilyOK(views', n) BY <1>14, <2>1 DEF FamilyOK
  <2>3. UsesOK(views', n, n) BY <1>14, <2>1 DEF UsesOK
  <2> QED BY <2>2, <2>3
<1>17. FamilyOK(views', current) /\ UsesOK(views', n, current)
  <2>1. FamilyOK(views', current)
    BY <1>2, <1>6, <1>7, <1>8, <1>14 DEF FamilyOK
  <2>2. ASSUME views[current].uses # 0 PROVE UsesOK(views', n, current)
    <3> DEFINE y == views[current].uses
    <3>1. y # d BY <1>1, <1>4, <2>2, TopUser
    <3>2. Open(views, y) /\ <<views[current].type, TRUE>> \in Opens[views[y].type]
      BY <1>1, <2>2 DEF ViewsInv, UsesOK
    <3>3. Open(views', y) /\ views'[y].type = views[y].type
      BY <1>6, <1>8, <1>10, <1>11, <3>1, <3>2
    <3>4. Top(views', n) = current
      <4>1. current # 0 BY <1>1
      <4> QED BY <1>7, <1>8, <4>1 DEF Top
    <3> HIDE DEF y
    <3> QED BY <1>2, <1>4, <1>6, <1>8, <3>2, <3>3, <3>4 DEF UsesOK, y
  <2>3. ASSUME views[current].uses = 0 PROVE UsesOK(views', n, current)
    BY <1>6, <1>8, <2>3 DEF UsesOK
  <2> QED BY <2>1, <2>2, <2>3
<1>18. ASSUME NEW v \in ViewIds, Open(views', v)
       PROVE  FamilyOK(views', v) /\ UsesOK(views', n, v) /\ (views'[v].focussed <=> v = n)
  <2>1. CASE v = n BY <1>7, <1>8, <1>16, <2>1
  <2>2. CASE v = current BY <1>3, <1>6, <1>8, <1>17, <2>2
  <2>3. CASE v # n /\ v # current
    <3>1. Open(views, v) /\ v # d BY <1>10, <1>18, <2>3
    <3> QED BY <1>15, <2>3, <3>1
  <2> QED BY <2>1, <2>2, <2>3
<1>19. ListOK(views', toplevel)
  <2>1. ListOK(views, toplevel) BY DEF ViewsInv, TreeOK
  <2>2. ASSUME NEW v, Open(views, v), views[v].parent = 0
        PROVE  Open(views', v) /\ views'[v].parent = 0
    <3>1. v # d BY <1>1, <1>5, <2>2, OpenIs
    <3> QED BY <1>6, <1>8, <1>10, <1>11, <2>2, <3>1
  <2>3. ASSUME NEW v \in ViewIds, Open(views', v), views'[v].parent = 0
        PROVE  Open(views, v) /\ views[v].parent = 0
    <3>1. v # n BY <1>1, <1>7, <1>8, <2>3, OpenIs
    <3> QED BY <1>1, <1>4, <1>10, <1>11, <2>3, <3>1
  <2> QED BY <2>1, <2>2, <2>3 DEF ListOK
<1>20. TreeOK(views', toplevel') BY <1>4, <1>8, <1>18, <1>19 DEF TreeOK
<1>21. \A v \in ViewIds : v > opened' => views'[v] = NoView
  <2> SUFFICES ASSUME NEW v \in ViewIds, v > opened' PROVE views'[v] = NoView
    OBVIOUS
  <2>1. v > opened /\ v # n BY <1>2 DEF n, ViewIds
  <2>2. ~Open(views, v) BY <2>1 DEF ViewsInv, Open
  <2> QED BY <1>10, <2>1, <2>2 DEF Open
<1>22. opened' \in 0..MaxViews BY <1>2 DEF n
<1> QED BY <1>2, <1>4, <1>14, <1>18, <1>20, <1>21, <1>22, ViewsInvNext

(* The least element of a set of numbers.                                     *)
LEMMA MinIs ==
    ASSUME NEW T, T \subseteq Nat, T # {}
    PROVE  Min(T) \in T
<1>1. PICK x \in T : \A y \in T : x =< y BY NatMin
<1> QED BY <1>1 DEF Min

(* A new top-level view, opened from a child, in the place of one of its      *)
(* type.                                                                      *)
LEMMA OpenTopLevelStep ==
    ASSUME ViewsInv, current # 0, opened < MaxViews, opened' = opened + 1, wide' = wide,
           NEW t \in ViewTypes, MayOpen(views[current].type, t),
           NEW u \in {0, current}, u # 0 => <<t, TRUE>> \in Opens[views[current].type],
           OpenTopLevel(t, u)
    PROVE  ViewsInv'
<1> DEFINE n == opened + 1
           same == {i \in DOMAIN toplevel : views[toplevel[i]].type = t}
           x == [views[current] EXCEPT !.focussed = FALSE]
           left == [views EXCEPT ![current].focussed = FALSE]
           vs == IF same = {} THEN left ELSE Close(left, toplevel[Min(same)])
           list == IF same = {} THEN toplevel ELSE RemoveAt(toplevel, Min(same))
           w == NewView(t, 0, u)
<1>1. /\ views \in ViewTable /\ current \in ViewIds /\ Open(views, current)
      /\ views[current] \in View /\ current \in 0..MaxViews
  BY CurrentIs
<1>2. /\ n \in ViewIds /\ n # 0 /\ n \in 0..MaxViews /\ views[n] = NoView
      /\ wide \in BOOLEAN /\ opened \in 0..MaxViews /\ 0 \in 0..MaxViews
  BY TogViewsConstants DEF ViewsInv, ViewIds
<1>3. /\ views[current].parent # 0 /\ current' = n
      /\ views' = [vs EXCEPT ![n] = w] /\ toplevel' = Append(list, n)
  BY DEF OpenTopLevel
<1>4. /\ w \in View /\ w # NoView /\ w.type = t /\ w.parent = 0 /\ w.child = 0 /\ w.uses = u
      /\ w.focussed /\ ~w.focus_child
  <2>1. u \in 0..MaxViews BY <1>1, TogViewsConstants
  <2>2. w = NewView(t, 0, u) OBVIOUS
  <2> HIDE DEF w
  <2> QED BY <1>2, <2>1, <2>2, NewViewIs
<1>5. /\ TreeOK(views, toplevel) /\ toplevel \in Seq(ViewIds)
      /\ \A v \in ViewIds : Open(views, v) => /\ FamilyOK(views, v)
                                              /\ views[v].focussed <=> v = current
  BY DEF ViewsInv, TreeOK, ListOK
<1>6. ASSUME NEW v \in ViewIds, Open(views, v), views[v].uses # 0
      PROVE  /\ views[v].parent = views[v].uses
             /\ <<views[v].type, TRUE>> \in Opens[views[views[v].uses].type]
  <2>1. views[current].type # "diff"
    <3>1. views[current].type \in ViewTypes BY <1>1, ViewIs
    <3>2. PICK o \in Opens[views[current].type] : o[1] = t BY DEF MayOpen
    <3> QED BY <3>1, <3>2, OpensIs
  <2>2. views[v].parent # 0 BY <1>3, <1>6, <2>1, TopUser
  <2> QED BY <1>6, <2>2 DEF ViewsInv, UsesOK
<1>7. /\ x \in View /\ x.type = views[current].type /\ x.parent = views[current].parent
      /\ x.child = views[current].child /\ x.uses = views[current].uses /\ ~x.focussed
      /\ x.focus_child = views[current].focus_child
  BY <1>1 DEF View
<1>8. left = [views EXCEPT ![current] = x] BY <1>1 DEF ViewTable
<1> HIDE DEF x, w, n
<1>9. left \in ViewTable /\ left[current] = x /\ \A v \in ViewIds : v # current => left[v] = views[v]
  BY <1>1, <1>7, <1>8 DEF ViewTable
<1>10. x # NoView BY <1>7, ViewIs
<1> HIDE DEF left
<1>11. \A v : Open(left, v) <=> Open(views, v)
  BY <1>1, <1>9, <1>10 DEF Open
<1>12. \A v \in ViewIds : Open(views, v) =>
              /\ left[v].type = views[v].type /\ left[v].parent = views[v].parent
              /\ left[v].child = views[v].child /\ left[v].uses = views[v].uses
              /\ left[v].focus_child => views[v].child # 0
              /\ ~left[v].focussed
  <2> SUFFICES ASSUME NEW v \in ViewIds, Open(views, v)
               PROVE  /\ left[v].type = views[v].type /\ left[v].parent = views[v].parent
                      /\ left[v].child = views[v].child /\ left[v].uses = views[v].uses
                      /\ left[v].focus_child => views[v].child # 0
                      /\ ~left[v].focussed
    OBVIOUS
  <2>1. FamilyOK(views, v) /\ (views[v].focussed <=> v = current) BY <1>5
  <2>2. views[v].focus_child => views[v].child # 0 BY <2>1 DEF FamilyOK
  <2>3. CASE v = current BY <1>7, <1>9, <2>2, <2>3
  <2>4. CASE v # current BY <1>9, <2>1, <2>2, <2>4
  <2> QED BY <2>3, <2>4
<1>13. TreeOK(left, toplevel)
  <2>1. \A v \in ViewIds : left[v] = NoView <=> views[v] = NoView BY <1>11 DEF Open
  <2>2. \A v \in ViewIds : views[v] # NoView =>
              /\ left[v].type = views[v].type /\ left[v].parent = views[v].parent
              /\ left[v].child = views[v].child
              /\ left[v].focus_child => views[v].child # 0
    BY <1>12 DEF Open
  <2> QED BY <1>5, <1>9, <2>1, <2>2, SameTree
<1>14. /\ TreeOK(vs, list)
       /\ \A v : Open(vs, v) => Open(left, v) /\ vs[v] = left[v]
       /\ u # 0 => Open(vs, current)
  <2>1. CASE same = {}
    <3>1. vs = left /\ list = toplevel BY <2>1
    <3> QED BY <1>1, <1>11, <1>13, <3>1
  <2>2. CASE same # {}
    <3> DEFINE m == Min(same)
               z == toplevel[m]
    <3>1. m \in same
      <4>1. same \subseteq Nat BY <1>5
      <4> HIDE DEF same
      <4> QED BY <2>2, <4>1, MinIs
    <3>2. m \in DOMAIN toplevel /\ views[z].type = t BY <3>1
    <3>3. vs = Close(left, z) /\ list = RemoveAt(toplevel, m) BY <2>2
    <3> HIDE DEF m, same, vs, list
    <3>4. /\ TreeOK(vs, list)
          /\ \A v \in ViewIds : vs[v] = IF v \in {z, left[z].child} THEN NoView ELSE left[v]
      BY <1>13, <3>2, <3>3, CloseTop
    <3>5. \A v : Open(vs, v) <=> Open(left, v) /\ v # z /\ v # left[z].child
      BY <3>4 DEF Open
    <3>6. \A v : Open(vs, v) => vs[v] = left[v] BY <3>4, <3>5 DEF Open
    <3>7. ASSUME u # 0 PROVE Open(vs, current)
      <4>1. Open(views, z) /\ views[z].parent = 0 /\ z \in ViewIds
        BY <1>5, <3>2 DEF TreeOK, ListOK, Open
      <4>2. current # z BY <1>3, <4>1
      <4>3. current # left[z].child
        <5> SUFFICES ASSUME current = left[z].child PROVE FALSE
          OBVIOUS
        <5>1. views[z].child = current /\ views[z].child # 0 BY <1>12, <4>1
        <5>2. FamilyOK(views, z) /\ FamilyOK(views, current) BY <1>1, <1>5, <4>1
        <5>3. views[current].parent = z BY <5>1, <5>2 DEF FamilyOK
        <5>4. MayOpen(t, views[current].type) BY <1>3, <3>2, <5>2, <5>3 DEF FamilyOK
        <5>5. views[current].type \in ViewTypes BY <1>1, ViewIs
        <5>6. <<t, TRUE>> \in Opens[views[current].type] BY <3>7
        <5>7. ~MayOpen(t, views[current].type) BY <5>5, <5>6, UseTypes
        <5> QED BY <5>4, <5>7
      <4> QED BY <1>1, <1>11, <3>5, <4>2, <4>3
    <3> QED BY <3>4, <3>5, <3>6, <3>7
  <2> QED BY <2>1, <2>2
<1> HIDE DEF vs, list, same
<1>15. vs \in ViewTable BY <1>14 DEF TreeOK
<1>16. vs[n] = NoView BY <1>2, <1>11, <1>14 DEF Open
<1>17. TreeOK(views', toplevel')
  <2>1. views' = [vs EXCEPT ![n] = w] /\ toplevel' = Append(list, n) BY <1>3
  <2>2. TreeOK(vs, list) BY <1>14
  <2>3. w.parent = 0 /\ w.child = 0 /\ ~w.focus_child /\ w \in View BY <1>4
  <2>4. TreeOK(views', Append(list, n)) BY <1>2, <1>16, <2>1, <2>2, <2>3, AddTop
  <2> QED BY <2>1, <2>4
<1>18. views'[n] = w /\ \A v \in ViewIds : v # n => views'[v] = vs[v]
  BY <1>2, <1>3, <1>15 DEF ViewTable
<1>19. Open(views', n) BY <1>2, <1>4, <1>18 DEF Open
<1>20. \A v : Open(vs, v) => Open(views', v) /\ v # n /\ views'[v] = vs[v]
  BY <1>16, <1>18 DEF Open
<1>21. ASSUME NEW v \in ViewIds, Open(views', v)
       PROVE  UsesOK(views', n, v) /\ (views'[v].focussed <=> v = n)
  <2>1. CASE v = n
    <3>1. Top(views', n) = n BY <1>4, <1>18 DEF Top
    <3>2. ASSUME u # 0 PROVE Open(views', u) /\ <<t, TRUE>> \in Opens[views'[u].type]
      <4>1. u = current /\ Open(vs, current) BY <1>14, <3>2
      <4>2. Open(views', current) /\ views'[current] = left[current] BY <1>14, <1>20, <4>1
      <4>3. left[current].type = views[current].type BY <1>1, <1>12
      <4>4. <<t, TRUE>> \in Opens[views[current].type] BY <3>2
      <4> QED BY <4>1, <4>2, <4>3, <4>4
    <3> QED BY <1>2, <1>4, <1>18, <2>1, <3>1, <3>2 DEF UsesOK
  <2>2. CASE v # n
    <3>1. Open(vs, v) /\ views'[v] = vs[v] BY <1>18, <1>21, <2>2 DEF Open
    <3>2. Open(views, v) /\ vs[v] = left[v] BY <1>11, <1>14, <3>1
    <3>3. /\ left[v].type = views[v].type /\ left[v].parent = views[v].parent
          /\ left[v].uses = views[v].uses /\ ~left[v].focussed
      BY <1>12, <3>2
    <3>4. ASSUME views[v].uses # 0 PROVE UsesOK(views', n, v)
      <4> DEFINE y == views[v].uses
      <4>1. views[v].parent = y /\ <<views[v].type, TRUE>> \in Opens[views[y].type]
        BY <1>6, <3>2, <3>4
      <4>2. FamilyOK(vs, v) BY <1>14, <3>1 DEF TreeOK
      <4>3. Open(vs, y) BY <3>2, <3>3, <3>4, <4>1, <4>2 DEF FamilyOK
      <4>4. Open(views', y) /\ views'[y] = left[y] /\ Open(views, y) BY <1>11, <1>14, <1>20, <4>3
      <4>5. left[y].type = views[y].type BY <1>12, <4>4 DEF Open
      <4> HIDE DEF y
      <4> QED BY <3>1, <3>2, <3>3, <4>1, <4>4, <4>5 DEF UsesOK, y
    <3>5. ASSUME views[v].uses = 0 PROVE UsesOK(views', n, v)
      BY <3>1, <3>2, <3>3, <3>5 DEF UsesOK
    <3> QED BY <2>2, <3>1, <3>2, <3>3, <3>4, <3>5
  <2> QED BY <2>1, <2>2
<1>22. \A v \in ViewIds : v > opened' => views'[v] = NoView
  <2> SUFFICES ASSUME NEW v \in ViewIds, v > opened' PROVE views'[v] = NoView
    OBVIOUS
  <2>1. v > opened /\ v # n BY <1>2 DEF n, ViewIds
  <2>2. ~Open(views, v) BY <2>1 DEF ViewsInv, Open
  <2>3. ~Open(vs, v) BY <1>11, <1>14, <2>2
  <2> QED BY <1>18, <2>1, <2>3 DEF Open
<1>23. opened' \in 0..MaxViews BY <1>2 DEF n
<1> QED BY <1>2, <1>3, <1>17, <1>19, <1>21, <1>22, <1>23, ViewsInvNext

(* Opening a view.                                                            *)
LEMMA OpenViewStep == ViewsInv /\ OpenView => ViewsInv'
<1> SUFFICES ASSUME ViewsInv, OpenView PROVE ViewsInv'
  OBVIOUS
<1>1. current # 0 /\ opened < MaxViews /\ opened' = opened + 1 /\ wide' = wide BY DEF OpenView
<1>2. PICK o \in Opens[views[current].type] :
          \/ OpenAsChild(o[1], IF o[2] THEN current ELSE 0)
          \/ OpenTopLevel(o[1], IF o[2] THEN current ELSE 0)
  BY DEF OpenView
<1>3. views[current].type \in ViewTypes BY <1>1, CurrentIs, ViewIs
<1>4. /\ o[1] \in ViewTypes /\ o[2] \in BOOLEAN /\ MayOpen(views[current].type, o[1])
      /\ o[2] => <<o[1], TRUE>> \in Opens[views[current].type]
  BY <1>3, OpensIs
<1> DEFINE u == IF o[2] THEN current ELSE 0
<1>5. u \in {0, current} /\ (u # 0 => <<o[1], TRUE>> \in Opens[views[current].type])
  BY <1>4
<1>6. OpenAsChild(o[1], u) \/ OpenTopLevel(o[1], u) BY <1>2
<1> HIDE DEF u
<1>7. CASE OpenAsChild(o[1], u) BY <1>1, <1>4, <1>5, <1>7, OpenAsChildStep
<1>8. CASE OpenTopLevel(o[1], u) BY <1>1, <1>4, <1>5, <1>8, OpenTopLevelStep
<1> QED BY <1>6, <1>7, <1>8

(* A view gets the focus.                                                     *)
Focus(vs, a) == [vs EXCEPT ![a].focussed = TRUE]

(* No view has the focus; one that points into another is its child or is h.  *)
Unfocussed(vs, h) ==
    /\ \A v : Open(vs, v) => ~vs[v].focussed
    /\ \A v \in ViewIds : Open(vs, v) /\ vs[v].uses # 0 =>
          /\ Open(vs, vs[v].uses) /\ <<vs[v].type, TRUE>> \in Opens[vs[vs[v].uses].type]
          /\ vs[v].parent = vs[v].uses \/ v = h

(* After a view is closed, the focus goes to the top-level view h or to its   *)
(* child.                                                                     *)
LEMMA FocusOn ==
    ASSUME NEW vs, NEW list, TreeOK(vs, list), NEW h, Open(vs, h), vs[h].parent = 0,
           Unfocussed(vs, h),
           NEW a, a = (IF vs[h].focus_child THEN vs[h].child ELSE h),
           NEW ws, ws = Focus(vs, a), NEW cur, cur = Settle(ws, a)
    PROVE  /\ TreeOK(ws, list) /\ Open(ws, cur)
           /\ \A v : Open(ws, v) <=> Open(vs, v)
           /\ \A v \in ViewIds : Open(ws, v) => /\ UsesOK(ws, cur, v)
                                                /\ ws[v].focussed <=> v = cur
<1>1. vs \in ViewTable /\ \A v \in ViewIds : Open(vs, v) => FamilyOK(vs, v) BY DEF TreeOK
<1>2. h \in ViewIds /\ h # 0 /\ FamilyOK(vs, h) BY <1>1, OpenIs
<1>3. Open(vs, a) /\ Top(vs, a) = h
  <2>1. CASE vs[h].focus_child
    <3>1. a = vs[h].child /\ vs[h].child # 0 BY <1>2, <2>1 DEF FamilyOK
    <3>2. Open(vs, a) /\ vs[a].parent = h BY <1>2, <3>1 DEF FamilyOK
    <3> QED BY <1>2, <3>2 DEF Top
  <2>2. CASE ~vs[h].focus_child BY <2>2 DEF Top
  <2> QED BY <2>1, <2>2
<1>4. a \in ViewIds /\ a # 0 /\ vs[a] \in View /\ FamilyOK(vs, a) BY <1>1, <1>3, OpenIs
<1> DEFINE x == [vs[a] EXCEPT !.focussed = TRUE]
<1>5. /\ x \in View /\ x.type = vs[a].type /\ x.parent = vs[a].parent /\ x.child = vs[a].child
      /\ x.uses = vs[a].uses /\ x.focussed /\ x.focus_child = vs[a].focus_child
  BY <1>4 DEF View
<1>6. ws = [vs EXCEPT ![a] = x] BY <1>1, <1>4 DEF ViewTable, Focus
<1> HIDE DEF x
<1>7. ws \in ViewTable /\ ws[a] = x /\ \A v \in ViewIds : v # a => ws[v] = vs[v]
  BY <1>1, <1>4, <1>5, <1>6 DEF ViewTable
<1>8. x # NoView BY <1>5, ViewIs
<1>9. \A v : Open(ws, v) <=> Open(vs, v) BY <1>3, <1>4, <1>7, <1>8 DEF Open
<1>10. \A v : Open(vs, v) =>
              /\ ws[v].type = vs[v].type /\ ws[v].parent = vs[v].parent
              /\ ws[v].child = vs[v].child /\ ws[v].uses = vs[v].uses
              /\ ws[v].focus_child = vs[v].focus_child
              /\ ws[v].focussed <=> v = a
  <2> SUFFICES ASSUME NEW v, Open(vs, v)
               PROVE  /\ ws[v].type = vs[v].type /\ ws[v].parent = vs[v].parent
                      /\ ws[v].child = vs[v].child /\ ws[v].uses = vs[v].uses
                      /\ ws[v].focus_child = vs[v].focus_child
                      /\ ws[v].focussed <=> v = a
    OBVIOUS
  <2>1. CASE v = a BY <1>5, <1>7, <2>1
  <2>2. CASE v # a
    <3>1. ws[v] = vs[v] /\ ~vs[v].focussed BY <1>7, <2>2 DEF Open, Unfocussed
    <3> QED BY <2>2, <3>1
  <2> QED BY <2>1, <2>2
<1>11. cur = a
  <2> DEFINE other == IF ws[a].parent = 0 THEN ws[a].child ELSE ws[a].parent
  <2>1. other = IF vs[a].parent = 0 THEN vs[a].child ELSE vs[a].parent BY <1>3, <1>10
  <2>2. Settle(ws, a) = IF other # 0 /\ ws[other].focussed THEN other ELSE a
    BY DEF Settle
  <2> HIDE DEF other
  <2>3. ASSUME other # 0 PROVE ~ws[other].focussed
    <3>1. CASE vs[a].parent = 0
      <4>1. other = vs[a].child BY <2>1, <3>1
      <4>2. Open(vs, other) /\ vs[other].parent = a BY <1>4, <2>3, <4>1 DEF FamilyOK
      <4>3. other # a BY <1>4, <3>1, <4>2
      <4> QED BY <1>10, <4>2, <4>3
    <3>2. CASE vs[a].parent # 0
      <4>1. other = vs[a].parent BY <2>1, <3>2
      <4>2. Open(vs, other) /\ vs[other].parent = 0 BY <1>4, <3>2, <4>1 DEF FamilyOK
      <4>3. other # a BY <3>2, <4>2
      <4> QED BY <1>10, <4>2, <4>3
    <3> QED BY <3>1, <3>2
  <2> QED BY <2>2, <2>3
<1>12. TreeOK(ws, list)
  <2>1. \A v \in ViewIds : ws[v] = NoView <=> vs[v] = NoView BY <1>9 DEF Open
  <2>2. \A v \in ViewIds : vs[v] # NoView =>
              /\ ws[v].type = vs[v].type /\ ws[v].parent = vs[v].parent
              /\ ws[v].child = vs[v].child
              /\ ws[v].focus_child => vs[v].child # 0
    BY <1>1, <1>10 DEF Open, FamilyOK
  <2> QED BY <1>7, <2>1, <2>2, SameTree
<1>13. ASSUME NEW v \in ViewIds, Open(ws, v)
       PROVE  UsesOK(ws, a, v)
  <2>1. Open(vs, v) BY <1>9, <1>13
  <2>2. ws[v].type = vs[v].type /\ ws[v].parent = vs[v].parent /\ ws[v].uses = vs[v].uses
    BY <1>10, <2>1
  <2>3. CASE vs[v].uses = 0 BY <2>2, <2>3 DEF UsesOK
  <2>4. CASE vs[v].uses # 0
    <3> DEFINE y == vs[v].uses
    <3>1. /\ Open(vs, y) /\ <<vs[v].type, TRUE>> \in Opens[vs[y].type]
          /\ vs[v].parent = y \/ v = h
      BY <2>1, <2>4 DEF Unfocussed
    <3>2. Open(ws, y) /\ ws[y].type = vs[y].type BY <1>9, <1>10, <3>1
    <3>3. Top(ws, a) = h BY <1>3, <1>10 DEF Top
    <3> HIDE DEF y
    <3>4. v = h => ws[v].parent = 0 BY <2>2
    <3> QED BY <1>4, <2>2, <3>1, <3>2, <3>3, <3>4 DEF UsesOK, y
  <2> QED BY <2>3, <2>4
<1>14. Open(ws, a) /\ \A v \in ViewIds : Open(ws, v) => (ws[v].focussed <=> v = a)
  BY <1>3, <1>9, <1>10
<1> QED BY <1>9, <1>11, <1>12, <1>13, <1>14

(* A view without its child.                                                  *)
Detach(vs, p) == [vs EXCEPT ![p].child = 0, ![p].focus_child = FALSE]

(* Closing a child.                                                           *)
LEMMA CloseChild ==
    ASSUME NEW vs, NEW list, TreeOK(vs, list), NEW k \in ViewIds, Open(vs, k),
           NEW p, p = vs[k].parent, p # 0,
           NEW ws, ws = Close(Detach(vs, p), k)
    PROVE  /\ TreeOK(ws, list) /\ p \in ViewIds /\ Open(ws, p) /\ ~ws[p].focus_child /\ p # k
           /\ \A v : Open(ws, v) <=> Open(vs, v) /\ v # k
           /\ \A v : Open(ws, v) =>
                 /\ ws[v].type = vs[v].type /\ ws[v].parent = vs[v].parent
                 /\ ws[v].uses = vs[v].uses /\ ws[v].focussed = vs[v].focussed
<1>1. vs \in ViewTable /\ ListOK(vs, list) /\ \A v \in ViewIds : Open(vs, v) => FamilyOK(vs, v)
  BY DEF TreeOK
<1>2. Open(vs, p) /\ vs[k].child = 0 /\ vs[p].parent = 0 /\ vs[p].child = k
  BY <1>1 DEF FamilyOK
<1>3. p \in ViewIds /\ vs[p] \in View /\ p # k /\ k # 0 BY <1>1, <1>2, OpenIs
<1> DEFINE x == [vs[p] EXCEPT !.child = 0, !.focus_child = FALSE]
           old == Detach(vs, p)
<1>4. /\ x \in View /\ x.type = vs[p].type /\ x.parent = 0 /\ x.child = 0
      /\ x.uses = vs[p].uses /\ x.focussed = vs[p].focussed /\ ~x.focus_child
  BY <1>2, <1>3, TogViewsConstants DEF View
<1>5. old = [vs EXCEPT ![p] = x] BY <1>1, <1>3 DEF Detach, ViewTable
<1> HIDE DEF x
<1>6. old \in ViewTable /\ old[p] = x /\ \A v \in ViewIds : v # p => old[v] = vs[v]
  BY <1>1, <1>3, <1>4, <1>5 DEF ViewTable
<1>7. ws = Close(old, k) OBVIOUS
<1> HIDE DEF old
<1>8. old[k].child = 0 BY <1>2, <1>3, <1>6
<1>9. 0 \notin ViewIds BY TogViewsConstants DEF ViewIds
<1>10. ws = [v \in ViewIds |-> IF v = k THEN NoView ELSE old[v]]
  BY <1>7, <1>8, <1>9 DEF Close
<1>11. /\ ws \in ViewTable /\ ws[k] = NoView /\ ws[p] = x
       /\ \A v \in ViewIds : v # k /\ v # p => ws[v] = vs[v]
  <2>1. ws \in ViewTable BY <1>6, <1>10 DEF ViewTable
  <2> QED BY <1>3, <1>6, <1>10, <2>1
<1>12. x # NoView BY <1>4, ViewIs
<1>13. \A v : Open(ws, v) <=> Open(vs, v) /\ v # k
  <2> SUFFICES ASSUME NEW v PROVE Open(ws, v) <=> Open(vs, v) /\ v # k
    OBVIOUS
  <2>1. CASE v = k BY <1>11, <2>1 DEF Open
  <2>2. CASE v = p BY <1>2, <1>3, <1>11, <1>12, <2>2 DEF Open
  <2>3. CASE v # k /\ v # p BY <1>11, <2>3 DEF Open
  <2> QED BY <2>1, <2>2, <2>3
<1>14. \A v : Open(ws, v) =>
                 /\ ws[v].type = vs[v].type /\ ws[v].parent = vs[v].parent
                 /\ ws[v].uses = vs[v].uses /\ ws[v].focussed = vs[v].focussed
  <2> SUFFICES ASSUME NEW v, Open(ws, v)
               PROVE  /\ ws[v].type = vs[v].type /\ ws[v].parent = vs[v].parent
                      /\ ws[v].uses = vs[v].uses /\ ws[v].focussed = vs[v].focussed
    OBVIOUS
  <2>1. CASE v = p BY <1>2, <1>4, <1>11, <2>1
  <2>2. CASE v # p BY <1>11, <1>13, <2>2 DEF Open
  <2> QED BY <2>1, <2>2
<1>15. ASSUME NEW v \in ViewIds, Open(ws, v) PROVE FamilyOK(ws, v)
  <2>1. Open(vs, v) /\ v # k /\ FamilyOK(vs, v) /\ v # 0 BY <1>1, <1>13, <1>15, OpenIs
  <2>2. CASE v = p BY <1>4, <1>11, <2>2 DEF FamilyOK
  <2>3. CASE v # p
    <3>1. ws[v] = vs[v] BY <1>11, <2>1, <2>3
    <3>2. ASSUME vs[v].parent # 0
          PROVE  Open(ws, vs[v].parent) /\ ws[vs[v].parent] = vs[vs[v].parent]
      <4> DEFINE q == vs[v].parent
      <4>1. Open(vs, q) /\ vs[q].parent = 0 /\ vs[q].child = v BY <2>1, <3>2 DEF FamilyOK
      <4>2. q # k /\ q # p BY <1>2, <2>1, <4>1
      <4> HIDE DEF q
      <4>3. Open(ws, q) /\ ws[q] = vs[q] BY <1>11, <1>13, <4>1, <4>2 DEF Open
      <4> QED BY <4>3 DEF q
    <3>3. ASSUME vs[v].child # 0
          PROVE  Open(ws, vs[v].child) /\ ws[vs[v].child] = vs[vs[v].child]
      <4> DEFINE c == vs[v].child
      <4>1. Open(vs, c) /\ vs[c].parent = v BY <2>1, <3>3 DEF FamilyOK
      <4>2. c # k /\ c # p BY <1>2, <2>1, <2>3, <4>1
      <4> HIDE DEF c
      <4>3. Open(ws, c) /\ ws[c] = vs[c] BY <1>11, <1>13, <4>1, <4>2 DEF Open
      <4> QED BY <4>3 DEF c
    <3> QED BY <2>1, <3>1, <3>2, <3>3 DEF FamilyOK
  <2> QED BY <2>2, <2>3
<1>16. ListOK(ws, list)
  <2>1. ASSUME NEW v, Open(vs, v), vs[v].parent = 0
        PROVE  Open(ws, v) /\ ws[v].parent = 0
    BY <1>13, <1>14, <2>1
  <2>2. ASSUME NEW v \in ViewIds, Open(ws, v), ws[v].parent = 0
        PROVE  Open(vs, v) /\ vs[v].parent = 0
    BY <1>13, <1>14, <2>2
  <2> QED BY <1>1, <2>1, <2>2 DEF ListOK
<1>17. TreeOK(ws, list) BY <1>11, <1>15, <1>16 DEF TreeOK
<1>18. Open(ws, p) /\ ~ws[p].focus_child BY <1>2, <1>3, <1>4, <1>11, <1>13
<1> QED BY <1>3, <1>13, <1>14, <1>17, <1>18

(* What is left when the current view k is closed: no view has the focus, and *)
(* a view that points into another one is its child or the parent of k.       *)
Left(vs, list, k) ==
    /\ TreeOK(vs, list)
    /\ \A v : Open(vs, v) => Open(views, v) /\ ~vs[v].focussed
    /\ \A v \in ViewIds : Open(vs, v) /\ vs[v].uses # 0 =>
          /\ Open(vs, vs[v].uses) /\ <<vs[v].type, TRUE>> \in Opens[vs[vs[v].uses].type]
          /\ vs[v].parent = vs[v].uses \/ (views[k].parent # 0 /\ v = views[k].parent)

(* A child is closed.                                                         *)
LEMMA QuitChild ==
    ASSUME ViewsInv, current # 0, NEW p, p = views[current].parent, p # 0,
           NEW vs, vs = Close(Detach(views, p), current)
    PROVE  /\ Left(vs, toplevel, current) /\ toplevel # <<>>
           /\ Open(vs, p) /\ vs[p].parent = 0
<1>1. /\ current \in ViewIds /\ Open(views, current) /\ TreeOK(views, toplevel)
      /\ FamilyOK(views, current)
  BY CurrentIs DEF ViewsInv
<1>2. /\ TreeOK(vs, toplevel) /\ p \in ViewIds /\ Open(vs, p) /\ p # current
      /\ \A v : Open(vs, v) <=> Open(views, v) /\ v # current
      /\ \A v : Open(vs, v) =>
                 /\ vs[v].type = views[v].type /\ vs[v].parent = views[v].parent
                 /\ vs[v].uses = views[v].uses /\ vs[v].focussed = views[v].focussed
  BY <1>1, CloseChild
<1>3. views[p].parent = 0 /\ views[p].child = current BY <1>1 DEF FamilyOK
<1>4. vs[p].parent = 0 BY <1>2, <1>3
<1>5. \E j \in DOMAIN toplevel : toplevel[j] = p BY <1>2, <1>4 DEF TreeOK, ListOK
<1>6. toplevel # <<>> BY <1>5
<1>7. \A v : Open(vs, v) => Open(views, v) /\ ~vs[v].focussed
  <2> SUFFICES ASSUME NEW v, Open(vs, v) PROVE Open(views, v) /\ ~vs[v].focussed
    OBVIOUS
  <2>1. Open(views, v) /\ v # current /\ v \in ViewIds BY <1>2 DEF Open
  <2>2. views[v].focussed <=> v = current BY <2>1 DEF ViewsInv
  <2> QED BY <1>2, <2>1, <2>2
<1>8. ASSUME NEW v \in ViewIds, Open(vs, v), vs[v].uses # 0
      PROVE  /\ Open(vs, vs[v].uses) /\ <<vs[v].type, TRUE>> \in Opens[vs[vs[v].uses].type]
             /\ vs[v].parent = vs[v].uses \/ v = p
  <2> DEFINE y == vs[v].uses
  <2>1. /\ Open(views, v) /\ views[v].uses = y /\ views[v].type = vs[v].type
        /\ views[v].parent = vs[v].parent /\ y # 0
    BY <1>2, <1>8
  <2> HIDE DEF y
  <2>2. /\ Open(views, y) /\ <<views[v].type, TRUE>> \in Opens[views[y].type]
        /\ \/ views[v].parent = y
           \/ views[v].parent = 0 /\ Top(views, current) = v
    BY <2>1 DEF ViewsInv, UsesOK
  <2>3. Open(vs, y) /\ (vs[v].parent = y \/ v = p)
    <3>1. CASE views[v].parent = y
      <4>1. FamilyOK(vs, v) BY <1>2, <1>8 DEF TreeOK
      <4> QED BY <2>1, <3>1, <4>1 DEF FamilyOK
    <3>2. CASE views[v].parent = 0 /\ Top(views, current) = v
      <4>1. v = p BY <3>2 DEF Top
      <4>2. y # current BY <1>3, <2>1, <3>2, <4>1, TopUser
      <4> QED BY <1>2, <2>2, <4>1, <4>2
    <3> QED BY <2>2, <3>1, <3>2
  <2>4. vs[y].type = views[y].type BY <1>2, <2>3
  <2> QED BY <2>1, <2>2, <2>3, <2>4 DEF y
<1> QED BY <1>2, <1>4, <1>6, <1>7, <1>8 DEF Left

(* A top-level view is closed, with its child.                                *)
LEMMA QuitTop ==
    ASSUME ViewsInv, current # 0, views[current].parent = 0,
           NEW i, i = (CHOOSE j \in DOMAIN toplevel : toplevel[j] = current),
           NEW vs, vs = Close(views, current), NEW list, list = RemoveAt(toplevel, i)
    PROVE  /\ Left(vs, list, current) /\ i \in DOMAIN toplevel /\ toplevel \in Seq(ViewIds)
           /\ \A j \in DOMAIN toplevel : j # i =>
                 Open(vs, toplevel[j]) /\ vs[toplevel[j]].parent = 0
<1>1. /\ current \in ViewIds /\ Open(views, current) /\ TreeOK(views, toplevel)
      /\ FamilyOK(views, current) /\ views \in ViewTable /\ ListOK(views, toplevel)
  BY CurrentIs DEF ViewsInv, TreeOK
<1>2. \E j \in DOMAIN toplevel : toplevel[j] = current BY <1>1 DEF ListOK
<1>3. i \in DOMAIN toplevel /\ toplevel[i] = current BY <1>2
<1> DEFINE c == views[current].child
<1>4. vs = Close(views, toplevel[i]) BY <1>3
<1>5. /\ TreeOK(vs, list)
      /\ \A v \in ViewIds : vs[v] = IF v \in {toplevel[i], views[toplevel[i]].child} THEN NoView
                                    ELSE views[v]
  BY <1>1, <1>3, <1>4, CloseTop
<1>6. \A v \in ViewIds : vs[v] = IF v \in {current, c} THEN NoView ELSE views[v] BY <1>3, <1>5
<1> HIDE DEF c
<1>7. \A v : Open(vs, v) <=> Open(views, v) /\ v # current /\ v # c BY <1>6 DEF Open
<1>8. \A v : Open(vs, v) => vs[v] = views[v] BY <1>6, <1>7 DEF Open
<1>9. \A v : Open(vs, v) => Open(views, v) /\ ~vs[v].focussed
  <2> SUFFICES ASSUME NEW v, Open(vs, v) PROVE Open(views, v) /\ ~vs[v].focussed
    OBVIOUS
  <2>1. Open(views, v) /\ v # current /\ v \in ViewIds BY <1>7 DEF Open
  <2>2. views[v].focussed <=> v = current BY <2>1 DEF ViewsInv
  <2> QED BY <1>8, <2>1, <2>2
<1>10. ASSUME NEW v \in ViewIds, Open(vs, v), vs[v].uses # 0
       PROVE  /\ Open(vs, vs[v].uses) /\ <<vs[v].type, TRUE>> \in Opens[vs[vs[v].uses].type]
              /\ vs[v].parent = vs[v].uses
  <2> DEFINE y == views[v].uses
  <2>1. Open(views, v) /\ vs[v] = views[v] /\ v # current /\ y # 0 BY <1>7, <1>8, <1>10
  <2> HIDE DEF y
  <2>2. /\ Open(views, y) /\ <<views[v].type, TRUE>> \in Opens[views[y].type]
        /\ \/ views[v].parent = y
           \/ views[v].parent = 0 /\ Top(views, current) = v
    BY <2>1 DEF ViewsInv, UsesOK, y
  <2>3. views[v].parent = y BY <2>1, <2>2 DEF Top
  <2>4. FamilyOK(vs, v) BY <1>5, <1>10 DEF TreeOK
  <2>5. Open(vs, y) BY <2>1, <2>3, <2>4 DEF FamilyOK
  <2>6. vs[y] = views[y] BY <1>8, <2>5
  <2> QED BY <2>1, <2>2, <2>3, <2>5, <2>6 DEF y
<1>11. ASSUME NEW j \in DOMAIN toplevel, j # i
       PROVE  Open(vs, toplevel[j]) /\ vs[toplevel[j]].parent = 0
  <2>1. Open(views, toplevel[j]) /\ views[toplevel[j]].parent = 0 BY <1>1 DEF ListOK
  <2>2. toplevel[j] # current BY <1>1, <1>3, <1>11 DEF ListOK
  <2>3. toplevel[j] # c
    <3> SUFFICES ASSUME toplevel[j] = c PROVE FALSE
      OBVIOUS
    <3>1. c # 0 BY <1>1, <2>1, OpenIs
    <3>2. views[c].parent = current BY <1>1, <3>1 DEF FamilyOK, c
    <3> QED BY <2>1, <3>2
  <2> QED BY <1>7, <1>8, <2>1, <2>2, <2>3
<1> QED BY <1>1, <1>3, <1>5, <1>9, <1>10, <1>11 DEF Left, ListOK

(* The focus after a view is closed.                                          *)
LEMMA PickIs ==
    ASSUME NEW vs, NEW list, NEW prev, NEW f, f = PickFocus(vs, list, prev),
           NEW h, h = (IF prev # 0 THEN prev ELSE Last(list)),
           NEW a, a = (IF vs[h].focus_child THEN vs[h].child ELSE h)
    PROVE  f.vs = Focus(vs, a) /\ f.at = a
<1>1. CASE vs[h].focus_child
  <2>1. f = [vs |-> Focus(vs, vs[h].child), at |-> vs[h].child]
    BY <1>1 DEF PickFocus, Focus
  <2> QED BY <1>1, <2>1
<1>2. CASE ~vs[h].focus_child
  <2>1. f = [vs |-> Focus(vs, h), at |-> h] BY <1>2 DEF PickFocus, Focus
  <2> QED BY <1>2, <2>1
<1> QED BY <1>1, <1>2

(* Key q.                                                                     *)
LEMMA QuitStep == ViewsInv /\ Quit => ViewsInv'
<1> SUFFICES ASSUME ViewsInv, Quit PROVE ViewsInv'
  OBVIOUS
<1> DEFINE p == views[current].parent
           i == CHOOSE j \in DOMAIN toplevel : toplevel[j] = current
           prev == IF p # 0 THEN p ELSE IF i > 1 THEN toplevel[i - 1] ELSE 0
           vs == Close(IF p = 0 THEN views ELSE Detach(views, p), current)
           list == IF p = 0 THEN RemoveAt(toplevel, i) ELSE toplevel
           h == IF prev # 0 THEN prev ELSE Last(list)
           a == IF vs[h].focus_child THEN vs[h].child ELSE h
           f == PickFocus(vs, list, prev)
<1>1. /\ current # 0 /\ wide' = wide /\ opened' = opened /\ toplevel' = list
      /\ list = <<>> => views' = vs /\ current' = 0
      /\ list # <<>> => views' = f.vs /\ current' = Settle(f.vs, f.at)
  BY DEF Quit, Detach
<1>2. /\ Left(vs, list, current)
      /\ list = <<>> => p = 0
      /\ list # <<>> => Open(vs, h) /\ vs[h].parent = 0 /\ (p # 0 => h = p)
  <2>1. CASE p = 0
    <3>1. vs = Close(views, current) /\ list = RemoveAt(toplevel, i) BY <2>1
    <3>2. prev = IF i > 1 THEN toplevel[i - 1] ELSE 0 BY <2>1
    <3>3. i = (CHOOSE j \in DOMAIN toplevel : toplevel[j] = current) OBVIOUS
    <3> HIDE DEF vs, list, i, prev
    <3>4. /\ Left(vs, list, current) /\ i \in DOMAIN toplevel /\ toplevel \in Seq(ViewIds)
          /\ \A j \in DOMAIN toplevel : j # i =>
                 Open(vs, toplevel[j]) /\ vs[toplevel[j]].parent = 0
      BY <1>1, <2>1, <3>1, <3>3, QuitTop
    <3>5. ASSUME list # <<>> PROVE Open(vs, h) /\ vs[h].parent = 0
      <4>1. CASE prev # 0
        <5>1. i > 1 /\ h = toplevel[i - 1] BY <3>2, <4>1
        <5>2. i - 1 \in DOMAIN toplevel /\ i - 1 # i BY <3>4, <5>1
        <5> QED BY <3>4, <5>1, <5>2
      <4>2. CASE prev = 0
        <5>1. h = list[Len(list)] BY <4>2 DEF Last
        <5>2. ListOK(vs, list) BY <3>4 DEF Left, TreeOK
        <5>3. list \in Seq(ViewIds) BY <5>2 DEF ListOK
        <5>4. Len(list) \in DOMAIN list BY <3>5, <5>3
        <5> QED BY <5>1, <5>2, <5>4 DEF ListOK
      <4> QED BY <4>1, <4>2
    <3> QED BY <2>1, <3>4, <3>5
  <2>2. CASE p # 0
    <3>1. vs = Close(Detach(views, p), current) /\ list = toplevel /\ prev = p /\ h = p
      BY <2>2
    <3> HIDE DEF vs, list, prev, h
    <3> QED BY <1>1, <2>2, <3>1, QuitChild
  <2> QED BY <2>1, <2>2
<1>3. /\ h = (IF prev # 0 THEN prev ELSE Last(list)) /\ f = PickFocus(vs, list, prev)
      /\ a = (IF vs[h].focus_child THEN vs[h].child ELSE h)
  OBVIOUS
<1>4. p = views[current].parent OBVIOUS
<1> HIDE DEF vs, list, h, a, f, prev, i, p
<1>5. f.vs = Focus(vs, a) /\ f.at = a BY <1>3, PickIs
<1>6. wide' \in BOOLEAN /\ opened' \in 0..MaxViews BY <1>1 DEF ViewsInv
<1>7. \A v : Open(vs, v) => Open(views, v) /\ ~vs[v].focussed BY <1>2 DEF Left
<1>8. \A v \in ViewIds : v > opened' => ~Open(vs, v)
  BY <1>1, <1>7 DEF ViewsInv, Open
<1>9. TreeOK(vs, list) BY <1>2 DEF Left
<1>10. CASE list = <<>>
  <2>1. views' = vs /\ current' = 0 /\ toplevel' = list BY <1>1, <1>10
  <2>2. p = 0 BY <1>2, <1>10
  <2>3. ASSUME NEW v \in ViewIds, Open(vs, v)
        PROVE  UsesOK(vs, 0, v) /\ (vs[v].focussed <=> v = 0)
    <3>1. UsesOK(vs, 0, v) BY <1>2, <1>4, <2>2, <2>3 DEF Left, UsesOK
    <3>2. v # 0 BY TogViewsConstants DEF ViewIds
    <3> QED BY <1>7, <2>3, <3>1, <3>2
  <2>4. \A v \in ViewIds : v > opened' => views'[v] = NoView BY <1>8, <2>1 DEF Open
  <2>5. TreeOK(views', toplevel') BY <1>9, <2>1
  <2>6. \A v \in ViewIds : Open(views', v) => /\ UsesOK(views', current', v)
                                              /\ views'[v].focussed <=> v = current'
    BY <2>1, <2>3
  <2> QED BY <1>6, <2>1, <2>4, <2>5, <2>6, ViewsInvNext
<1>11. CASE list # <<>>
  <2>1. /\ views' = Focus(vs, a) /\ current' = Settle(views', a)
        /\ toplevel' = list
    BY <1>1, <1>5, <1>11
  <2>2. Open(vs, h) /\ vs[h].parent = 0 /\ (p # 0 => h = p) BY <1>2, <1>11
  <2>3. \A v \in ViewIds : Open(vs, v) /\ vs[v].uses # 0 =>
              /\ Open(vs, vs[v].uses) /\ <<vs[v].type, TRUE>> \in Opens[vs[vs[v].uses].type]
              /\ vs[v].parent = vs[v].uses \/ v = h
    <3> SUFFICES ASSUME NEW v \in ViewIds, Open(vs, v), vs[v].uses # 0
                 PROVE  /\ Open(vs, vs[v].uses)
                        /\ <<vs[v].type, TRUE>> \in Opens[vs[vs[v].uses].type]
                        /\ vs[v].parent = vs[v].uses \/ v = h
      OBVIOUS
    <3>1. /\ Open(vs, vs[v].uses) /\ <<vs[v].type, TRUE>> \in Opens[vs[vs[v].uses].type]
          /\ vs[v].parent = vs[v].uses \/ (p # 0 /\ v = p)
      BY <1>2, <1>4 DEF Left
    <3> QED BY <2>2, <3>1
  <2>4. Unfocussed(vs, h) BY <1>7, <2>3 DEF Unfocussed
  <2>5. /\ TreeOK(views', list) /\ Open(views', current')
        /\ \A v : Open(views', v) <=> Open(vs, v)
        /\ \A v \in ViewIds : Open(views', v) => /\ UsesOK(views', current', v)
                                                 /\ views'[v].focussed <=> v = current'
    BY <1>3, <1>9, <2>1, <2>2, <2>4, FocusOn
  <2>6. \A v \in ViewIds : v > opened' => views'[v] = NoView BY <1>8, <2>5 DEF Open
  <2>7. TreeOK(views', toplevel') BY <2>1, <2>5
  <2> QED BY <1>6, <2>5, <2>6, <2>7, ViewsInvNext
<1> QED BY <1>10, <1>11

(* A table without views.                                                     *)
LEMMA Nothing ==
    ASSUME NEW vs, vs = [v \in ViewIds |-> NoView]
    PROVE  TreeOK(vs, <<>>) /\ \A v : ~Open(vs, v)
<1>1. \A v : ~Open(vs, v) BY DEF Open
<1>2. vs \in ViewTable BY DEF ViewTable
<1>3. ListOK(vs, <<>>) BY <1>1 DEF ListOK
<1> QED BY <1>1, <1>2, <1>3 DEF TreeOK

(* Key Q.                                                                     *)
LEMMA QuitAllStep == ViewsInv /\ QuitAll => ViewsInv'
<1> SUFFICES ASSUME ViewsInv, QuitAll PROVE ViewsInv'
  OBVIOUS
<1>1. /\ views' = [v \in ViewIds |-> NoView] /\ toplevel' = <<>> /\ current' = 0
      /\ wide' = wide /\ opened' = opened
  BY DEF QuitAll
<1>2. TreeOK(views', <<>>) /\ \A v : ~Open(views', v) BY <1>1, Nothing
<1>3. TreeOK(views', toplevel') BY <1>1, <1>2
<1>4. \A v \in ViewIds : views'[v] = NoView BY <1>1
<1>5. wide' \in BOOLEAN /\ opened' \in 0..MaxViews BY <1>1 DEF ViewsInv
<1>6. current' = 0 BY <1>1
<1> QED BY <1>2, <1>3, <1>4, <1>5, <1>6, ViewsInvNext

(* Before the first view, and with it.                                        *)
LEMMA ViewsStart == ViewsInit \/ ViewsIdle => ViewsInv
<1>1. ASSUME ViewsIdle PROVE ViewsInv
  <2>1. /\ views = [v \in ViewIds |-> NoView] /\ toplevel = <<>> /\ current = 0
        /\ wide = FALSE /\ opened = 0
    BY <1>1 DEF ViewsIdle
  <2>2. TreeOK(views, <<>>) /\ \A v : ~Open(views, v) BY <2>1, Nothing
  <2>3. TreeOK(views, toplevel) BY <2>1, <2>2
  <2>4. wide \in BOOLEAN /\ opened \in 0..MaxViews
    <3>1. 0 \in 0..MaxViews BY TogViewsConstants
    <3>2. wide \in BOOLEAN BY <2>1
    <3> QED BY <2>1, <3>1, <3>2
  <2>5. \A v \in ViewIds : views[v] = NoView BY <2>1
  <2>6. current = 0 BY <2>1
  <2> QED BY <2>2, <2>3, <2>4, <2>5, <2>6 DEF ViewsInv
<1>2. ASSUME ViewsInit PROVE ViewsInv
  <2>1. /\ wide \in BOOLEAN /\ opened = 1 /\ toplevel = <<1>> /\ current = 1
    BY <1>2, TogViewsConstants DEF ViewsInit
  <2>2. PICK t \in ViewTypes :
            views = [v \in ViewIds |-> IF v = 1 THEN NewView(t, 0, 0) ELSE NoView]
    BY <1>2 DEF ViewsInit
  <2> DEFINE w == NewView(t, 0, 0)
             vs == [v \in ViewIds |-> NoView]
  <2>3. 1 \in ViewIds /\ 0 \in 0..MaxViews /\ 1 \in 0..MaxViews BY TogViewsConstants DEF ViewIds
  <2>4. w = NewView(t, 0, 0) OBVIOUS
  <2> HIDE DEF w
  <2>5. /\ w \in View /\ w # NoView /\ w.type = t /\ w.parent = 0 /\ w.child = 0 /\ w.uses = 0
        /\ w.focussed /\ ~w.focus_child
    BY <2>1, <2>3, <2>4, NewViewIs
  <2>6. views = [v \in ViewIds |-> IF v = 1 THEN w ELSE NoView] BY <2>2, <2>4
  <2>7. views = [vs EXCEPT ![1] = w] BY <2>3, <2>6
  <2>8. vs[1] = NoView BY <2>3
  <2>9. TreeOK(vs, <<>>) BY Nothing
  <2> HIDE DEF vs
  <2>10. TreeOK(views, Append(<<>>, 1)) BY <2>3, <2>5, <2>7, <2>8, <2>9, AddTop
  <2>11. TreeOK(views, toplevel)
    <3>1. Append(<<>>, 1) = <<1>> OBVIOUS
    <3> QED BY <2>1, <2>10, <3>1
  <2>12. views[1] = w /\ \A v \in ViewIds : v # 1 => views[v] = NoView BY <2>3, <2>6
  <2>13. Open(views, 1) /\ \A v : Open(views, v) => v = 1 BY <2>3, <2>5, <2>12 DEF Open
  <2>14. \A v \in ViewIds : v > opened => views[v] = NoView BY <2>1, <2>12
  <2>15. UsesOK(views, current, 1) BY <2>5, <2>12 DEF UsesOK
  <2>16. \A v \in ViewIds : Open(views, v) => /\ UsesOK(views, current, v)
                                              /\ views[v].focussed <=> v = current
    BY <2>1, <2>5, <2>12, <2>13, <2>15
  <2>17. opened \in 0..MaxViews /\ Open(views, current) BY <2>1, <2>3, <2>13
  <2> QED BY <2>1, <2>11, <2>14, <2>16, <2>17 DEF ViewsInv
<1> QED BY <1>1, <1>2

(* Every step of tog.                                                         *)
LEMMA ViewsInvStep == ViewsInv /\ [Next]_vars => ViewsInv'
<1> SUFFICES ASSUME ViewsInv, [Next]_vars PROVE ViewsInv'
  OBVIOUS
<1>1. CASE ViewsNext
  BY <1>1, OpenViewStep, TabStep, FullscreenStep, QuitStep, QuitAllStep DEF ViewsNext
<1>2. CASE UNCHANGED viewVars BY <1>2, ViewsStay
<1> QED BY <1>1, <1>2 DEF Next, vars

(* Focus and pointers, in a state of the invariant.                           *)
LEMMA ViewsInvSays == ViewsInv => FocusIsUnique /\ PointersAreLive
<1> SUFFICES ASSUME ViewsInv PROVE FocusIsUnique /\ PointersAreLive
  OBVIOUS
<1>1. TreeOK(views, toplevel) /\ ListOK(views, toplevel) BY DEF ViewsInv, TreeOK
<1>2. \A v : IsOpen(v) <=> Open(views, v) BY DEF IsOpen, Open
<1>3. ASSUME NEW v \in ViewIds, IsOpen(v)
      PROVE  IF views[v].parent = 0
             THEN v \in ToSet(toplevel)
             ELSE IsOpen(views[v].parent) /\ views[views[v].parent].child = v
  <2>1. Open(views, v) /\ FamilyOK(views, v) BY <1>1, <1>2, <1>3 DEF TreeOK
  <2>2. CASE views[v].parent = 0
    <3>1. \E i \in DOMAIN toplevel : toplevel[i] = v BY <1>1, <2>1, <2>2 DEF ListOK
    <3> QED BY <2>2, <3>1 DEF ToSet
  <2>3. CASE views[v].parent # 0 BY <1>2, <2>1, <2>3 DEF FamilyOK
  <2> QED BY <2>2, <2>3
<1>4. {v \in ViewIds : IsOpen(v) /\ views[v].focussed} = IF current = 0 THEN {} ELSE {current}
  <2>1. \A v \in ViewIds : IsOpen(v) => (views[v].focussed <=> v = current)
    BY <1>2 DEF ViewsInv
  <2>2. current # 0 => IsOpen(current) /\ current \in ViewIds BY <1>2, CurrentIs
  <2>3. 0 \notin ViewIds BY TogViewsConstants DEF ViewIds
  <2> QED BY <2>1, <2>2, <2>3
<1>5. PointersAreLive BY <1>2 DEF PointersAreLive, ViewsInv, UsesOK
<1> QED BY <1>3, <1>4, <1>5 DEF FocusIsUnique

-----------------------------------------------------------------------------
(* The diff, blame, tree and reference views.                                 *)

(* Whatever line a search starts at, going around reaches every line.         *)
LEMMA Modulo ==
    ASSUME NEW n \in Nat \ {0}, NEW q \in Int, NEW r \in 0..(n - 1)
    PROVE  (n * q + r) % n = r
  OBVIOUS

(* Division with remainder.                                                   *)
LEMMA Divide ==
    ASSUME NEW n \in Nat \ {0}, NEW a \in Int
    PROVE  a % n \in 0..(n - 1) /\ a \div n \in Int /\ a = n * (a \div n) + (a % n)
  OBVIOUS

(* Forward or backward from s, every line of n comes up within n steps.       *)
LEMMA GoesAround ==
    ASSUME NEW n \in Nat \ {0}, NEW s \in Int, NEW m \in 1..n
    PROVE  /\ \E i \in 0..(n - 1) : ((s - 1 + i) % n) + 1 = m
           /\ \E i \in 0..(n - 1) : ((s - 1 - i) % n) + 1 = m
<1> DEFINE i == (m - s) % n
           p == (m - s) \div n
           j == (s - m) % n
           q == (s - m) \div n
<1>1. i \in 0..(n - 1) /\ p \in Int /\ m - s = n * p + i
  <2>1. m - s \in Int OBVIOUS
  <2> QED BY <2>1, Divide
<1>2. j \in 0..(n - 1) /\ q \in Int /\ s - m = n * q + j
  <2>1. s - m \in Int OBVIOUS
  <2> QED BY <2>1, Divide
<1> HIDE DEF i, p, j, q
<1>3. s - 1 + i = n * (0 - p) + (m - 1) BY <1>1
<1>4. s - 1 - j = n * q + (m - 1) BY <1>2
<1>5. m - 1 \in 0..(n - 1) /\ 0 - p \in Int BY <1>1
<1>6. (n * (0 - p) + (m - 1)) % n = m - 1 BY <1>5, Modulo
<1>7. (n * q + (m - 1)) % n = m - 1 BY <1>2, <1>5, Modulo
<1>8. ((s - 1 + i) % n) + 1 = m BY <1>3, <1>6
<1>9. ((s - 1 - j) % n) + 1 = m BY <1>4, <1>7
<1> QED BY <1>1, <1>2, <1>8, <1>9, Zenon

(* What a search finds: a match on display, whenever there is one.            *)
LEMMA AroundIs ==
    ASSUME NEW f, NEW s \in Int, NEW n \in Nat \ {0}, len \in Nat, len <= n,
           NEW hit, hit = Around(f, s, n)
    PROVE  /\ hit = 0 \/ (hit \in f.pattern /\ hit \in 1..len)
           /\ \A m \in 1..len : m \in f.pattern => hit # 0
<1> DEFINE line(i) == IF f.dir = "forward" THEN ((s - 1 + i) % n) + 1
                      ELSE ((s - 1 - i) % n) + 1
           tries == {i \in 0..(n - 1) : line(i) \in f.pattern \cap 1..len}
<1>1. hit = IF tries = {} THEN 0
            ELSE line(CHOOSE i \in tries : \A j \in tries : i <= j)
  BY Zenon DEF Around
<1>2. ASSUME tries # {}
      PROVE  (CHOOSE i \in tries : \A j \in tries : i <= j) \in tries
  <2>1. \E i \in tries : \A j \in tries : i <= j
    <3>1. tries \subseteq Nat BY SMT
    <3> HIDE DEF tries
    <3> QED BY <1>2, <3>1, NatMin
  <2> HIDE DEF tries
  <2> QED BY <2>1, Zenon
<1>3. \A i \in tries : line(i) \in f.pattern /\ line(i) \in 1..len OBVIOUS
<1>4. ASSUME NEW m \in 1..len, m \in f.pattern
      PROVE  tries # {}
  <2>1. m \in 1..n OBVIOUS
  <2>2. /\ \E i \in 0..(n - 1) : ((s - 1 + i) % n) + 1 = m
        /\ \E i \in 0..(n - 1) : ((s - 1 - i) % n) + 1 = m
    BY <2>1, GoesAround
  <2>3. \E i \in 0..(n - 1) : line(i) = m BY <2>2, Zenon
  <2> QED BY <1>4, <2>3, Zenon
<1>5. 0 \notin 1..len BY SMT
<1> HIDE DEF tries, line
<1>6. CASE tries = {} BY <1>1, <1>4, <1>6
<1>7. CASE tries # {} BY <1>1, <1>2, <1>3, <1>5, <1>7
<1> QED BY <1>6, <1>7

-----------------------------------------------------------------------------
(* Positions in the diff, blame, tree and reference views.                    *)

(* The last line and the number of rows on the screen, if line f is on top.   *)
LastLine(f, n, h) ==
    IF kind = "blame" THEN Lesser(n, f + h - 3)
    ELSE IF kind = "tree" THEN Lesser(n, IF f # 0 THEN f + h - 4 ELSE h - 4)
    ELSE Lesser(n, f + h - 2)
Rows(f, n, h) ==
    IF kind = "tree" /\ f = 0 THEN Greater(0, LastLine(f, n, h)) + 1
    ELSE Greater(0, LastLine(f, n, h) - f + 1)

(* What has happened to the positions.                                        *)
Past(odd) == "past the end" \in odd
Gone(odd) == "row is gone" \in odd
Stale(odd) == "stale match" \in odd

(* Line f may be on top and row s selected.                                   *)
Fits(f, s, n, h, odd) ==
    /\ f \in Nat /\ s \in Nat /\ (kind # "tree" => f # 0)
    /\ kind = "diff" => f <= n + 1
    /\ kind = "blame" => s >= 1 /\ s <= h - 2 /\ (~Past(odd) => f + s - 1 <= n)
    /\ kind \in {"tree", "ref"} => (~Gone(odd) => s < Rows(f, n, h))

Proper(n, h) == n \in Nat \ {0} /\ h \in Nat /\ h >= 5

(* What is remembered of a tree above the one on display, or of a commit      *)
(* blamed before.                                                             *)
Above == IF kind = "tree"
         THEN [len : Nat \ {0}, first : Nat, entry : Nat, sel : Nat]
         ELSE [len : Nat \ {0}]

Drawn ==
    /\ top.last = LastLine(top.first, len, height)
    /\ kind \in {"tree", "ref"} => top.shown = Rows(top.first, len, height)
    /\ kind = "diff" => (top.eof <=> len < top.first + height - 2)

Positioned ==
    /\ Drawn /\ Fits(top.first, sel, len, height, oddities) /\ entry \in Nat
    /\ kind \in {"tree", "ref"} => (~Gone(oddities) => entry = top.first + sel)

(* The last match is one of what is on display, unless that has changed.      *)
SearchOK ==
    /\ found = [dir |-> found.dir, pattern |-> found.pattern, matched |-> found.matched]
    /\ found.matched \in Nat
    /\ ~Stale(oddities) =>
          /\ found.matched # 0 => found.matched \in found.pattern /\ found.matched \in 1..len
          /\ loop # "spin"

(* Only a blame view waits for its thread; key B needs a commit to go back to.*)
LoopOK == loop \in {"join", "back"} => kind = "blame" /\ (loop = "back" => parents # <<>>)

ListOpen ==
    /\ kind \in {"diff", "blame", "tree", "ref"} /\ Proper(len, height)
    /\ parents \in Seq(Above)
    /\ Positioned /\ SearchOK /\ LoopOK

ListInv == ListIdle \/ ListOpen

(* Drawing.                                                                   *)
LEMMA WindowIs ==
    ASSUME NEW f \in Int, NEW n \in Int, NEW rows \in Int, NEW d, d = Window(f, n, rows)
    PROVE  /\ d.first = f /\ d.last = Lesser(n, f + rows - 1)
           /\ d.shown = Greater(0, Lesser(n, f + rows - 1) - f + 1)
           /\ d.eof <=> n < f + rows - 1
           /\ d = [first |-> d.first, last |-> d.last, shown |-> d.shown, eof |-> d.eof]
<1>1. /\ d.first = f /\ d.last = Lesser(n, f + rows - 1)
      /\ d.shown = Greater(0, Lesser(n, f + rows - 1) - f + 1)
  BY DEF Window
<1>2. d.eof <=> n < f + rows - 1 BY DEF Window
<1>3. d = [first |-> d.first, last |-> d.last, shown |-> d.shown, eof |-> d.eof] BY DEF Window
<1> QED BY <1>1, <1>2, <1>3, Zenon

(* What is on display from line f on.                                         *)
LEMMA DisplayIs ==
    ASSUME kind \in {"diff", "blame", "tree", "ref"}, NEW n, NEW h, Proper(n, h),
           NEW f \in Nat, kind # "tree" => f # 0, NEW d, d = Display(f, n, h)
    PROVE  /\ d.first = f /\ d.last = LastLine(f, n, h)
           /\ kind \in {"tree", "ref"} => d.shown = Rows(f, n, h)
           /\ kind = "diff" => (d.eof <=> n < f + h - 2)
<1>1. n \in Nat /\ h \in Nat /\ f \in Int /\ n \in Int BY DEF Proper
<1>2. CASE kind = "diff"
  <2>1. d = Window(f, n, h - 1) BY <1>2 DEF Display, DrawFile
  <2>2. h - 1 \in Int /\ f + (h - 1) - 1 = f + h - 2 BY <1>1
  <2>3. d.first = f /\ d.last = Lesser(n, f + h - 2) /\ (d.eof <=> n < f + h - 2)
    BY <1>1, <2>1, <2>2, WindowIs
  <2> QED BY <1>2, <2>3 DEF LastLine
<1>3. CASE kind = "blame"
  <2>1. d = Window(f, n, h - 2) BY <1>3 DEF Display, DrawBlame
  <2>2. h - 2 \in Int /\ f + (h - 2) - 1 = f + h - 3 BY <1>1
  <2>3. d.first = f /\ d.last = Lesser(n, f + h - 3) BY <1>1, <2>1, <2>2, WindowIs
  <2> QED BY <1>3, <2>3 DEF LastLine
<1>4. CASE kind = "ref"
  <2>1. d = Window(f, n, h - 1) BY <1>4 DEF Display, ShowRefs
  <2>2. h - 1 \in Int /\ f + (h - 1) - 1 = f + h - 2 BY <1>1
  <2>3. /\ d.first = f /\ d.last = Lesser(n, f + h - 2)
        /\ d.shown = Greater(0, Lesser(n, f + h - 2) - f + 1)
    BY <1>1, <2>1, <2>2, WindowIs
  <2> QED BY <1>4, <2>3 DEF LastLine, Rows
<1>5. CASE kind = "tree" /\ f # 0
  <2>1. d = Window(f, n, h - 3) BY <1>5 DEF Display, DrawTreeEntries
  <2>2. h - 3 \in Int /\ f + (h - 3) - 1 = f + h - 4 BY <1>1
  <2>3. /\ d.first = f /\ d.last = Lesser(n, f + h - 4)
        /\ d.shown = Greater(0, Lesser(n, f + h - 4) - f + 1)
    BY <1>1, <2>1, <2>2, WindowIs
  <2> QED BY <1>5, <2>3 DEF LastLine, Rows
<1>6. CASE kind = "tree" /\ f = 0
  <2> DEFINE w == Window(1, n, h - 4)
  <2>1. d = [w EXCEPT !.first = 0, !.shown = @ + 1]
    BY <1>6 DEF Display, DrawTreeEntries
  <2>2. h - 4 \in Int /\ 1 + (h - 4) - 1 = h - 4 BY <1>1
  <2>w. w = Window(1, n, h - 4) OBVIOUS
  <2>3. /\ w.last = Lesser(n, h - 4)
        /\ w.shown = Greater(0, Lesser(n, h - 4) - 1 + 1)
        /\ w = [first |-> w.first, last |-> w.last, shown |-> w.shown, eof |-> w.eof]
    <3> HIDE DEF w
    <3>1. 1 \in Int OBVIOUS
    <3>2. /\ w.last = Lesser(n, 1 + (h - 4) - 1)
          /\ w.shown = Greater(0, Lesser(n, 1 + (h - 4) - 1) - 1 + 1)
          /\ w = [first |-> w.first, last |-> w.last, shown |-> w.shown, eof |-> w.eof]
      <4>1. ASSUME NEW a \in Int, NEW b \in Int, w = Window(a, n, b)
            PROVE  /\ w.last = Lesser(n, a + b - 1)
                   /\ w.shown = Greater(0, Lesser(n, a + b - 1) - a + 1)
                   /\ w = [first |-> w.first, last |-> w.last, shown |-> w.shown, eof |-> w.eof]
        BY <1>1, <4>1, WindowIs
      <4> QED BY <2>2, <2>w, <3>1, <4>1, Zenon
    <3> QED BY <2>2, <3>2
  <2>4. Lesser(n, h - 4) - 1 + 1 = Lesser(n, h - 4) BY <1>1 DEF Lesser
  <2> HIDE DEF w
  <2>5. d.first = 0 /\ d.last = Lesser(n, h - 4) /\ d.shown = Greater(0, Lesser(n, h - 4)) + 1
    BY <2>1, <2>3, <2>4
  <2> QED BY <1>6, <2>5 DEF LastLine, Rows
<1> QED BY <1>2, <1>3, <1>4, <1>5, <1>6

(* What is drawn from a first line and a row that fit is in position.         *)
LEMMA DrawIs ==
    ASSUME kind \in {"diff", "blame", "tree", "ref"}, kind' = kind, Proper(len', height'),
           NEW f, NEW s, NEW n, NEW h, n = len', h = height',
           Fits(f, s, n, h, oddities'), entry \in Nat, Draw(f, n, h, s)
    PROVE  Positioned'
<1>1. f \in Nat /\ s \in Nat /\ (kind # "tree" => f # 0) BY DEF Fits
<1>2. top' = Display(f, n, h) /\ sel' = s
      /\ entry' = IF kind \in {"tree", "ref"} /\ s < top'.shown THEN f + s ELSE entry
  BY DEF Draw
<1>3. /\ top'.first = f /\ top'.last = LastLine(f, n, h)
      /\ kind \in {"tree", "ref"} => top'.shown = Rows(f, n, h)
      /\ kind = "diff" => (top'.eof <=> n < f + h - 2)
  BY <1>1, <1>2, DisplayIs
<1>4. Drawn' BY <1>3 DEF Drawn, LastLine, Rows
<1>5. Fits(f, s, n, h, oddities)' BY DEF Fits, Rows, LastLine
<1>6. entry' \in Nat BY <1>1, <1>2
<1>7. kind \in {"tree", "ref"} => (~Gone(oddities') => entry' = top'.first + sel')
  BY <1>2, <1>3 DEF Fits
<1> QED BY <1>2, <1>3, <1>4, <1>5, <1>6, <1>7 DEF Positioned, Fits, Rows, LastLine

(* What is known of an open list.                                             *)
LEMMA DrawnIs ==
    ASSUME ListOpen
    PROVE  /\ len \in Nat /\ len >= 1 /\ height \in Nat /\ height >= 5
           /\ top.first \in Nat /\ sel \in Nat /\ entry \in Nat /\ (kind # "tree" => top.first # 0)
           /\ top.last = LastLine(top.first, len, height)
           /\ kind \in {"tree", "ref"} => top.shown = Rows(top.first, len, height)
           /\ kind = "diff" => (top.eof <=> len < top.first + height - 2)
           /\ Fits(top.first, sel, len, height, oddities)
<1>1. Fits(top.first, sel, len, height, oddities) /\ Drawn /\ entry \in Nat /\ Proper(len, height)
  BY DEF ListOpen, Positioned
<1>2. len \in Nat /\ len >= 1 /\ height \in Nat /\ height >= 5 BY <1>1 DEF Proper
<1>3. top.first \in Nat /\ sel \in Nat /\ (kind # "tree" => top.first # 0) BY <1>1 DEF Fits
<1>4. /\ top.last = LastLine(top.first, len, height)
      /\ kind \in {"tree", "ref"} => top.shown = Rows(top.first, len, height)
      /\ kind = "diff" => (top.eof <=> len < top.first + height - 2)
  BY <1>1, Zenon DEF Drawn
<1> QED BY <1>1, <1>2, <1>3, <1>4

-----------------------------------------------------------------------------
(* Keys that move.                                                            *)
MoveKeys == {"up", "down", "ppage", "npage"}

(* input_diff_view: the first line stays within the text.                     *)
LEMMA InputDiffFits ==
    ASSUME ListOpen, kind = "diff", NEW key \in MoveKeys, NEW odd, NEW f, NEW s, <<f, s>> = InputDiff(key)
    PROVE  Fits(f, s, len, height, odd)
<1> USE DrawnIs DEF MoveKeys
<1>1. top.first <= len + 1 BY DEF Fits
<1>2. top.eof \/ top.last = top.first + height - 2 BY DEF LastLine, Lesser
<1>3. s = sel BY DEF InputDiff
<1>4. CASE key = "up" BY <1>1, <1>3, <1>4 DEF InputDiff, Greater, Fits
<1>5. CASE key = "ppage" BY <1>1, <1>3, <1>5 DEF InputDiff, Greater, Fits
<1>6. CASE key = "down" /\ top.eof BY <1>1, <1>3, <1>6 DEF InputDiff, Fits
<1>7. CASE key = "npage" /\ top.eof BY <1>1, <1>3, <1>7 DEF InputDiff, Fits
<1>8. CASE key = "down" /\ ~top.eof BY <1>1, <1>3, <1>8 DEF InputDiff, Fits
<1>9. CASE key = "npage" /\ ~top.eof BY <1>1, <1>2, <1>3, <1>9 DEF InputDiff, Fits, Lesser
<1> QED BY <1>4, <1>5, <1>6, <1>7, <1>8, <1>9

(* input_blame_view: the selected row stays on a line, or Page Down has gone  *)
(* past the end of a short file.                                              *)
LEMMA InputBlameFits ==
    ASSUME ListOpen, kind = "blame", NEW key \in MoveKeys, NEW f, NEW s,
           <<f, s>> = InputBlame(key)
    PROVE  /\ f \in Nat /\ s \in Nat /\ f # 0 /\ s >= 1 /\ s <= height - 2
           /\ ~Past(oddities) /\ key # "npage" => f + s - 1 <= len
<1>0. /\ len \in Nat /\ len >= 1 /\ height \in Nat /\ height >= 5
      /\ top.first \in Nat /\ sel \in Nat /\ (kind # "tree" => top.first # 0)
      /\ top.last = LastLine(top.first, len, height)
      /\ kind \in {"tree", "ref"} => top.shown = Rows(top.first, len, height)
      /\ Fits(top.first, sel, len, height, oddities)
  BY DrawnIs
<1>1. /\ sel >= 1 /\ sel <= height - 2 /\ top.first >= 1
      /\ ~Past(oddities) => top.first + sel - 1 <= len
  BY <1>0 DEF Fits
<1>2. top.last = len \/ (top.last = top.first + height - 3 /\ top.last < len)
  BY <1>0 DEF LastLine, Lesser
<1>4. CASE key = "up" BY <1>0, <1>1, <1>4 DEF InputBlame, BlameUp, Greater
<1>5. CASE key = "ppage" BY <1>0, <1>1, <1>5 DEF InputBlame, BlamePageUp
<1>6. CASE key = "down" BY <1>0, <1>1, <1>2, <1>6 DEF InputBlame, BlameDown
<1>7. CASE key = "npage" BY <1>0, <1>1, <1>2, <1>7 DEF InputBlame, BlamePageDown, Greater, Lesser
<1> QED BY <1>4, <1>5, <1>6, <1>7 DEF MoveKeys

(* input_tree_view: the selected row stays on an entry.                       *)
LEMMA InputTreeFits ==
    ASSUME ListOpen, kind = "tree", NEW key \in MoveKeys, NEW f, NEW s, <<f, s>> = InputTree(key)
    PROVE  Fits(f, s, len, height, oddities)
<1>0. /\ len \in Nat /\ len >= 1 /\ height \in Nat /\ height >= 5
      /\ top.first \in Nat /\ sel \in Nat /\ (kind # "tree" => top.first # 0)
      /\ top.last = LastLine(top.first, len, height)
      /\ kind \in {"tree", "ref"} => top.shown = Rows(top.first, len, height)
      /\ Fits(top.first, sel, len, height, oddities)
  BY DrawnIs
<1> DEFINE gone == Gone(oddities)
<1>1. gone \/ sel < Rows(top.first, len, height) BY <1>0 DEF Fits
<1>2. /\ top.last = Lesser(len, IF top.first # 0 THEN top.first + height - 4 ELSE height - 4)
      /\ top.shown = IF top.first = 0 THEN Greater(0, top.last) + 1
                     ELSE Greater(0, top.last - top.first + 1)
  BY <1>0 DEF LastLine, Rows
<1>f. ASSUME f \in Nat, s \in Nat,
             gone \/ s < (IF f = 0 THEN Greater(0, Lesser(len, height - 4)) + 1
                          ELSE Greater(0, Lesser(len, f + height - 4) - f + 1))
      PROVE  Fits(f, s, len, height, oddities)
  BY <1>0, <1>f DEF Fits, Rows, LastLine
<1>3. gone \/ sel < top.shown BY <1>0, <1>1
<1>t. TopEntry \in {0, 1} BY DEF TopEntry
<1> HIDE DEF gone
<1>4. CASE key = "up" BY <1>0, <1>2, <1>3, <1>f, <1>t, <1>4 DEF InputTree, TreeScrollUp, Greater, Lesser
<1>5. CASE key = "ppage"
  BY <1>0, <1>2, <1>3, <1>f, <1>t, <1>5 DEF InputTree, TreeScrollUp, Greater, Lesser
<1>6. CASE key = "down" BY <1>0, <1>2, <1>3, <1>f, <1>6 DEF InputTree, TreeScrollDown, Greater, Lesser
<1>7. CASE key = "npage" BY <1>0, <1>2, <1>3, <1>f, <1>7 DEF InputTree, TreeScrollDown, Greater, Lesser
<1> QED BY <1>4, <1>5, <1>6, <1>7 DEF MoveKeys

(* input_ref_view: the selected row stays on a reference.                     *)
LEMMA InputRefFits ==
    ASSUME ListOpen, kind = "ref", NEW key \in MoveKeys, NEW f, NEW s, <<f, s>> = InputRef(key)
    PROVE  Fits(f, s, len, height, oddities)
<1>0. /\ len \in Nat /\ len >= 1 /\ height \in Nat /\ height >= 5
      /\ top.first \in Nat /\ sel \in Nat /\ (kind # "tree" => top.first # 0)
      /\ top.last = LastLine(top.first, len, height)
      /\ kind \in {"tree", "ref"} => top.shown = Rows(top.first, len, height)
      /\ Fits(top.first, sel, len, height, oddities)
  BY DrawnIs
<1> DEFINE gone == Gone(oddities)
<1>1. gone \/ sel < Rows(top.first, len, height) BY <1>0 DEF Fits
<1>2. /\ top.last = Lesser(len, top.first + height - 2)
      /\ top.shown = Greater(0, top.last - top.first + 1)
  BY <1>0 DEF LastLine, Rows
<1>f. ASSUME f \in Nat, s \in Nat, f # 0,
             gone \/ s < Greater(0, Lesser(len, f + height - 2) - f + 1)
      PROVE  Fits(f, s, len, height, oddities)
  BY <1>0, <1>f DEF Fits, Rows, LastLine
<1>3. gone \/ sel < top.shown BY <1>0, <1>1
<1> HIDE DEF gone
<1>4. CASE key = "up" BY <1>0, <1>2, <1>3, <1>f, <1>4 DEF InputRef, RefScrollUp, Greater, Lesser
<1>5. CASE key = "ppage" BY <1>0, <1>2, <1>3, <1>f, <1>5 DEF InputRef, RefScrollUp, Greater, Lesser
<1>6. CASE key = "down" BY <1>0, <1>2, <1>3, <1>f, <1>6 DEF InputRef, RefScrollDown, Greater, Lesser
<1>7. CASE key = "npage" BY <1>0, <1>2, <1>3, <1>f, <1>7 DEF InputRef, RefScrollDown, Greater, Lesser
<1> QED BY <1>4, <1>5, <1>6, <1>7 DEF MoveKeys

(* The rest of the state when the position changes.                           *)
LEMMA OpenNext ==
    ASSUME kind \in {"diff", "blame", "tree", "ref"}, kind' = kind, Proper(len', height'),
           parents' \in Seq(Above), Positioned', SearchOK',
           loop' \in {"join", "back"} => kind = "blame" /\ (loop' = "back" => parents' # <<>>)
    PROVE  ListOpen'
<1>1. Above' = Above BY DEF Above
<1> QED BY <1>1 DEF ListOpen, LoopOK, Proper

(* The search, when the position changes or the text.                         *)
LEMMA SearchStays ==
    ASSUME SearchOK, found' = found, loop' # "spin",
           \/ len' = len /\ (Stale(oddities) => Stale(oddities'))
           \/ Stale(oddities')
    PROVE  SearchOK'
<1>2. /\ found' = [dir |-> found'.dir, pattern |-> found'.pattern, matched |-> found'.matched]
      /\ found'.matched \in Nat
  BY DEF SearchOK
<1>3. ASSUME ~Stale(oddities'), found'.matched # 0
      PROVE  found'.matched \in found'.pattern /\ found'.matched \in 1..len'
  BY <1>3 DEF SearchOK
<1> QED BY <1>2, <1>3 DEF SearchOK

(* Up, down, Page Up and Page Down in any of the lists.                       *)
LEMMA MoveStep ==
    ASSUME ListOpen, NEW key \in MoveKeys, Move(key)
    PROVE  ListOpen'
<1> DEFINE to == CASE kind = "diff" -> InputDiff(key)
                   [] kind = "blame" -> InputBlame(key)
                   [] kind = "tree" -> InputTree(key)
                   [] kind = "ref" -> InputRef(key)
<1>1. /\ kind' = kind /\ height' = height /\ len' = len /\ parents' = parents
      /\ found' = found /\ loop' = loop /\ loop = "key"
  BY DEF Move, ListKey
<1>2. /\ Draw(to[1], len, height, to[2])
      /\ oddities' = oddities \cup
                  (IF kind = "blame" /\ key = "npage" /\ to[1] + to[2] - 1 > len
                   THEN {"past the end"} ELSE {})
  BY Zenon DEF Move
<1>k. kind \in {"diff", "blame", "tree", "ref"} /\ Proper(len, height) /\ parents \in Seq(Above)
      /\ SearchOK /\ Positioned /\ entry \in Nat
  BY DEF ListOpen, Positioned
<1>3. \E f, s : to = <<f, s>>
  <2>1. CASE kind = "diff" BY <2>1, Zenon DEF InputDiff
  <2>2. CASE kind = "blame"
    BY <2>2 DEF InputBlame, BlameUp, BlameDown, BlamePageUp, BlamePageDown, MoveKeys
  <2>3. CASE kind = "tree" BY <2>3 DEF InputTree, MoveKeys
  <2>4. CASE kind = "ref" BY <2>4 DEF InputRef, MoveKeys
  <2> QED BY <1>k, <2>1, <2>2, <2>3, <2>4
<1>4. PICK f, s : to = <<f, s>> BY <1>3
<1>5. to[1] = f /\ to[2] = s
  <2> HIDE DEF to
  <2> QED BY <1>4
<1>6. /\ Past(oddities') <=> Past(oddities) \/ (kind = "blame" /\ key = "npage" /\ f + s - 1 > len)
      /\ Gone(oddities') <=> Gone(oddities)
      /\ Stale(oddities') <=> Stale(oddities)
  <2>1. "past the end" # "row is gone" /\ "past the end" # "stale match" BY Zenon
  <2> QED BY <1>2, <1>5, <2>1, Zenon DEF Past, Gone, Stale
<1>7. Fits(f, s, len, height, oddities')
  <2>1. CASE kind = "diff"
    <3>1. <<f, s>> = InputDiff(key) BY <1>4, <2>1
    <3> QED BY <2>1, <3>1, InputDiffFits
  <2>2. CASE kind = "blame"
    <3>1. <<f, s>> = InputBlame(key) BY <1>4, <2>2
    <3>2. /\ f \in Nat /\ s \in Nat /\ f # 0 /\ s >= 1 /\ s <= height - 2
          /\ ~Past(oddities) /\ key # "npage" => f + s - 1 <= len
      BY <2>2, <3>1, InputBlameFits
    <3>3. len \in Nat BY <1>k DEF Proper
    <3>4. ~Past(oddities') => f + s - 1 <= len
      <4>1. ~Past(oddities') => ~Past(oddities) /\ (key # "npage" \/ ~(f + s - 1 > len))
        BY <1>6, <2>2
      <4>2. ~(f + s - 1 > len) => f + s - 1 <= len BY <3>2, <3>3
      <4> QED BY <3>2, <4>1, <4>2
    <3> QED BY <2>2, <3>2, <3>4 DEF Fits
  <2>3. CASE kind = "tree"
    <3>1. <<f, s>> = InputTree(key) BY <1>4, <2>3
    <3>2. Fits(f, s, len, height, oddities) BY <2>3, <3>1, InputTreeFits
    <3> QED BY <1>6, <2>3, <3>2 DEF Fits
  <2>4. CASE kind = "ref"
    <3>1. <<f, s>> = InputRef(key) BY <1>4, <2>4
    <3>2. Fits(f, s, len, height, oddities) BY <2>4, <3>1, InputRefFits
    <3> QED BY <1>6, <2>4, <3>2 DEF Fits
  <2> QED BY <1>k, <2>1, <2>2, <2>3, <2>4
<1>8. Draw(f, len, height, s) BY <1>2, <1>5
<1>9. Positioned' BY <1>1, <1>k, <1>7, <1>8, DrawIs
<1>10. SearchOK' BY <1>1, <1>6, <1>k, SearchStays
<1> QED BY <1>1, <1>9, <1>10, <1>k, OpenNext

(* Where a position fits into a window of another height.                     *)
LEMMA ResizeStep ==
    ASSUME ListOpen, NEW h \in Heights, Resize(h)
    PROVE  ListOpen'
<1> DEFINE s == CASE kind = "blame" /\ sel > h - 2 -> Lesser(len, h - 2)
                  [] kind = "tree" /\ sel >= h - 3 -> h - 4
                  [] kind = "ref" /\ sel >= h - 1 -> h - 2
                  [] OTHER -> sel
<1>1. /\ kind' = kind /\ height' = h /\ len' = len /\ parents' = parents
      /\ found' = found /\ loop' = loop /\ loop = "key" /\ oddities' = oddities
      /\ Draw(top.first, len, h, s)
  BY DEF Resize, ListKey
<1>k. kind \in {"diff", "blame", "tree", "ref"} /\ Proper(len, height) /\ parents \in Seq(Above)
      /\ SearchOK /\ Positioned /\ entry \in Nat
  BY DEF ListOpen, Positioned
<1>h. h \in Nat /\ h >= 5 BY TogListConstants
<1>0. /\ len \in Nat /\ len >= 1 /\ height \in Nat /\ height >= 5
      /\ top.first \in Nat /\ sel \in Nat /\ (kind # "tree" => top.first # 0)
      /\ Fits(top.first, sel, len, height, oddities)
  BY DrawnIs
<1>2. /\ kind = "diff" => s = sel
      /\ kind = "blame" => s = IF sel > h - 2 THEN Lesser(len, h - 2) ELSE sel
      /\ kind = "tree" => s = IF sel >= h - 3 THEN h - 4 ELSE sel
      /\ kind = "ref" => s = IF sel >= h - 1 THEN h - 2 ELSE sel
  BY <1>k, <1>0, <1>h
<1> HIDE DEF s
<1>3. Fits(top.first, s, len, h, oddities)
  <2>1. CASE kind = "diff" BY <1>0, <1>2, <2>1 DEF Fits
  <2>2. CASE kind = "blame" BY <1>0, <1>2, <1>h, <2>2 DEF Fits, Lesser
  <2>3. CASE kind = "tree" BY <1>0, <1>2, <1>h, <2>3 DEF Fits, Rows, LastLine, Lesser, Greater
  <2>4. CASE kind = "ref" BY <1>0, <1>2, <1>h, <2>4 DEF Fits, Rows, LastLine, Lesser, Greater
  <2> QED BY <1>k, <2>1, <2>2, <2>3, <2>4
<1>4. Proper(len', height') BY <1>0, <1>1, <1>h DEF Proper
<1>5. Positioned' BY <1>1, <1>3, <1>4, <1>k, DrawIs
<1>6. SearchOK' BY <1>1, <1>k, SearchStays
<1> QED BY <1>1, <1>4, <1>5, <1>6, <1>k, OpenNext

(* A diff is made again with other options, or of another commit.             *)
LEMMA RediffStep ==
    ASSUME ListOpen, NEW n \in Lengths, NEW k \in {"a", "[", "]", "<"}, Rediff(n, k)
    PROVE  ListOpen'
<1> DEFINE f == IF \/ k \in {"a", "<"}
                   \/ k = "[" /\ top.first + height - 1 > n + 1
                THEN 1 ELSE top.first
<1>1. /\ kind = "diff" /\ kind' = kind /\ height' = height /\ len' = n /\ parents' = parents
      /\ found' = found /\ loop' = loop /\ loop = "key"
      /\ Draw(f, n, height, sel) /\ (k = "]" => n >= len)
  BY DEF Rediff, ListKey
<1>k. kind \in {"diff", "blame", "tree", "ref"} /\ Proper(len, height) /\ parents \in Seq(Above)
      /\ SearchOK /\ Positioned /\ entry \in Nat
  BY DEF ListOpen, Positioned
<1>n. n \in Nat /\ n >= 1 BY TogListConstants
<1>0. /\ len \in Nat /\ height \in Nat /\ height >= 5 /\ top.first \in Nat /\ sel \in Nat
      /\ top.first # 0 /\ Fits(top.first, sel, len, height, oddities)
  BY <1>1, DrawnIs
<1>2. f \in Nat /\ f # 0 /\ f <= n + 1 BY <1>0, <1>1, <1>n DEF Fits
<1> HIDE DEF f
<1>3. Fits(f, sel, n, height, oddities') BY <1>0, <1>1, <1>2 DEF Fits
<1>4. Proper(len', height') BY <1>0, <1>1, <1>n DEF Proper
<1>5. Positioned' BY <1>1, <1>3, <1>4, <1>k, DrawIs
<1>6. Stale(oddities') BY Zenon DEF Stale, Rediff
<1>7. SearchOK' BY <1>1, <1>6, <1>k, SearchStays
<1> QED BY <1>1, <1>4, <1>5, <1>7, <1>k, OpenNext

(* The references are read again; there may be fewer.                         *)
LEMMA ReloadRefsStep ==
    ASSUME ListOpen, NEW n \in Lengths, ReloadRefs(n)
    PROVE  ListOpen'
<1>1. /\ kind = "ref" /\ kind' = kind /\ height' = height /\ len' = n /\ parents' = parents
      /\ found' = found /\ loop' = loop /\ loop = "key"
      /\ Draw(1, n, height, sel)
  BY DEF ReloadRefs, ListKey
<1>2. oddities' = oddities \cup {"stale match"}
                   \cup (IF sel >= top'.shown THEN {"row is gone"} ELSE {})
  BY Zenon DEF ReloadRefs
<1>k. kind \in {"diff", "blame", "tree", "ref"} /\ Proper(len, height) /\ parents \in Seq(Above)
      /\ SearchOK /\ Positioned /\ entry \in Nat
  BY DEF ListOpen, Positioned
<1>n. n \in Nat /\ n >= 1 BY TogListConstants
<1>0. len \in Nat /\ height \in Nat /\ height >= 5 /\ sel \in Nat BY DrawnIs
<1>4. Proper(n, height) BY <1>0, <1>n DEF Proper
<1>3. top'.shown = Rows(1, n, height) /\ Rows(1, n, height) \in Nat
  <2>1. top' = Display(1, n, height) BY <1>1 DEF Draw
  <2>2. top'.shown = Rows(1, n, height) BY <1>1, <1>4, <1>k, <2>1, DisplayIs
  <2> QED BY <1>0, <1>1, <1>n, <2>2 DEF Rows, LastLine, Lesser, Greater
<1>5. Gone(oddities') \/ sel < Rows(1, n, height)
  <2>1. sel >= top'.shown \/ sel < Rows(1, n, height) BY <1>0, <1>3
  <2> QED BY <1>2, <2>1, Zenon DEF Gone
<1>6. Fits(1, sel, n, height, oddities') BY <1>0, <1>1, <1>5 DEF Fits
<1>7. Positioned' BY <1>1, <1>4, <1>6, <1>k, DrawIs
<1>8. Stale(oddities') BY <1>2, Zenon DEF Stale
<1>9. SearchOK' BY <1>1, <1>8, <1>k, SearchStays
<1> QED BY <1>1, <1>4, <1>7, <1>9, <1>k, OpenNext

(* Enter on a directory: its entries, from the first.                         *)
LEMMA VisitSubtreeStep ==
    ASSUME ListOpen, NEW n \in Lengths, VisitSubtree(n)
    PROVE  ListOpen'
<1> DEFINE here == [len |-> len, first |-> top.first, entry |-> entry, sel |-> sel]
<1>1. /\ kind = "tree" /\ kind' = kind /\ height' = height /\ len' = n
      /\ parents' = <<here>> \o parents
      /\ found' = found /\ loop' = loop /\ loop = "key"
      /\ Draw(0, n, height, 0)
  BY DEF VisitSubtree, ListKey
<1>k. kind \in {"diff", "blame", "tree", "ref"} /\ Proper(len, height) /\ parents \in Seq(Above)
      /\ SearchOK /\ Positioned /\ entry \in Nat
  BY DEF ListOpen, Positioned
<1>n. n \in Nat /\ n >= 1 BY TogListConstants
<1>0. /\ len \in Nat /\ len >= 1 /\ height \in Nat /\ height >= 5 /\ top.first \in Nat /\ sel \in Nat
  BY DrawnIs
<1>2. parents' \in Seq(Above)
  <2>1. here \in Above BY <1>0, <1>1, <1>k DEF Above
  <2> HIDE DEF here
  <2>2. <<here>> \in Seq(Above) BY <2>1
  <2> QED BY <1>1, <1>k, <2>2
<1>3. Fits(0, 0, n, height, oddities')
  BY <1>0, <1>1, <1>n DEF Fits, Rows, LastLine, Lesser, Greater
<1>4. Proper(len', height') BY <1>0, <1>1, <1>n DEF Proper
<1>5. Positioned' BY <1>1, <1>3, <1>4, <1>k, DrawIs
<1>6. Stale(oddities') BY Zenon DEF Stale, VisitSubtree
<1>7. SearchOK' BY <1>1, <1>6, <1>k, SearchStays
<1> QED BY <1>1, <1>2, <1>4, <1>5, <1>7, <1>k, OpenNext

(* LeaveSubtree draws like Draw, but falls back to the parent's entry.        *)
LEMMA LeaveSubtreeStep ==
    ASSUME ListOpen, LeaveSubtree
    PROVE  ListOpen'
<1> DEFINE p == parents[1]
<1>1. /\ kind = "tree" /\ kind' = kind /\ height' = height /\ len' = p.len
      /\ parents # <<>> /\ parents' = Tail(parents)
      /\ found' = found /\ loop' = loop /\ loop = "key"
      /\ top' = Display(p.first, p.len, height) /\ sel' = p.sel
      /\ entry' = IF p.sel < top'.shown THEN p.first + p.sel ELSE p.entry
  BY DEF LeaveSubtree, ListKey
<1>2. oddities' = oddities \cup {"stale match"}
                   \cup (IF sel' >= top'.shown THEN {"row is gone"} ELSE {})
  BY Zenon DEF LeaveSubtree
<1>k. kind \in {"diff", "blame", "tree", "ref"} /\ Proper(len, height) /\ parents \in Seq(Above)
      /\ SearchOK
  BY DEF ListOpen
<1>0. height \in Nat /\ height >= 5 BY DrawnIs
<1>3. p \in Above /\ Tail(parents) \in Seq(Above) BY <1>1, <1>k
<1>4. p.len \in Nat /\ p.len >= 1 /\ p.first \in Nat /\ p.sel \in Nat /\ p.entry \in Nat
  BY <1>1, <1>3 DEF Above
<1> HIDE DEF p
<1>5. Proper(p.len, height) BY <1>0, <1>4 DEF Proper
<1>6. /\ top'.first = p.first /\ top'.last = LastLine(p.first, p.len, height)
      /\ top'.shown = Rows(p.first, p.len, height)
  BY <1>1, <1>4, <1>5, <1>k, DisplayIs
<1>7. Rows(p.first, p.len, height) \in Nat
  BY <1>0, <1>1, <1>4 DEF Rows, LastLine, Lesser, Greater
<1>8. Gone(oddities') \/ p.sel < Rows(p.first, p.len, height)
  <2>1. sel' >= top'.shown \/ p.sel < Rows(p.first, p.len, height) BY <1>1, <1>4, <1>6, <1>7
  <2> QED BY <1>2, <2>1, Zenon DEF Gone
<1>9. Fits(p.first, p.sel, p.len, height, oddities') BY <1>1, <1>4, <1>8 DEF Fits
<1>10. Fits(top.first, sel, len, height, oddities)'
  BY <1>1, <1>6, <1>9 DEF Fits, Rows, LastLine
<1>11. Drawn' BY <1>1, <1>6 DEF Drawn, Rows, LastLine
<1>12. entry' \in Nat /\ (~Gone(oddities') => entry' = top'.first + sel')
  BY <1>1, <1>4, <1>6, <1>8
<1>13. Positioned' BY <1>10, <1>11, <1>12 DEF Positioned
<1>14. Stale(oddities') BY <1>2, Zenon DEF Stale
<1>15. SearchOK' BY <1>1, <1>14, <1>k, SearchStays
<1>16. Proper(len', height') /\ parents' \in Seq(Above) BY <1>1, <1>3, <1>5
<1> QED BY <1>1, <1>13, <1>15, <1>16, <1>k, OpenNext

-----------------------------------------------------------------------------
(* Searching.                                                                 *)
LEMMA HitIs ==
    ASSUME ListOpen, NEW f, f.matched \in Nat, NEW hit, hit = Hit(f)
    PROVE  /\ hit = 0 \/ (hit \in f.pattern /\ hit \in 1..len)
           /\ \A m \in 1..len : m \in f.pattern => hit # 0
<1>1. kind \in {"diff", "blame", "tree", "ref"} BY DEF ListOpen
<1>2. len \in Nat /\ len >= 1 /\ entry \in Nat BY DrawnIs
<1>3. Offsets \in Nat /\ (kind = "diff" => Offsets = len + 1) BY <1>2 DEF Offsets
<1>4. \A at \in Nat : Beyond(f, at) \in Int BY <1>3 DEF Beyond
<1>5. CASE kind = "diff"
  <2>1. hit = Around(f, Beyond(f, f.matched), Offsets) BY <1>5 DEF Hit, SearchNextDiff
  <2>2. Beyond(f, f.matched) \in Int /\ Offsets \in Nat \ {0} /\ len <= Offsets
    BY <1>2, <1>3, <1>4, <1>5
  <2> QED BY <1>2, <2>1, <2>2, AroundIs, Zenon
<1>6. CASE kind = "blame"
  <2>1. hit = Around(f, Beyond(f, f.matched), len) BY <1>6 DEF Hit, SearchNextBlame
  <2>2. Beyond(f, f.matched) \in Int /\ len \in Nat \ {0} /\ len <= len BY <1>2, <1>4
  <2> QED BY <1>2, <2>1, <2>2, AroundIs, Zenon
<1>7. CASE kind \in {"tree", "ref"}
  <2>1. hit = Around(f, Beyond(f, entry), len) BY <1>7 DEF Hit, SearchNextTree, SearchNextRef
  <2>2. Beyond(f, entry) \in Int /\ len \in Nat \ {0} /\ len <= len BY <1>2, <1>4
  <2> QED BY <1>2, <2>1, <2>2, AroundIs, Zenon
<1> QED BY <1>1, <1>5, <1>6, <1>7

(* A search that finds its match puts it on display and selects it.           *)
LEMMA SearchWithStep ==
    ASSUME ListOpen, SearchUnchanged, loop = "key",
           NEW f, f = [dir |-> f.dir, pattern |-> f.pattern, matched |-> f.matched],
           f.matched \in Nat,
           ~Stale(oddities) /\ f.matched # 0 => f.matched \in f.pattern /\ f.matched \in 1..len,
           SearchWith(f)
    PROVE  ListOpen'
<1> DEFINE hit == Hit(f)
<1>1. /\ kind' = kind /\ height' = height /\ len' = len /\ parents' = parents
  BY DEF SearchUnchanged
<1>k. kind \in {"diff", "blame", "tree", "ref"} /\ Proper(len, height) /\ parents \in Seq(Above)
      /\ SearchOK /\ Positioned /\ entry \in Nat
  BY DEF ListOpen, Positioned
<1>0. len \in Nat /\ len >= 1 /\ height \in Nat /\ height >= 5 BY DrawnIs
<1>2. /\ hit = 0 \/ (hit \in f.pattern /\ hit \in 1..len)
      /\ \A m \in 1..len : m \in f.pattern => hit # 0
  BY HitIs
<1>3. CASE hit # 0
  <2> DEFINE s == IF kind \in {"tree", "ref"} THEN 0 ELSE 1
  <2>1. /\ found' = [f EXCEPT !.matched = hit] /\ Draw(hit, len, height, s) /\ loop' = loop
    BY <1>3 DEF SearchWith
  <2>2. oddities' = oddities \ {"stale match"} BY <1>3, Zenon DEF SearchWith
  <2>3. /\ Past(oddities') <=> Past(oddities)
        /\ Gone(oddities') <=> Gone(oddities)
    <3>1. "past the end" # "stale match" /\ "row is gone" # "stale match" BY Zenon
    <3> QED BY <2>2, <3>1, Zenon DEF Past, Gone
  <2>4. hit \in f.pattern /\ hit \in 1..len BY <1>2, <1>3
  <2> HIDE DEF hit
  <2>5. Fits(hit, s, len, height, oddities')
    <3>1. hit \in Nat /\ hit >= 1 /\ hit <= len BY <1>0, <2>4
    <3> QED BY <1>0, <3>1 DEF Fits, Rows, LastLine, Lesser, Greater
  <2>6. Positioned' BY <1>1, <1>k, <2>1, <2>5, DrawIs
  <2>7. /\ found'.matched = hit /\ found'.pattern = f.pattern /\ found'.dir = f.dir
        /\ found' = [dir |-> found'.dir, pattern |-> found'.pattern, matched |-> found'.matched]
    BY <2>1
  <2>8. SearchOK'
    <3>1. found'.matched \in Nat BY <1>0, <2>4, <2>7
    <3>2. found'.matched \in found'.pattern /\ found'.matched \in 1..len' BY <1>1, <2>4, <2>7
    <3>3. loop' # "spin" BY <2>1
    <3> QED BY <2>7, <3>1, <3>2, <3>3 DEF SearchOK
  <2> QED BY <1>1, <1>k, <2>1, <2>6, <2>8, OpenNext
<1>4. CASE hit = 0
  <2>1. /\ found' = f /\ loop' = (IF f.matched # 0 THEN "spin" ELSE loop)
        /\ top' = top /\ sel' = sel /\ entry' = entry /\ oddities' = oddities
    BY <1>4 DEF SearchWith
  <2>2. ~Stale(oddities) => f.matched = 0 BY <1>2, <1>4
  <2> HIDE DEF hit
  <2>3. Positioned'
    BY <1>1, <1>k, <2>1 DEF Positioned, Drawn, Fits, Rows, LastLine
  <2>4. SearchOK'
    <3>1. /\ found' = [dir |-> found'.dir, pattern |-> found'.pattern, matched |-> found'.matched]
          /\ found'.matched \in Nat
      BY <2>1
    <3>2. ~Stale(oddities') => found'.matched = 0 /\ loop' # "spin" BY <2>1, <2>2
    <3> QED BY <3>1, <3>2 DEF SearchOK
  <2>5. loop' \notin {"join", "back"} BY <2>1
  <2> QED BY <1>1, <1>k, <2>3, <2>4, <2>5, OpenNext
<1> QED BY <1>3, <1>4

(* The search key.                                                            *)
LEMMA SearchStartStep ==
    ASSUME ListOpen, NEW p, SearchStart(p)
    PROVE  ListOpen'
<1> DEFINE f == [dir |-> "forward", pattern |-> p, matched |-> 0]
<1>1. SearchUnchanged /\ loop = "key" /\ SearchWith(f) BY DEF SearchStart, ListKey
<1>2. f = [dir |-> f.dir, pattern |-> f.pattern, matched |-> f.matched] /\ f.matched = 0 OBVIOUS
<1> HIDE DEF f
<1>3. f.matched \in Nat BY <1>2
<1> QED BY <1>1, <1>2, <1>3, SearchWithStep

(* The keys n and N.                                                          *)
LEMMA SearchNextKeyStep ==
    ASSUME ListOpen, NEW d, SearchNextKey(d)
    PROVE  ListOpen'
<1> DEFINE f == [found EXCEPT !.dir = d]
<1>1. SearchUnchanged /\ loop = "key" /\ SearchWith(f) BY DEF SearchNextKey, ListKey
<1>2. SearchOK BY DEF ListOpen
<1>3. /\ found = [dir |-> found.dir, pattern |-> found.pattern, matched |-> found.matched]
      /\ found.matched \in Nat
  BY <1>2 DEF SearchOK
<1>4. ~Stale(oddities) /\ found.matched # 0 =>
          found.matched \in found.pattern /\ found.matched \in 1..len
  BY <1>2 DEF SearchOK
<1>5. /\ f = [dir |-> f.dir, pattern |-> f.pattern, matched |-> f.matched]
      /\ f.matched = found.matched /\ f.pattern = found.pattern
  BY <1>3
<1> HIDE DEF f
<1>6. ~Stale(oddities) /\ f.matched # 0 => f.matched \in f.pattern /\ f.matched \in 1..len
  BY <1>4, <1>5
<1>7. f.matched \in Nat BY <1>3, <1>5
<1> QED BY <1>1, <1>5, <1>6, <1>7, SearchWithStep

-----------------------------------------------------------------------------
(* The blame thread.                                                          *)
LEMMA StandsStill ==
    ASSUME ListOpen, UNCHANGED <<kind, height, len, top, sel, entry, parents, found, oddities>>,
           loop' # "spin" \/ loop' = loop,
           loop' \in {"join", "back"} => kind = "blame" /\ (loop' = "back" => parents' # <<>>)
    PROVE  ListOpen'
<1>k. kind \in {"diff", "blame", "tree", "ref"} /\ Proper(len, height) /\ parents \in Seq(Above)
      /\ SearchOK /\ Positioned /\ entry \in Nat
  BY DEF ListOpen, Positioned
<1>3. Positioned' BY <1>k DEF Positioned, Drawn, Fits, Rows, LastLine
<1>4. SearchOK' BY <1>k DEF SearchOK
<1> QED BY <1>k, <1>3, <1>4, OpenNext

(* Blaming another commit, and going back to the one before.                  *)
LEMMA RunBlameStep ==
    ASSUME ListOpen, NEW n \in Lengths, RunBlame(n)
    PROVE  ListOpen'
<1> DEFINE again == top.first + height - 1 > n
           f == IF again THEN 1 ELSE top.first
           s == IF again THEN 1 ELSE sel
<1>1. /\ kind' = kind /\ height' = height /\ len' = n /\ found' = found
      /\ loop' = "key" /\ loop \in {"join", "back"}
      /\ parents' = IF loop = "back" THEN Tail(parents) ELSE <<[len |-> len]>> \o parents
      /\ IF again THEN Draw(1, n, height, 1) ELSE Draw(top.first, n, height, sel)
  BY DEF RunBlame
<1>2. Stale(oddities') BY Zenon DEF Stale, RunBlame
<1>k. kind \in {"diff", "blame", "tree", "ref"} /\ Proper(len, height) /\ parents \in Seq(Above)
      /\ SearchOK /\ Positioned /\ entry \in Nat
  BY DEF ListOpen, Positioned
<1>b. kind = "blame" /\ (loop = "back" => parents # <<>>) BY <1>1 DEF ListOpen, LoopOK
<1>n. n \in Nat /\ n >= 1 BY TogListConstants
<1>0. /\ len \in Nat /\ len >= 1 /\ height \in Nat /\ height >= 5 /\ top.first \in Nat /\ sel \in Nat
      /\ top.first # 0 /\ Fits(top.first, sel, len, height, oddities)
  BY <1>b, DrawnIs
<1>3. parents' \in Seq(Above)
  <2>1. CASE loop = "back"
    <3>1. Tail(parents) \in Seq(Above) BY <1>b, <1>k, <2>1
    <3> QED BY <1>1, <2>1, <3>1
  <2>2. CASE loop # "back"
    <3> DEFINE here == [len |-> len]
    <3>1. here \in Above BY <1>0, <1>b DEF Above
    <3>2. parents' = <<here>> \o parents BY <1>1, <2>2
    <3> HIDE DEF here
    <3>3. <<here>> \in Seq(Above) BY <3>1
    <3> QED BY <1>k, <3>2, <3>3
  <2> QED BY <2>1, <2>2
<1>4. Draw(f, n, height, s) BY <1>1
<1>5. /\ f \in Nat /\ s \in Nat /\ f # 0 /\ s >= 1 /\ s <= height - 2 /\ f + s - 1 <= n
  BY <1>0, <1>b, <1>n DEF Fits
<1> HIDE DEF f, s
<1>6. Fits(f, s, n, height, oddities') BY <1>5, <1>b DEF Fits
<1>7. Proper(len', height') BY <1>0, <1>1, <1>n DEF Proper
<1>8. Positioned' BY <1>1, <1>4, <1>6, <1>7, <1>k, DrawIs
<1>9. SearchOK' BY <1>1, <1>2, <1>k, SearchStays
<1> QED BY <1>1, <1>3, <1>7, <1>8, <1>9, <1>k, OpenNext

-----------------------------------------------------------------------------
(* A view that has just been opened.                                          *)
LEMMA ListStart == ListInit => ListOpen
<1> SUFFICES ASSUME ListInit PROVE ListOpen
  OBVIOUS
<1>1. /\ kind \in {"diff", "blame", "tree", "ref"} /\ height \in Nat /\ height >= 5
      /\ len \in Nat /\ len >= 1
  BY TogListConstants DEF ListInit
<1>2. /\ top = Display(1, len, height)
      /\ sel = (IF kind \in {"diff", "blame"} THEN 1 ELSE 0)
      /\ entry = 1 /\ parents = <<>> /\ loop = "key" /\ oddities = {}
      /\ found = [dir |-> "none", pattern |-> {}, matched |-> 0]
  BY DEF ListInit
<1>3. Proper(len, height) BY <1>1 DEF Proper
<1>4. /\ top.first = 1 /\ top.last = LastLine(1, len, height)
      /\ kind \in {"tree", "ref"} => top.shown = Rows(1, len, height)
      /\ kind = "diff" => (top.eof <=> len < 1 + height - 2)
  BY <1>1, <1>2, <1>3, DisplayIs
<1>5. Drawn BY <1>4 DEF Drawn
<1>6. Fits(top.first, sel, len, height, oddities)
  BY <1>1, <1>2, <1>4 DEF Fits, Rows, LastLine, Lesser, Greater
<1>7. Positioned BY <1>1, <1>2, <1>4, <1>5, <1>6 DEF Positioned
<1>8. SearchOK BY <1>2 DEF SearchOK
<1>9. parents \in Seq(Above) /\ LoopOK BY <1>2 DEF LoopOK
<1> QED BY <1>1, <1>3, <1>7, <1>8, <1>9 DEF ListOpen

(* Every step of a view that is open.                                         *)
LEMMA ListNextStep == ListOpen /\ ListNext => ListOpen'
<1> SUFFICES ASSUME ListOpen, ListNext PROVE ListOpen'
  OBVIOUS
<1>1. CASE \E key \in MoveKeys : Move(key) BY <1>1, MoveStep
<1>2. CASE LeaveSubtree BY <1>2, LeaveSubtreeStep
<1>3. CASE QuitList
  <2>1. /\ UNCHANGED <<kind, height, len, top, sel, entry, parents, found, oddities>>
        /\ loop' = "quit"
    BY <1>3 DEF QuitList
  <2> QED BY <2>1, StandsStill
<1>4. ASSUME NEW way \in {"join", "back"}, BlameOther(way) PROVE ListOpen'
  <2>1. /\ UNCHANGED <<kind, height, len, top, sel, entry, parents, found, oddities>>
        /\ kind = "blame" /\ loop' = way /\ (way = "back" => parents # <<>>)
    BY <1>4 DEF BlameOther
  <2>2. loop' # "spin" BY <1>4, <2>1
  <2> QED BY <2>1, <2>2, StandsStill
<1>5. CASE \E h \in Heights : Resize(h) BY <1>5, ResizeStep
<1>6. CASE \E n \in Lengths : VisitSubtree(n) BY <1>6, VisitSubtreeStep
<1>7. CASE \E n \in Lengths : ReloadRefs(n) BY <1>7, ReloadRefsStep
<1>8. CASE \E n \in Lengths : \E k \in {"a", "[", "]", "<"} : Rediff(n, k) BY <1>8, RediffStep
<1>9. CASE \E p \in Matches : SearchStart(p) BY <1>9, SearchStartStep
<1>10. CASE \E d \in {"forward", "backward"} : SearchNextKey(d) BY <1>10, SearchNextKeyStep
<1>11. CASE BlameThread
  <2>1. /\ UNCHANGED <<kind, height, len, top, sel, entry, parents, found, oddities>>
        /\ loop' = loop
    BY <1>11 DEF BlameThread, BlameEnds, Annotate
  <2>2. loop' \in {"join", "back"} => kind = "blame" /\ (loop' = "back" => parents' # <<>>)
    BY <2>1 DEF ListOpen, LoopOK
  <2> QED BY <2>1, <2>2, StandsStill
<1>12. CASE BlameAgain BY <1>12, RunBlameStep DEF BlameAgain
<1> QED BY <1>1, <1>2, <1>3, <1>4, <1>5, <1>6, <1>7, <1>8, <1>9, <1>10, <1>11, <1>12
        DEF ListNext, ListUser, MoveKeys

(* Every step of tog.                                                         *)
LEMMA ListInvStep == ListInv /\ [Next]_vars => ListInv'
<1> SUFFICES ASSUME ListInv, [Next]_vars PROVE ListInv'
  OBVIOUS
<1>1. CASE UNCHANGED listVars
  <2>1. CASE ListIdle BY <1>1, <2>1 DEF ListIdle, listVars, ListInv
  <2>2. CASE ListOpen
    <3>1. /\ UNCHANGED <<kind, height, len, top, sel, entry, parents, found, oddities>>
          /\ loop' = loop
      BY <1>1 DEF listVars
    <3>2. loop' \in {"join", "back"} => kind = "blame" /\ (loop' = "back" => parents' # <<>>)
      BY <2>2, <3>1 DEF ListOpen, LoopOK
    <3> QED BY <2>2, <3>1, <3>2, StandsStill DEF ListInv
  <2> QED BY <2>1, <2>2 DEF ListInv
<1>2. CASE ListNext
  <2>1. ~ListIdle
    BY <1>2 DEF ListNext, ListUser, BlameThread, BlameAgain, Move, LeaveSubtree, QuitList, BlameOther,
                Resize, VisitSubtree, ReloadRefs, Rediff, SearchStart, SearchNextKey, BlameEnds,
                Annotate, RunBlame, ListKey, ListIdle
  <2> QED BY <1>2, <2>1, ListNextStep DEF ListInv
<1> QED BY <1>1, <1>2 DEF Next, vars

(* What the invariant says.                                                   *)
LEMMA ListInvSays == ListInv => SelectionExists /\ SearchTerminates
<1>1. ASSUME ListIdle PROVE SelectionExists /\ SearchTerminates
  <2>1. kind = "diff" /\ len = 0 /\ top.first = 1 /\ loop = "quit" BY <1>1 DEF ListIdle
  <2>2. top.first \in 1..Offsets BY <2>1 DEF Offsets
  <2>3. SelectionExists BY <2>1, <2>2, Zenon DEF SelectionExists
  <2>4. loop # "spin" BY <2>1
  <2> QED BY <2>3, <2>4, Zenon DEF SearchTerminates
<1>2. ASSUME ListOpen PROVE SelectionExists /\ SearchTerminates
  <2>1. SearchTerminates
    <3>1. ~Stale(oddities) => loop # "spin" BY <1>2 DEF ListOpen, SearchOK
    <3> QED BY <3>1, Zenon DEF SearchTerminates, Stale
  <2>2. ASSUME oddities \cap {"past the end", "row is gone"} = {}
        PROVE  CASE kind = "diff" -> top.first \in 1..Offsets
                 [] kind = "blame" -> /\ top.first + sel - 1 \in 1..len
                                      /\ sel \in 1..(height - 2)
                 [] OTHER -> sel < top.shown /\ entry = top.first + sel
    <3>1. ~Past(oddities) /\ ~Gone(oddities) BY <2>2, Zenon DEF Past, Gone
    <3>2. kind \in {"diff", "blame", "tree", "ref"} BY <1>2 DEF ListOpen
    <3>3. /\ len \in Nat /\ height \in Nat /\ top.first \in Nat /\ sel \in Nat
          /\ (kind # "tree" => top.first # 0)
          /\ kind \in {"tree", "ref"} => top.shown = Rows(top.first, len, height)
          /\ Fits(top.first, sel, len, height, oddities)
      BY <1>2, DrawnIs
    <3>4. CASE kind = "diff"
      <4>1. top.first \in 1..Offsets BY <3>3, <3>4 DEF Fits, Offsets
      <4> QED BY <3>4, <4>1
    <3>5. CASE kind = "blame"
      <4>1. top.first + sel - 1 \in 1..len /\ sel \in 1..(height - 2)
        BY <3>1, <3>3, <3>5 DEF Fits
      <4> QED BY <3>5, <4>1
    <3>6. CASE kind \in {"tree", "ref"}
      <4>1. sel < top.shown BY <3>1, <3>3, <3>6 DEF Fits
      <4>2. entry = top.first + sel BY <1>2, <3>1, <3>6 DEF ListOpen, Positioned
      <4> QED BY <3>6, <4>1, <4>2
    <3> QED BY <3>2, <3>4, <3>5, <3>6
  <2>3. SelectionExists BY <2>2, Zenon DEF SelectionExists
  <2> QED BY <2>1, <2>3
<1> QED BY <1>1, <1>2 DEF ListInv

-----------------------------------------------------------------------------
(* The display of the log view.                                               *)
LogView == [nlines : Nat, first : Nat, last : Nat, entry : Nat, row : Int]

(* The selected commit is the one in the selected row, on the screen.         *)
Highlighted(v) ==
    v.first # 0 => /\ v.row >= 0 /\ v.row <= v.nlines - 2
                   /\ v.entry = v.first + v.row /\ v.entry <= ncommits

(* The screen is full of commits.                                             *)
Full(v) == v.first # 0 /\ v.first + v.nlines - 2 <= ncommits

(* What draw_commits draws last.                                              *)
Bottom(v) == IF v.first = 0 THEN 0 ELSE Smaller(ncommits, v.first + v.nlines - 2)

GoodView(v) ==
    /\ v \in LogView /\ v.nlines >= 2 /\ v.first # 0 /\ Highlighted(v)
    /\ Full(v) \/ v.first = 1

(* From v the selection has moved to w.                                       *)
Moved(v, w) == GoodView(w) /\ w.nlines = v.nlines /\ (Full(v) => Full(w))

(* Fields of the log view.                                                    *)
LEMMA ViewFields ==
    ASSUME NEW v \in LogView
    PROVE  /\ v.nlines \in Nat /\ v.first \in Nat /\ v.last \in Nat /\ v.entry \in Nat /\ v.row \in Int
           /\ v = [nlines |-> v.nlines, first |-> v.first, last |-> v.last, entry |-> v.entry,
                   row |-> v.row]
  BY DEF LogView

(* A log view made from its fields.                                           *)
LEMMA ViewBy ==
    ASSUME NEW n \in Nat, NEW f \in Nat, NEW l \in Nat, NEW e \in Nat, NEW r \in Int, NEW v,
           v = [nlines |-> n, first |-> f, last |-> l, entry |-> e, row |-> r]
    PROVE  /\ v \in LogView /\ v.nlines = n /\ v.first = f /\ v.last = l /\ v.entry = e /\ v.row = r
  BY DEF LogView

(* draw_commits.                                                              *)
LEMMA DrawCommitsIs ==
    ASSUME ncommits \in Nat, NEW v \in LogView, v.nlines >= 2, NEW w, w = DrawCommits(v)
    PROVE  /\ w \in LogView /\ w.nlines = v.nlines /\ w.first = v.first /\ w.entry = v.entry
           /\ w.row = v.row /\ w.last = Bottom(v)
<1>1. Bottom(v) \in Nat BY ViewFields DEF Bottom, Smaller
<1>2. w = [v EXCEPT !.last = Bottom(v)] BY DEF DrawCommits, Bottom
<1>3. w = [nlines |-> v.nlines, first |-> v.first, last |-> Bottom(v), entry |-> v.entry,
           row |-> v.row]
  BY <1>2, ViewFields
<1> HIDE DEF Bottom
<1> QED BY <1>1, <1>3, ViewFields, ViewBy

(* select_commit, in a row on the screen.                                     *)
LEMMA SelectCommitIs ==
    ASSUME ncommits \in Nat, NEW v \in LogView, v.first # 0, v.row >= 0, v.first + v.row <= ncommits,
           NEW w, w = SelectCommit(v)
    PROVE  /\ w \in LogView /\ w.nlines = v.nlines /\ w.first = v.first /\ w.last = v.last
           /\ w.row = v.row /\ w.entry = v.first + v.row
<1>1. v.first + v.row \in Nat BY ViewFields
<1>2. w = [v EXCEPT !.entry = v.first + v.row] BY DEF SelectCommit
<1>3. w = [nlines |-> v.nlines, first |-> v.first, last |-> v.last, entry |-> v.first + v.row,
           row |-> v.row]
  BY <1>2, ViewFields
<1> QED BY <1>1, <1>3, ViewFields, ViewBy

(* A view with another row, or scrolled.                                      *)
LEMMA RowIs ==
    ASSUME NEW v \in LogView, NEW r \in Int, NEW w, w = [v EXCEPT !.row = r]
    PROVE  /\ w \in LogView /\ w.nlines = v.nlines /\ w.first = v.first /\ w.last = v.last
           /\ w.entry = v.entry /\ w.row = r
<1>1. w = [nlines |-> v.nlines, first |-> v.first, last |-> v.last, entry |-> v.entry, row |-> r]
  BY ViewFields
<1> QED BY <1>1, ViewFields, ViewBy

(* log_scroll_up.                                                             *)
LEMMA ScrollUpIs ==
    ASSUME NEW v \in LogView, v.first # 0, NEW max \in Nat, max >= 1, NEW w, w = LogScrollUp(v, max)
    PROVE  /\ w \in LogView /\ w.nlines = v.nlines /\ w.last = v.last /\ w.row = v.row
           /\ w.first # 0 /\ w.first <= v.first
<1> DEFINE f == IF v.first > max THEN v.first - max ELSE 1
<1>1. f \in Nat /\ f # 0 /\ f <= v.first BY ViewFields
<1>2. w = [v EXCEPT !.first = f] BY DEF LogScrollUp
<1> HIDE DEF f
<1>3. w = [nlines |-> v.nlines, first |-> f, last |-> v.last, entry |-> v.entry, row |-> v.row]
  BY <1>2, ViewFields
<1> QED BY <1>1, <1>3, ViewFields, ViewBy

(* From a drawn view the scrolled one is full if there is anything to scroll. *)
LEMMA ScrollDownIs ==
    ASSUME ncommits \in Nat, NEW v, GoodView(v), v.last = Bottom(v), NEW max \in Nat, NEW w,
           w = LogScrollDown(v, max)
    PROVE  /\ w \in LogView /\ w.nlines = v.nlines /\ w.row = v.row /\ w.first >= v.first
           /\ w.last = Bottom(w) /\ w.first + w.row <= ncommits
           /\ Full(v) => Full(w)
           /\ Full(w) \/ w.first = 1
<1> DEFINE by == Smaller(max, ncommits - v.last)
<1>1. /\ v \in LogView /\ v.nlines \in Nat /\ v.first \in Nat /\ v.last \in Nat /\ v.row \in Int
      /\ v.nlines >= 2 /\ v.first # 0 /\ v.row >= 0 /\ v.row <= v.nlines - 2
      /\ v.first + v.row <= ncommits
  BY ViewFields DEF GoodView, Highlighted
<1>2. v.last = Smaller(ncommits, v.first + v.nlines - 2) BY <1>1 DEF Bottom
<1>3. by \in Nat /\ by <= ncommits - v.last BY <1>1, <1>2 DEF Smaller
<1> DEFINE f == v.first + by
           l == v.last + by
<1>4. w = [v EXCEPT !.last = l, !.first = f] BY DEF LogScrollDown
<1> HIDE DEF by
<1>5. f \in Nat /\ l \in Nat BY <1>1, <1>3
<1>6. /\ w \in LogView /\ w.nlines = v.nlines /\ w.first = v.first + by /\ w.last = v.last + by
      /\ w.row = v.row
  <2> DEFINE x == [v EXCEPT !.last = l]
  <2> HIDE DEF f, l
  <2>1. w = [x EXCEPT !.first = f] BY <1>4
  <2>2. x = [nlines |-> v.nlines, first |-> v.first, last |-> l, entry |-> v.entry, row |-> v.row]
    BY <1>1, ViewFields
  <2> HIDE DEF x
  <2>3. w = [nlines |-> v.nlines, first |-> f, last |-> l, entry |-> v.entry, row |-> v.row]
    BY <2>1, <2>2
  <2>4. v.entry \in Nat BY <1>1, ViewFields
  <2>5. /\ w \in LogView /\ w.nlines = v.nlines /\ w.first = f /\ w.last = l /\ w.row = v.row
    BY <1>1, <1>5, <2>3, <2>4 DEF LogView
  <2> QED BY <2>5 DEF f, l
<1> HIDE DEF f, l
<1>7. CASE Full(v)
  <2>1. v.last = v.first + v.nlines - 2 BY <1>1, <1>2, <1>7 DEF Full, Smaller
  <2>2. Full(w) BY <1>1, <1>3, <1>6, <2>1 DEF Full
  <2>3. w.last = Bottom(w) BY <1>1, <1>3, <1>6, <2>1 DEF Bottom, Smaller
  <2> QED BY <1>1, <1>3, <1>6, <1>7, <2>1, <2>2, <2>3
<1>8. CASE ~Full(v)
  <2>1. v.last = ncommits BY <1>1, <1>2, <1>8 DEF Full, Smaller
  <2>2. by = 0 BY <1>3, <2>1
  <2>3. w.first = 1
    <3>1. v.first = 1 BY <1>8 DEF GoodView
    <3> QED BY <1>6, <2>2, <3>1
  <2>4. w.last = Bottom(w) BY <1>1, <1>2, <1>6, <2>2 DEF Bottom
  <2> QED BY <1>1, <1>6, <1>8, <2>2, <2>3, <2>4
<1> QED BY <1>7, <1>8

(* Once the row is chosen, select_commit makes a view a good one.             *)
LEMMA SelectMoves ==
    ASSUME ncommits \in Nat, NEW v, GoodView(v), NEW u \in LogView, u.nlines = v.nlines,
           u.first # 0, u.row >= 0, u.row <= u.nlines - 2, u.first + u.row <= ncommits,
           Full(u) \/ u.first = 1, Full(v) => Full(u), NEW w, w = SelectCommit(u)
    PROVE  Moved(v, w) /\ (u.last = Bottom(u) => w.last = Bottom(w))
<1>1. /\ w \in LogView /\ w.nlines = u.nlines /\ w.first = u.first /\ w.last = u.last
      /\ w.row = u.row /\ w.entry = u.first + u.row
  BY SelectCommitIs
<1>2. (Full(w) <=> Full(u)) /\ Bottom(w) = Bottom(u) BY <1>1 DEF Full, Bottom
<1>3. Highlighted(w) BY <1>1 DEF Highlighted
<1>4. GoodView(w) BY <1>1, <1>2, <1>3 DEF GoodView
<1> QED BY <1>1, <1>2, <1>4 DEF Moved

(* What is known of a view with a selection on display.                       *)
LEMMA GoodFields ==
    ASSUME NEW v, GoodView(v)
    PROVE  /\ v \in LogView /\ v.nlines \in Nat /\ v.first \in Nat /\ v.last \in Nat /\ v.row \in Int
           /\ v.nlines >= 2 /\ v.first # 0 /\ v.row >= 0 /\ v.row <= v.nlines - 2
           /\ v.first + v.row <= ncommits /\ v.entry = v.first + v.row
           /\ Full(v) \/ v.first = 1
  BY ViewFields DEF GoodView, Highlighted

(* Keys k and up.                                                             *)
LEMMA LogUpMoves ==
    ASSUME ncommits \in Nat, NEW v, GoodView(v)
    PROVE  Moved(v, LogUp(v))
<1>1. /\ v \in LogView /\ v.nlines \in Nat /\ v.first \in Nat /\ v.last \in Nat /\ v.row \in Int
      /\ v.nlines >= 2 /\ v.first # 0 /\ v.row >= 0 /\ v.row <= v.nlines - 2
      /\ v.first + v.row <= ncommits /\ (Full(v) \/ v.first = 1)
  BY GoodFields
<1>2. CASE v.row > 0
  <2> DEFINE u == [v EXCEPT !.row = @ - 1]
  <2>1. u = [v EXCEPT !.row = v.row - 1] /\ v.row - 1 \in Int BY <1>1
  <2>2. LogUp(v) = SelectCommit(u) BY <1>2 DEF LogUp
  <2> HIDE DEF u
  <2>3. /\ u \in LogView /\ u.nlines = v.nlines /\ u.first = v.first /\ u.row = v.row - 1
    BY <1>1, <2>1, RowIs
  <2>4. Full(u) <=> Full(v) BY <2>3 DEF Full
  <2>5. u.row >= 0 /\ u.row <= u.nlines - 2 /\ u.first + u.row <= ncommits BY <1>1, <1>2, <2>3
  <2> QED BY <1>1, <2>2, <2>3, <2>4, <2>5, SelectMoves
<1>3. CASE ~(v.row > 0)
  <2> DEFINE u == LogScrollUp(v, 1)
  <2>1. LogUp(v) = SelectCommit(u) BY <1>3 DEF LogUp
  <2>2. u = LogScrollUp(v, 1) /\ 1 \in Nat /\ 1 >= 1 OBVIOUS
  <2> HIDE DEF u
  <2>3. /\ u \in LogView /\ u.nlines = v.nlines /\ u.row = v.row /\ u.first # 0 /\ u.first <= v.first
    BY <1>1, <2>2, ScrollUpIs
  <2>4. u.first \in Nat BY <2>3, ViewFields
  <2>5. (Full(v) => Full(u)) /\ (Full(u) \/ u.first = 1) BY <1>1, <2>3, <2>4 DEF Full
  <2>6. u.row >= 0 /\ u.row <= u.nlines - 2 /\ u.first + u.row <= ncommits BY <1>1, <2>3, <2>4
  <2> QED BY <2>1, <2>3, <2>5, <2>6, SelectMoves
<1> QED BY <1>2, <1>3

(* Page Up.                                                                   *)
LEMMA LogPageUpMoves ==
    ASSUME ncommits \in Nat, NEW v, GoodView(v)
    PROVE  Moved(v, LogPageUp(v))
<1>1. /\ v \in LogView /\ v.nlines \in Nat /\ v.first \in Nat /\ v.last \in Nat /\ v.row \in Int
      /\ v.nlines >= 2 /\ v.first # 0 /\ v.row >= 0 /\ v.row <= v.nlines - 2
      /\ v.first + v.row <= ncommits /\ (Full(v) \/ v.first = 1)
  BY GoodFields
<1>2. CASE v.first = 1
  <2> DEFINE u == [v EXCEPT !.row = 0]
  <2>1. LogPageUp(v) = SelectCommit(u) BY <1>2 DEF LogPageUp
  <2>2. /\ u \in LogView /\ u.nlines = v.nlines /\ u.first = v.first /\ u.row = 0
    BY <1>1, RowIs
  <2> HIDE DEF u
  <2>4. Full(u) <=> Full(v) BY <2>2 DEF Full
  <2>5. u.row >= 0 /\ u.row <= u.nlines - 2 /\ u.first + u.row <= ncommits BY <1>1, <2>2
  <2> QED BY <1>1, <2>1, <2>2, <2>4, <2>5, SelectMoves
<1>3. CASE v.first # 1
  <2> DEFINE u == LogScrollUp(v, v.nlines - 1)
  <2>1. LogPageUp(v) = SelectCommit(u) BY <1>3 DEF LogPageUp
  <2>2. u = LogScrollUp(v, v.nlines - 1) /\ v.nlines - 1 \in Nat /\ v.nlines - 1 >= 1 BY <1>1
  <2> HIDE DEF u
  <2>3. /\ u \in LogView /\ u.nlines = v.nlines /\ u.row = v.row /\ u.first # 0 /\ u.first <= v.first
    BY <1>1, <2>2, ScrollUpIs
  <2>4. u.first \in Nat BY <2>3, ViewFields
  <2>5. (Full(v) => Full(u)) /\ (Full(u) \/ u.first = 1) BY <1>1, <2>3, <2>4 DEF Full
  <2>6. u.row >= 0 /\ u.row <= u.nlines - 2 /\ u.first + u.row <= ncommits BY <1>1, <2>3, <2>4
  <2> QED BY <2>1, <2>3, <2>5, <2>6, SelectMoves
<1> QED BY <1>2, <1>3

(* log_scroll_down and select_commit, from a drawn view.                      *)
LEMMA ScrollMoves ==
    ASSUME ncommits \in Nat, NEW v, GoodView(v), v.last = Bottom(v), NEW max \in Nat
    PROVE  /\ Moved(v, SelectCommit(LogScrollDown(v, max)))
           /\ SelectCommit(LogScrollDown(v, max)).last = Bottom(SelectCommit(LogScrollDown(v, max)))
<1> DEFINE u == LogScrollDown(v, max)
<1>1. /\ v \in LogView /\ v.nlines \in Nat /\ v.first \in Nat /\ v.last \in Nat /\ v.row \in Int
      /\ v.nlines >= 2 /\ v.first # 0 /\ v.row >= 0 /\ v.row <= v.nlines - 2
  BY GoodFields
<1>2. u = LogScrollDown(v, max) OBVIOUS
<1> HIDE DEF u
<1>3. /\ u \in LogView /\ u.nlines = v.nlines /\ u.row = v.row /\ u.first >= v.first
      /\ u.last = Bottom(u) /\ u.first + u.row <= ncommits
      /\ Full(v) => Full(u)
      /\ Full(u) \/ u.first = 1
  BY <1>2, ScrollDownIs
<1>4. u.first # 0 BY <1>1, <1>3, ViewFields
<1>5. u.row >= 0 /\ u.row <= u.nlines - 2 BY <1>1, <1>3
<1> DEFINE w == SelectCommit(u)
<1>6. w = SelectCommit(u) OBVIOUS
<1> HIDE DEF w
<1>7. Moved(v, w) /\ w.last = Bottom(w) BY <1>3, <1>4, <1>5, <1>6, SelectMoves
<1> QED BY <1>2, <1>6, <1>7

(* The last row that has a commit.                                            *)
LEMMA LastRowIs ==
    ASSUME ncommits \in Nat, NEW v \in LogView, v.nlines >= 2, v.first # 0, Full(v) \/ v.first = 1,
           ncommits >= 1
    PROVE  LastRow(v) \in Nat /\ LastRow(v) <= v.nlines - 2 /\ v.first + LastRow(v) <= ncommits
  BY ViewFields DEF LastRow, Smaller, Full

(* Keys j and down.                                                           *)
LEMMA LogDownMoves ==
    ASSUME ncommits \in Nat, NEW v, GoodView(v), v.last = Bottom(v)
    PROVE  Moved(v, LogDown(v)) /\ LogDown(v).last = Bottom(LogDown(v))
<1>1. /\ v \in LogView /\ v.nlines \in Nat /\ v.first \in Nat /\ v.last \in Nat /\ v.row \in Int
      /\ v.nlines >= 2 /\ v.first # 0 /\ v.row >= 0 /\ v.row <= v.nlines - 2
      /\ v.first + v.row <= ncommits /\ (Full(v) \/ v.first = 1)
  BY GoodFields
<1>2. CASE v.row < LastRow(v)
  <2> DEFINE u == [v EXCEPT !.row = @ + 1]
             w == SelectCommit(u)
  <2>1. u = [v EXCEPT !.row = v.row + 1] /\ v.row + 1 \in Int BY <1>1
  <2>2. LogDown(v) = w BY <1>2 DEF LogDown
  <2>w. w = SelectCommit(u) OBVIOUS
  <2> HIDE DEF u, w
  <2>3. /\ u \in LogView /\ u.nlines = v.nlines /\ u.first = v.first /\ u.row = v.row + 1
        /\ u.last = v.last
    BY <1>1, <2>1, RowIs
  <2>4. (Full(u) <=> Full(v)) /\ u.last = Bottom(u) BY <2>3 DEF Full, Bottom
  <2>5. ncommits >= 1 BY <1>1
  <2>6. LastRow(v) \in Nat /\ LastRow(v) <= v.nlines - 2 /\ v.first + LastRow(v) <= ncommits
    BY <1>1, <2>5, LastRowIs
  <2>7. u.row >= 0 /\ u.row <= u.nlines - 2 /\ u.first + u.row <= ncommits
    BY <1>1, <1>2, <2>3, <2>6
  <2>8. Moved(v, w) /\ w.last = Bottom(w) BY <1>1, <2>3, <2>4, <2>7, <2>w, SelectMoves
  <2> QED BY <2>2, <2>8
<1>3. CASE ~(v.row < LastRow(v))
  <2>1. LogDown(v) = SelectCommit(LogScrollDown(v, 1)) BY <1>3 DEF LogDown
  <2>2. 1 \in Nat OBVIOUS
  <2> QED BY <2>1, <2>2, ScrollMoves
<1> QED BY <1>2, <1>3

(* Page Down.                                                                 *)
LEMMA LogPageDownMoves ==
    ASSUME ncommits \in Nat, NEW v, GoodView(v), v.last = Bottom(v)
    PROVE  Moved(v, LogPageDown(v))
<1> DEFINE s == LogScrollDown(v, v.nlines - 1)
           u == [s EXCEPT !.row = LastRow(s)]
<1>1. /\ v \in LogView /\ v.nlines \in Nat /\ v.first \in Nat /\ v.last \in Nat /\ v.row \in Int
      /\ v.nlines >= 2 /\ v.first # 0 /\ v.row >= 0 /\ v.row <= v.nlines - 2
      /\ v.first + v.row <= ncommits /\ (Full(v) \/ v.first = 1)
  BY GoodFields
<1>2. LogPageDown(v) = SelectCommit(IF s.first = v.first /\ s.row < LastRow(s) THEN u ELSE s)
  BY DEF LogPageDown
<1>3. s = LogScrollDown(v, v.nlines - 1) /\ v.nlines - 1 \in Nat BY <1>1
<1>4. u = [s EXCEPT !.row = LastRow(s)] OBVIOUS
<1> HIDE DEF s, u
<1>5. CASE s.first = v.first /\ s.row < LastRow(s)
  <2>1. /\ s \in LogView /\ s.nlines = v.nlines /\ s.row = v.row /\ s.first >= v.first
        /\ Full(v) => Full(s)
        /\ Full(s) \/ s.first = 1
    BY <1>3, ScrollDownIs
  <2>2. s.first # 0 /\ ncommits >= 1 BY <1>1, <1>5
  <2>3. LastRow(s) \in Nat /\ LastRow(s) <= s.nlines - 2 /\ s.first + LastRow(s) <= ncommits
    BY <1>1, <2>1, <2>2, LastRowIs
  <2>4. /\ u \in LogView /\ u.nlines = s.nlines /\ u.first = s.first /\ u.row = LastRow(s)
    BY <1>4, <2>1, <2>3, RowIs
  <2>5. Full(u) <=> Full(s) BY <2>4 DEF Full
  <2>6. LogPageDown(v) = SelectCommit(u) BY <1>2, <1>5
  <2>7. u.row >= 0 BY <2>3, <2>4
  <2> QED BY <2>1, <2>2, <2>3, <2>4, <2>5, <2>6, <2>7, SelectMoves
<1>6. CASE ~(s.first = v.first /\ s.row < LastRow(s))
  <2>1. LogPageDown(v) = SelectCommit(LogScrollDown(v, v.nlines - 1)) BY <1>2, <1>3, <1>6
  <2> QED BY <1>3, <2>1, ScrollMoves
<1> QED BY <1>5, <1>6

(* Applying a function step by step.                                          *)
Iterates(f, st, v, k) == \A i \in 0..k : f[i] = IF i = 0 THEN v ELSE st[f[i - 1]]

(* A step can be made k times in a row: the least k for which it could not    *)
(* would have one before it for which it could.                               *)
LEMMA Iterate ==
    ASSUME NEW S, NEW st \in [S -> S], NEW v \in S, NEW K \in Nat
    PROVE  \E f \in [0..K -> S] : Iterates(f, st, v, K)
<1> DEFINE Runs(k) == \E f \in [0..k -> S] :
                          \A i \in 0..k : f[i] = IF i = 0 THEN v ELSE st[f[i - 1]]
           T == {k \in Nat : ~Runs(k)}
<1>1. Runs(0)
  <2> DEFINE f == [i \in 0..0 |-> v]
  <2>1. f \in [0..0 -> S] OBVIOUS
  <2>2. \A i \in 0..0 : f[i] = IF i = 0 THEN v ELSE st[f[i - 1]] OBVIOUS
  <2> QED BY <2>1, <2>2
<1>2. ASSUME NEW k \in Nat, Runs(k) PROVE Runs(k + 1)
  <2>1. PICK g \in [0..k -> S] : \A i \in 0..k : g[i] = IF i = 0 THEN v ELSE st[g[i - 1]]
    BY <1>2
  <2> DEFINE f == [i \in 0..(k + 1) |-> IF i = k + 1 THEN st[g[k]] ELSE g[i]]
  <2>2. g[k] \in S /\ st[g[k]] \in S BY <2>1
  <2>3. f \in [0..(k + 1) -> S] BY <2>1, <2>2
  <2>4. \A i \in 0..(k + 1) : f[i] = IF i = 0 THEN v ELSE st[f[i - 1]]
    <3> SUFFICES ASSUME NEW i \in 0..(k + 1) PROVE f[i] = IF i = 0 THEN v ELSE st[f[i - 1]]
      OBVIOUS
    <3>1. CASE i = k + 1
      <4>1. f[i] = st[g[k]] /\ i # 0 /\ i - 1 = k /\ f[k] = g[k] BY <3>1
      <4> QED BY <4>1
    <3>2. CASE i # k + 1 /\ i # 0
      <4>1. i \in 0..k /\ i - 1 \in 0..(k + 1) /\ i - 1 # k + 1 BY <3>2
      <4>2. f[i] = g[i] /\ f[i - 1] = g[i - 1] BY <3>2, <4>1
      <4> QED BY <2>1, <3>2, <4>1, <4>2
    <3>3. CASE i = 0
      <4>1. 0 \in 0..k /\ 0 # k + 1 OBVIOUS
      <4>2. f[0] = g[0] BY <3>3, <4>1
      <4> QED BY <2>1, <3>3, <4>1, <4>2
    <3> QED BY <3>1, <3>2, <3>3
  <2> HIDE DEF f
  <2> QED BY <2>3, <2>4
<1> HIDE DEF Runs
<1>3. T = {}
  <2> SUFFICES ASSUME T # {} PROVE FALSE
    OBVIOUS
  <2>1. PICK x \in T : \A y \in T : x =< y
    <3>1. T \subseteq Nat OBVIOUS
    <3> HIDE DEF T
    <3> QED BY <3>1, NatMin
  <2>2. x \in Nat /\ ~Runs(x) /\ x # 0 BY <1>1
  <2>3. x - 1 \in Nat /\ x - 1 \notin T BY <2>1, <2>2
  <2>4. Runs(x - 1) BY <2>3
  <2>5. Runs((x - 1) + 1) BY <1>2, <2>3, <2>4
  <2>6. (x - 1) + 1 = x BY <2>2
  <2> QED BY <2>2, <2>5, <2>6
<1>4. Runs(K) BY <1>3
<1> QED BY <1>4 DEF Runs, Iterates

(* The selection after a search.                                              *)
LEMMA MoveToMoves ==
    ASSUME ncommits \in Nat, NEW v, GoodView(v), v.last = Bottom(v), NEW m \in Nat
    PROVE  Moved(v, MoveTo(v, m))
<1> DEFINE K == m + v.entry
           n == IF v.entry < m THEN m - v.entry ELSE v.entry - m
           S == {w \in LogView : Moved(v, w) /\ (v.entry < m => w.last = Bottom(w))}
           Step(w) == IF v.entry < m THEN LogDown(w) ELSE LogUp(w)
           Def(f) == f = [i \in 0..K |-> IF i = 0 THEN v
                                         ELSE IF v.entry < m THEN LogDown(f[i - 1])
                                         ELSE LogUp(f[i - 1])]
           d == CHOOSE f : Def(f)
<1>1. v \in LogView /\ v.entry \in Nat BY GoodFields, ViewFields
<1>2. K \in Nat /\ n \in 0..K BY <1>1
<1>3. MoveTo(v, m) = d[n] BY Zenon DEF MoveTo
<1>4. v \in S BY <1>1 DEF Moved
<1>5. \A w \in S : Step(w) \in S
  <2> SUFFICES ASSUME NEW w \in S PROVE Step(w) \in S
    OBVIOUS
  <2>1. w \in LogView /\ Moved(v, w) /\ (v.entry < m => w.last = Bottom(w)) OBVIOUS
  <2>2. GoodView(w) BY <2>1 DEF Moved
  <2>3. CASE v.entry < m
    <3>1. Moved(w, LogDown(w)) /\ LogDown(w).last = Bottom(LogDown(w))
      BY <2>1, <2>2, <2>3, LogDownMoves
    <3>2. Moved(v, LogDown(w)) BY <2>1, <3>1 DEF Moved
    <3>3. LogDown(w) \in LogView BY <3>1 DEF Moved, GoodView
    <3> QED BY <2>3, <3>1, <3>2, <3>3
  <2>4. CASE ~(v.entry < m)
    <3>1. Moved(w, LogUp(w)) BY <2>2, LogUpMoves
    <3>2. Moved(v, LogUp(w)) BY <2>1, <3>1 DEF Moved
    <3>3. LogUp(w) \in LogView BY <3>1 DEF Moved, GoodView
    <3> QED BY <2>4, <3>2, <3>3
  <2> QED BY <2>3, <2>4
<1>6. \A w \in S : Moved(v, w) OBVIOUS
<1> HIDE DEF K, n, S
<1>7. \E f : Def(f)
  <2> DEFINE st == [w \in S |-> Step(w)]
  <2>1. st \in [S -> S] BY <1>5
  <2>2. \A w \in S : st[w] = Step(w) OBVIOUS
  <2> HIDE DEF st
  <2>3. PICK f \in [0..K -> S] : Iterates(f, st, v, K) BY <1>2, <1>4, <2>1, Iterate, Zenon
  <2>p. \A i \in 0..K : f[i] = IF i = 0 THEN v ELSE st[f[i - 1]] BY <2>3 DEF Iterates
  <2>4. \A i \in 0..K : i # 0 => f[i - 1] \in S
    <3>1. \A i \in 0..K : i # 0 => i - 1 \in 0..K BY <1>2
    <3> QED BY <2>3, <3>1
  <2>5. \A i \in 0..K : f[i] = IF i = 0 THEN v ELSE Step(f[i - 1])
    <3> HIDE DEF Step
    <3> QED BY <2>2, <2>p, <2>4
  <2>6. f = [i \in 0..K |-> f[i]] BY <2>3
  <2>7. Def(f) BY <2>5, <2>6, Zenon
  <2> QED BY <2>7, Zenon
<1>8. Def(d) BY <1>7, Zenon
<1> HIDE DEF d
<1>9. \A i \in 0..K : d[i] = IF i = 0 THEN v ELSE Step(d[i - 1])
  <2>1. d = [i \in 0..K |-> IF i = 0 THEN v ELSE Step(d[i - 1])] BY <1>8, Zenon
  <2> HIDE DEF Step
  <2> QED BY <2>1
<1> HIDE DEF Step
<1>10. \A i \in 0..K : d[i] \in S
  <2> DEFINE T == {i \in 0..K : d[i] \notin S}
  <2> SUFFICES ASSUME T # {} PROVE FALSE
    OBVIOUS
  <2>1. PICK x \in T : \A y \in T : x =< y
    <3>1. T \subseteq Nat BY <1>2
    <3> HIDE DEF T
    <3> QED BY <3>1, NatMin
  <2>2. x \in 0..K /\ d[x] \notin S OBVIOUS
  <2>3. x # 0 BY <1>4, <1>9, <2>2
  <2>4. x - 1 \in 0..K /\ x - 1 \notin T BY <1>2, <2>1, <2>2, <2>3
  <2>5. d[x - 1] \in S BY <2>4
  <2>6. d[x] = Step(d[x - 1]) BY <1>9, <2>2, <2>3
  <2>7. Step(d[x - 1]) \in S BY <1>5, <2>5
  <2> QED BY <2>2, <2>6, <2>7
<1>11. d[n] \in S BY <1>2, <1>10
<1> QED BY <1>3, <1>6, <1>11

-----------------------------------------------------------------------------
(* The log view and its thread.                                               *)
Ended == log \in {"none", "complete", "exited"}

(* The main thread waits for commits.                                         *)
Waiting == main \in {"trigger", "wait", "woken"}

(* Before the screen is full: the log thread is asked for all that is         *)
(* missing, and has selected the first commit as soon as it reports it.       *)
Filling ==
    /\ Waiting /\ after = "draw" /\ ~complete /\ ~quit /\ ~Searching
    /\ view.first \in {0, 1} /\ view.row = 0 /\ view.entry = view.first
    /\ view.first = 0 => ncommits = 0 \/ (ncommits = 1 /\ log \in {"again", "decrement", "lock"})
    /\ log \in {"queue", "insert", "again", "decrement", "lock"}
    /\ log = "lock" /\ ncommits = 0 => ending
    /\ log \in {"again", "decrement"} => ncommits # 0
    /\ needed + ncommits >= view.nlines
    /\ log = "again" => needed + ncommits >= view.nlines + 1
    /\ log = "decrement" => read + ncommits >= view.nlines + 1

(* All commits fit onto the screen: no more will come.                        *)
Short == view.first \in {0, 1} /\ (view.first = 0 => ncommits = 0)

(* No log thread yet: the view has just been opened or reloaded.              *)
Fresh ==
    /\ main = "show" /\ view.first = 0 /\ view.row = 0 /\ view.entry = 0 /\ ncommits = 0
    /\ needed >= view.nlines /\ ~complete /\ ~quit /\ ~Searching

(* The view is as it was drawn when it is to be scrolled.                     *)
ToScroll == main \in {"getch", "search"} \/ (Waiting /\ after \in {"down", "npage"})

LogTypes ==
    /\ view \in LogView /\ view.nlines >= 2
    /\ ncommits \in Nat /\ needed \in Nat /\ read \in Nat /\ (log = "decrement" => read >= 1)

LogOK ==
    /\ LogTypes /\ Highlighted(view)
    /\ ~Full(view) => IF Ended THEN Short ELSE Filling
    /\ ToScroll => view.last = Bottom(view)
    /\ Waiting /\ after \in {"down", "npage"} => view.first # 0
    /\ main \in {"join", "joining"} => ~Searching
    /\ log = "none" => Fresh

(* A view that has grown may show fewer commits than its selected row.        *)
LogInv == \/ main = "closed" /\ log = "none"
          \/ "grown" \in seen
          \/ LogOK

(* Types of the log view.                                                     *)
LEMMA LogFields ==
    ASSUME LogTypes
    PROVE  /\ view \in LogView /\ view.nlines \in Nat /\ view.first \in Nat /\ view.last \in Nat
           /\ view.entry \in Nat /\ view.row \in Int /\ view.nlines >= 2
           /\ ncommits \in Nat /\ needed \in Nat /\ read \in Nat
  BY ViewFields DEF LogTypes

(* When no commits are missing, the selection is on display.                  *)
LEMMA GoodNow ==
    ASSUME LogOK, view.first # 0, Full(view) \/ Ended
    PROVE  GoodView(view)
<1>1. Full(view) \/ view.first = 1 BY DEF LogOK, Short
<1> QED BY <1>1 DEF LogOK, LogTypes, GoodView

(* Only while the screen fills are commits missing that will come.            *)
LEMMA NotFilling ==
    ASSUME LogOK, ~Waiting \/ after # "draw" \/ needed = 0 \/ complete
    PROVE  Full(view) \/ Ended
<1> SUFFICES ASSUME ~Full(view), ~Ended PROVE FALSE
  OBVIOUS
<1>1. Filling BY DEF LogOK
<1>2. ~(~Waiting \/ after # "draw" \/ complete) BY <1>1 DEF Filling
<1>3. needed = 0 BY <1>2
<1>4. /\ view.nlines \in Nat /\ view.first \in Nat /\ view.nlines >= 2 /\ ncommits \in Nat
  BY LogFields DEF LogOK
<1>5. ncommits >= view.nlines BY <1>1, <1>3, <1>4 DEF Filling
<1>6. view.first = 1 BY <1>1, <1>4, <1>5 DEF Filling
<1>7. Full(view) BY <1>4, <1>5, <1>6 DEF Full
<1> QED BY <1>7

(* A step of the main thread that may change what is on display.              *)
LEMMA ViewNext ==
    ASSUME LogTypes, log # "none", view' \in LogView, view'.nlines >= 2, Highlighted(view'),
           ~Full(view') => /\ Ended /\ view'.first \in {0, 1}
                           /\ view'.first = 0 => ncommits = 0,
           ncommits' = ncommits, needed' \in Nat, read' = read,
           log' = log \/ (log = "wait" /\ log' = "woken"),
           ToScroll' => view'.last = Bottom(view'),
           Waiting' /\ after' \in {"down", "npage"} => view'.first # 0,
           main' \in {"join", "joining"} => ~Searching'
    PROVE  LogOK'
<1>1. LogTypes' BY DEF LogTypes
<1>2. Highlighted(view)' /\ (Full(view)' <=> Full(view')) /\ Bottom(view)' = Bottom(view')
  BY DEF Highlighted, Full, Bottom
<1>3. Ended => Ended' BY DEF Ended
<1>4. ~Full(view)' => Ended' /\ Short' BY <1>2, <1>3 DEF Short
<1>5. log' # "none" BY DEF Ended
<1> QED BY <1>1, <1>2, <1>4, <1>5 DEF LogOK

(* A step while the screen fills.                                             *)
LEMMA FillNext ==
    ASSUME LogTypes', Highlighted(view)', Filling'
    PROVE  LogOK'
<1>1. ~Ended' /\ log' # "none" BY DEF Filling, Ended
<1>2. ~ToScroll' /\ main' \notin {"join", "joining"} /\ after' \notin {"down", "npage"}
  BY DEF Filling, ToScroll, Waiting
<1> QED BY <1>1, <1>2 DEF LogOK

(* A step of the log thread when the screen is full.                          *)
LEMMA FullNext ==
    ASSUME LogOK, Full(view), view' = view, ncommits' \in Nat, ncommits' >= ncommits,
           needed' \in Nat, read' \in Nat, log' = "decrement" => read' >= 1, log' # "none",
           main' = main \/ (main = "wait" /\ main' = "woken"), after' = after,
           Searching' => Searching
    PROVE  LogOK'
<1>0. /\ LogTypes /\ view.nlines \in Nat /\ view.first \in Nat /\ view.nlines >= 2 /\ ncommits \in Nat
      /\ view.entry \in Nat
  BY LogFields DEF LogOK
<1>1. LogTypes' BY <1>0 DEF LogTypes
<1>2. Highlighted(view)' BY <1>0 DEF LogOK, Highlighted
<1>3. Full(view)' BY <1>0 DEF Full
<1>4. Bottom(view)' = Bottom(view) BY <1>0 DEF Full, Bottom, Smaller
<1>5. (ToScroll' <=> ToScroll) /\ (Waiting' <=> Waiting)
      /\ (main' \in {"join", "joining"} => main \in {"join", "joining"})
  BY DEF ToScroll, Waiting
<1>6. ToScroll' => view'.last = Bottom(view)' BY <1>4, <1>5 DEF LogOK
<1>7. Waiting' /\ after' \in {"down", "npage"} => view'.first # 0 BY <1>5 DEF LogOK
<1>8. main' \in {"join", "joining"} => ~Searching' BY <1>5 DEF LogOK
<1> QED BY <1>1, <1>2, <1>3, <1>6, <1>7, <1>8 DEF LogOK

(* Drawing changes nothing but what is drawn.                                 *)
LEMMA Redraw ==
    ASSUME LogOK, view' = DrawCommits(view)
    PROVE  /\ view' \in LogView /\ view'.nlines = view.nlines /\ view'.first = view.first
           /\ view'.entry = view.entry /\ view'.row = view.row /\ view'.last = Bottom(view')
           /\ view'.nlines >= 2 /\ Highlighted(view') /\ (Full(view') <=> Full(view))
<1>1. ncommits \in Nat /\ view \in LogView /\ view.nlines >= 2 BY DEF LogOK, LogTypes
<1>2. /\ view' \in LogView /\ view'.nlines = view.nlines /\ view'.first = view.first
      /\ view'.entry = view.entry /\ view'.row = view.row /\ view'.last = Bottom(view)
  BY <1>1, DrawCommitsIs
<1>3. /\ Bottom(view') = Bottom(view) /\ (Full(view') <=> Full(view))
      /\ (Highlighted(view') <=> Highlighted(view))
  BY <1>2 DEF Bottom, Full, Highlighted
<1> QED BY <1>1, <1>2, <1>3 DEF LogOK

(* The view is shown: the log thread starts, or a key is read.                *)
LEMMA ShowLogStep ==
    ASSUME LogOK, ShowLog
    PROVE  LogOK'
<1>0. /\ main = "show" /\ read' = read /\ ncommits' = ncommits /\ needed' = needed
      /\ complete' = complete /\ quit' = quit /\ search' = search
  BY DEF ShowLog
<1>t. LogTypes /\ needed \in Nat /\ ncommits \in Nat BY DEF LogOK, LogTypes
<1>1. CASE log = "none"
  <2>1. log' = "queue" /\ main' = "trigger" /\ after' = "draw" /\ view' = view
    BY <1>1 DEF ShowLog
  <2>2. Fresh BY <1>1 DEF LogOK
  <2>3. LogTypes' BY <1>0, <1>t, <2>1 DEF LogTypes
  <2>4. Highlighted(view)' BY <2>1, <2>2 DEF Highlighted, Fresh
  <2>5. ~Searching' BY <1>0, <2>2 DEF Searching, Fresh
  <2>6. needed' + ncommits' >= view'.nlines BY <1>0, <1>t, <2>1, <2>2, LogFields DEF Fresh
  <2>7. Filling' BY <1>0, <2>1, <2>2, <2>5, <2>6 DEF Filling, Waiting, Fresh
  <2> QED BY <2>3, <2>4, <2>7, FillNext
<1>2. CASE log # "none"
  <2>1. /\ view' = DrawCommits(view) /\ main' = "getch" /\ log' = log /\ after' = after
    BY <1>2 DEF ShowLog
  <2>2. /\ view' \in LogView /\ view'.nlines >= 2 /\ Highlighted(view') /\ view'.first = view.first
        /\ view'.last = Bottom(view') /\ (Full(view') <=> Full(view))
    BY <2>1, Redraw
  <2>3. Full(view) \/ Ended BY <1>0, NotFilling DEF Waiting
  <2>4. ~Full(view') => /\ Ended /\ view'.first \in {0, 1} /\ (view'.first = 0 => ncommits = 0)
    BY <2>2, <2>3 DEF LogOK, Short
  <2>5. ~Waiting' /\ main' \notin {"join", "joining"} BY <2>1 DEF Waiting
  <2> QED BY <1>0, <1>2, <1>t, <2>1, <2>2, <2>4, <2>5, ViewNext
<1> QED BY <1>1, <1>2

(* Redrawing while the main thread waits, before and after.                   *)
LEMMA RedrawWaiting ==
    ASSUME LogOK, Waiting, Waiting', view' = DrawCommits(view), ncommits' = ncommits,
           needed' = needed, read' = read, complete' = complete, quit' = quit, search' = search,
           after' = after, ending' = ending, log' = log \/ (log = "wait" /\ log' = "woken")
    PROVE  LogOK'
<1>t. LogTypes /\ needed \in Nat /\ ncommits \in Nat BY DEF LogOK, LogTypes
<1>1. /\ view' \in LogView /\ view'.nlines = view.nlines /\ view'.first = view.first
      /\ view'.entry = view.entry /\ view'.row = view.row /\ view'.last = Bottom(view')
      /\ view'.nlines >= 2 /\ Highlighted(view') /\ (Full(view') <=> Full(view))
  BY Redraw
<1>2. CASE Full(view) \/ Ended
  <2>1. ~Full(view') => /\ Ended /\ view'.first \in {0, 1} /\ (view'.first = 0 => ncommits = 0)
    BY <1>1, <1>2 DEF LogOK, Short
  <2>2. log # "none" BY DEF LogOK, Fresh, Waiting
  <2>3. main' \notin {"join", "joining"} BY DEF Waiting
  <2>4. after' \in {"down", "npage"} => view'.first # 0 BY <1>1 DEF LogOK
  <2> QED BY <1>1, <1>t, <2>1, <2>2, <2>3, <2>4, ViewNext
<1>3. CASE ~Full(view) /\ ~Ended
  <2>1. Filling BY <1>3 DEF LogOK
  <2>2. log' = log BY <2>1 DEF Filling
  <2>3. LogTypes' BY <1>1, <1>t, <2>2 DEF LogTypes
  <2>4. Highlighted(view)' BY <1>1 DEF Highlighted
  <2>5. Searching' <=> Searching BY DEF Searching
  <2>6. Filling' BY <1>1, <2>1, <2>2, <2>5 DEF Filling
  <2> QED BY <2>3, <2>4, <2>6, FillNext
<1> QED BY <1>2, <1>3

(* The main thread asks for commits and waits.                                *)
LEMMA TriggerStep ==
    ASSUME LogOK, Trigger
    PROVE  LogOK'
<1>1. /\ main = "trigger" /\ main' = "wait" /\ view' = DrawCommits(view) /\ ncommits' = ncommits
      /\ needed' = needed /\ read' = read /\ complete' = complete /\ quit' = quit
      /\ search' = search /\ after' = after /\ ending' = ending
      /\ log' = (IF log = "wait" THEN "woken" ELSE log)
  BY Zenon DEF Trigger, SignalLogThread
<1>2. Waiting /\ Waiting' BY <1>1 DEF Waiting
<1> QED BY <1>1, <1>2, RedrawWaiting

(* The log thread has signalled a commit.                                     *)
LEMMA CommitLoadedStep ==
    ASSUME LogOK, CommitLoaded
    PROVE  LogOK'
<1>1. /\ main = "woken" /\ main' = "trigger" /\ view' = DrawCommits(view) /\ ncommits' = ncommits
      /\ needed' = needed /\ read' = read /\ complete' = complete /\ quit' = quit
      /\ search' = search /\ after' = after /\ ending' = ending /\ log' = log
  BY DEF CommitLoaded
<1>2. Waiting /\ Waiting' BY <1>1 DEF Waiting
<1> QED BY <1>1, <1>2, RedrawWaiting

(* The selection has moved, or there is nothing to select.                    *)
LEMMA MovedNext ==
    ASSUME LogOK, log # "none", Full(view) \/ Ended,
           view' = view \/ (view.first # 0 /\ Moved(view, view')),
           ncommits' = ncommits, needed' \in Nat, read' = read,
           log' = log \/ (log = "wait" /\ log' = "woken"),
           main' = "show"
    PROVE  LogOK'
<1>t. LogTypes BY DEF LogOK
<1>1. /\ view' \in LogView /\ view'.nlines >= 2 /\ Highlighted(view')
      /\ ~Full(view') => /\ Ended /\ view'.first \in {0, 1} /\ (view'.first = 0 => ncommits = 0)
  <2>1. CASE view' = view BY <2>1 DEF LogOK, LogTypes, Short
  <2>2. CASE view.first # 0 /\ Moved(view, view')
    <3>1. GoodView(view') /\ (Full(view) => Full(view')) BY <2>2 DEF Moved
    <3> QED BY <3>1 DEF GoodView
  <2> QED BY <2>1, <2>2
<1>2. ~ToScroll' /\ ~Waiting' /\ main' \notin {"join", "joining"} BY DEF ToScroll, Waiting
<1> QED BY <1>1, <1>2, <1>t, ViewNext

(* The commits are there: the scrolling that waited for them.                 *)
LEMMA TriggeredStep ==
    ASSUME LogOK, Triggered
    PROVE  LogOK'
<1>1. /\ main = "trigger" /\ (needed = 0 \/ complete) /\ main' = "show"
      /\ ncommits' = ncommits /\ needed' = needed /\ read' = read /\ log' = log
      /\ view' = CASE after = "down" -> SelectCommit(LogScrollDown(view, 1))
                   [] after = "npage" -> LogPageDown(view)
                   [] OTHER -> view
  BY DEF Triggered
<1>2. Waiting BY <1>1 DEF Waiting
<1>3. Full(view) \/ Ended BY <1>1, NotFilling
<1>4. log # "none" BY <1>1 DEF LogOK, Fresh
<1>t. needed \in Nat /\ ncommits \in Nat BY DEF LogOK, LogTypes
<1>5. view' = view \/ (view.first # 0 /\ Moved(view, view'))
  <2>1. CASE after \in {"down", "npage"}
    <3>1. view.first # 0 /\ view.last = Bottom(view) BY <1>2, <2>1 DEF LogOK, ToScroll
    <3>2. GoodView(view) BY <1>3, <3>1, GoodNow
    <3>3. CASE after = "down"
      <4>1. view' = SelectCommit(LogScrollDown(view, 1)) BY <1>1, <3>3
      <4>2. 1 \in Nat OBVIOUS
      <4>3. Moved(view, SelectCommit(LogScrollDown(view, 1)))
        BY <1>t, <3>1, <3>2, <4>2, ScrollMoves
      <4> QED BY <3>1, <4>1, <4>3
    <3>4. CASE after = "npage"
      <4>1. view' = LogPageDown(view) BY <1>1, <3>4
      <4>2. Moved(view, LogPageDown(view)) BY <1>t, <3>1, <3>2, LogPageDownMoves
      <4> QED BY <3>1, <4>1, <4>2
    <3> QED BY <2>1, <3>3, <3>4
  <2>2. CASE after \notin {"down", "npage"} BY <1>1, <2>2
  <2> QED BY <2>1, <2>2
<1> QED BY <1>1, <1>3, <1>4, <1>5, <1>t, MovedNext

(* The next match in the direction of the search.                             *)
LEMMA NearestIs ==
    ASSUME ncommits \in Nat, NEW es, es \subseteq 1..ncommits, es # {}
    PROVE  Nearest(es) \in es
<1> DEFINE Next1(e) == \A o \in es : IF search.dir = "forward" THEN e <= o ELSE e >= o
<1>1. es \subseteq Nat OBVIOUS
<1>2. \E e \in es : Next1(e)
  <2>1. CASE search.dir = "forward"
    <3>1. \E x \in es : \A y \in es : x =< y BY <1>1, NatMin
    <3> QED BY <2>1, <3>1
  <2>2. CASE search.dir # "forward"
    <3> DEFINE back == {ncommits - e : e \in es}
    <3>0. \A e \in es : ncommits - e \in Nat
      <4> SUFFICES ASSUME NEW e \in es PROVE ncommits - e \in Nat
        OBVIOUS
      <4>1. e \in 1..ncommits OBVIOUS
      <4> QED BY <4>1
    <3>1. back \subseteq Nat /\ back # {} BY <3>0
    <3>2. \E x \in back : \A y \in back : x =< y
      <4> HIDE DEF back
      <4> QED BY <3>1, NatMin
    <3>3. PICK e \in es : \A y \in back : ncommits - e =< y BY <3>2
    <3>4. \A o \in es : ncommits - e =< ncommits - o BY <3>3
    <3>5. \A o \in es : e >= o BY <1>1, <3>4
    <3> QED BY <2>2, <3>5
  <2> QED BY <2>1, <2>2
<1>3. Nearest(es) = CHOOSE e \in es : Next1(e) BY Zenon DEF Nearest
<1> HIDE DEF Next1
<1> QED BY <1>2, <1>3, Zenon

(* A search moves the selection to the next match, or goes on.                *)
LEMMA SearchNextStep ==
    ASSUME LogOK, SearchNext
    PROVE  LogOK'
<1> DEFINE m == Nearest(SearchHits)
           v == DrawCommits(view)
<1>1. /\ main = "search" /\ main' = "show" /\ ncommits' = ncommits /\ read' = read
  BY Zenon DEF SearchNext
<1>2. \/ SearchHits # {} /\ view' = MoveTo(v, m) /\ needed' = needed /\ log' = log
      \/ view' = view /\ needed' = needed /\ log' = log
      \/ /\ view' = view /\ needed' = (IF needed < MaxNeeded THEN needed + 1 ELSE needed)
         /\ log' = (IF log = "wait" THEN "woken" ELSE log)
  <2>1. CASE SearchHits # {} BY <2>1, Zenon DEF SearchNext
  <2>2. CASE SearchHits = {} /\ (complete \/ search.dir = "backward")
    BY <2>2, Zenon DEF SearchNext
  <2>3. CASE SearchHits = {} /\ ~(complete \/ search.dir = "backward")
    BY <2>3, Zenon DEF SearchNext, SignalLogThread
  <2> QED BY <2>1, <2>2, <2>3, Zenon
<1>3. Full(view) \/ Ended BY <1>1, NotFilling DEF Waiting
<1>4. log # "none" BY <1>1 DEF LogOK, Fresh
<1>t. needed \in Nat /\ ncommits \in Nat BY DEF LogOK, LogTypes
<1>5. ASSUME SearchHits # {}, view' = MoveTo(v, m)
      PROVE  view.first # 0 /\ Moved(view, view')
  <2>1. SearchHits \subseteq 1..ncommits BY DEF SearchHits, Candidates
  <2>2. m \in 1..ncommits
    <3>1. Nearest(SearchHits) \in SearchHits BY <1>5, <1>t, <2>1, NearestIs
    <3> QED BY <2>1, <3>1
  <2> HIDE DEF m
  <2>3. ncommits # 0 /\ m \in Nat BY <1>t, <2>2
  <2>4. view.first # 0 BY <1>3, <2>3 DEF LogOK, Short, Full
  <2>5. GoodView(view) BY <1>3, <2>4, GoodNow
  <2>6. view \in LogView /\ view.nlines >= 2 BY <2>5 DEF GoodView
  <2>7. v = DrawCommits(view) OBVIOUS
  <2> HIDE DEF v
  <2>8. /\ v \in LogView /\ v.nlines = view.nlines /\ v.first = view.first /\ v.entry = view.entry
        /\ v.row = view.row /\ v.last = Bottom(view)
    BY <1>t, <2>6, <2>7, DrawCommitsIs
  <2>9. /\ (Full(v) <=> Full(view)) /\ Bottom(v) = Bottom(view)
        /\ (Highlighted(v) <=> Highlighted(view))
    BY <2>8 DEF Full, Bottom, Highlighted
  <2>10. GoodView(v) BY <2>5, <2>8, <2>9 DEF GoodView
  <2>11. Moved(v, MoveTo(v, m)) BY <1>t, <2>3, <2>8, <2>9, <2>10, MoveToMoves
  <2> QED BY <1>5, <2>4, <2>8, <2>9, <2>11 DEF Moved
<1> HIDE DEF m, v
<1>6. view' = view \/ (view.first # 0 /\ Moved(view, view')) BY <1>2, <1>5
<1>7. needed' \in Nat /\ (log' = log \/ (log = "wait" /\ log' = "woken")) BY <1>2, <1>t
<1> QED BY <1>1, <1>3, <1>4, <1>6, <1>7, MovedNext

(* Steps that change neither the view nor the queue.                          *)
LEMMA OtherNext ==
    ASSUME LogOK, log # "none", Full(view) \/ Ended, view' = view, ncommits' = ncommits,
           needed' \in Nat, read' = read, log' = log \/ (log = "wait" /\ log' = "woken"),
           ToScroll' => ToScroll,
           Waiting' /\ after' \in {"down", "npage"} => view.first # 0,
           main' \in {"join", "joining"} => ~Searching'
    PROVE  LogOK'
<1>1. LogTypes /\ view \in LogView /\ view.nlines >= 2 /\ Highlighted(view) BY DEF LogOK, LogTypes
<1>2. ~Full(view) => /\ Ended /\ view.first \in {0, 1} /\ (view.first = 0 => ncommits = 0)
  BY DEF LogOK, Short
<1>3. ToScroll' => view'.last = Bottom(view') BY DEF LogOK
<1> QED BY <1>1, <1>2, <1>3, ViewNext

(* The main thread waits for the log thread to end.                           *)
LEMMA JoinStep ==
    ASSUME LogOK, Join
    PROVE  LogOK'
<1>1. /\ main = "join" /\ main' = "joining" /\ view' = view /\ ncommits' = ncommits
      /\ needed' = needed /\ read' = read /\ search' = search /\ log' = log
  BY DEF Join
<1>2. Full(view) \/ Ended BY <1>1, NotFilling DEF Waiting
<1>3. log # "none" BY <1>1 DEF LogOK, Fresh
<1>4. ~ToScroll' /\ ~Waiting' BY <1>1 DEF ToScroll, Waiting
<1>5. ~Searching' BY <1>1 DEF LogOK, Searching
<1>6. needed' \in Nat BY <1>1 DEF LogOK, LogTypes
<1> QED BY <1>1, <1>2, <1>3, <1>4, <1>5, <1>6, OtherNext

(* After a reload there are no commits and no thread.                         *)
LEMMA JoinedStep ==
    ASSUME LogOK, Joined
    PROVE  LogOK' \/ (main' = "closed" /\ log' = "none")
<1>1. main = "joining" /\ log' = "none" /\ read' = read /\ search' = search BY DEF Joined
<1>2. CASE after = "q" \/ "error" \in seen BY <1>1, <1>2 DEF Joined
<1>3. CASE ~(after = "q" \/ "error" \in seen)
  <2>1. /\ main' = "show" /\ ncommits' = 0 /\ needed' = view.nlines
        /\ complete' = FALSE /\ quit' = FALSE
        /\ view' = [view EXCEPT !.first = 0, !.last = 0, !.entry = 0, !.row = 0]
    BY <1>3 DEF Joined
  <2>2. view \in LogView /\ view.nlines >= 2 /\ read \in Nat BY DEF LogOK, LogTypes
  <2>3. /\ view' \in LogView /\ view'.nlines = view.nlines /\ view'.first = 0 /\ view'.entry = 0
        /\ view'.row = 0
    <3>1. view' = [nlines |-> view.nlines, first |-> 0, last |-> 0, entry |-> 0, row |-> 0]
      <4> DEFINE a == [view EXCEPT !.first = 0]
                 b == [a EXCEPT !.last = 0]
                 c == [b EXCEPT !.entry = 0]
      <4>1. a = [nlines |-> view.nlines, first |-> 0, last |-> view.last, entry |-> view.entry,
                 row |-> view.row]
        BY <2>2, ViewFields
      <4>2. view' = [c EXCEPT !.row = 0] BY <2>1
      <4> HIDE DEF a
      <4>3. b = [nlines |-> view.nlines, first |-> 0, last |-> 0, entry |-> view.entry,
                 row |-> view.row]
        BY <4>1
      <4> HIDE DEF b
      <4>4. c = [nlines |-> view.nlines, first |-> 0, last |-> 0, entry |-> 0, row |-> view.row]
        BY <4>3
      <4> HIDE DEF c
      <4> QED BY <4>2, <4>4
    <3>2. view.nlines \in Nat BY <2>2, ViewFields
    <3> QED BY <3>1, <3>2 DEF LogView
  <2>4. ~Searching' BY <1>1 DEF LogOK, Searching
  <2>5. LogTypes' BY <1>1, <2>1, <2>2, <2>3 DEF LogTypes, LogView
  <2>6. Fresh' BY <2>1, <2>2, <2>3, <2>4, ViewFields DEF Fresh
  <2>7. Ended' /\ Short' /\ Highlighted(view)' BY <1>1, <2>1, <2>3 DEF Ended, Short, Highlighted
  <2>8. ~ToScroll' /\ ~Waiting' /\ main' \notin {"join", "joining"}
    BY <2>1 DEF ToScroll, Waiting
  <2> QED BY <2>4, <2>5, <2>6, <2>7, <2>8 DEF LogOK
<1> QED BY <1>2, <1>3

(* A search that is not done goes on instead of reading a key.                *)
LEMMA SearchAgainStep ==
    ASSUME LogOK, SearchAgain
    PROVE  LogOK'
<1>1. /\ main = "getch" /\ main' = "search" /\ view' = view /\ ncommits' = ncommits
      /\ needed' = needed /\ read' = read /\ log' = log
  BY DEF SearchAgain
<1>2. Full(view) \/ Ended BY <1>1, NotFilling DEF Waiting
<1>3. log # "none" BY <1>1 DEF LogOK, Fresh
<1>4. ToScroll /\ ~Waiting' /\ main' \notin {"join", "joining"} BY <1>1 DEF ToScroll, Waiting
<1>6. needed' \in Nat BY <1>1 DEF LogOK, LogTypes
<1> QED BY <1>1, <1>2, <1>3, <1>4, <1>6, OtherNext

(* Backspace ends a search.                                                   *)
LEMMA SearchCancelStep ==
    ASSUME LogOK, SearchCancel
    PROVE  LogOK'
<1>1. /\ main = "search" /\ main' = "show" /\ view' = view /\ ncommits' = ncommits
      /\ needed' = needed /\ read' = read /\ log' = log
  BY DEF SearchCancel
<1>2. Full(view) \/ Ended BY <1>1, NotFilling DEF Waiting
<1>3. log # "none" BY <1>1 DEF LogOK, Fresh
<1>6. needed' \in Nat BY <1>1 DEF LogOK, LogTypes
<1> QED BY <1>1, <1>2, <1>3, <1>6, MovedNext

-----------------------------------------------------------------------------
(* The log thread.                                                            *)

(* While the log thread runs, the screen is full or being filled.             *)
LEMMA FullOrFilling ==
    ASSUME LogOK, log \notin {"none", "complete", "exited"}
    PROVE  Full(view) \/ Filling
  BY DEF LogOK, Ended

(* The log thread gets a commit, the end of the history, or an error.         *)
LEMMA ReadCommitStep ==
    ASSUME LogOK, ReadCommit
    PROVE  LogOK'
<1>1. /\ log = "queue" /\ view' = view /\ ncommits' = ncommits /\ needed' = needed /\ read' = read
      /\ main' = main /\ after' = after /\ search' = search /\ complete' = complete /\ quit' = quit
      /\ \/ log' = "insert" /\ ending' = ending
         \/ log' = "lock" /\ ending' = TRUE
         \/ log' = "exited" /\ ending' = ending
  BY DEF ReadCommit
<1>0. /\ LogTypes /\ view.nlines \in Nat /\ view.first \in Nat /\ view.nlines >= 2 /\ ncommits \in Nat
      /\ needed \in Nat /\ read \in Nat
  BY LogFields DEF LogOK
<1>s. Searching' <=> Searching BY <1>1 DEF Searching
<1>2. CASE Full(view)
  <2>1. ncommits' >= ncommits /\ log' # "none" /\ log' # "decrement" BY <1>0, <1>1
  <2> QED BY <1>0, <1>1, <1>2, <1>s, <2>1, FullNext
<1>3. CASE Filling /\ log' # "exited"
  <2>1. LogTypes' BY <1>0, <1>1 DEF LogTypes
  <2>2. Highlighted(view)' BY <1>1 DEF LogOK, Highlighted
  <2>3. Filling' BY <1>1, <1>3, <1>s DEF Filling, Waiting
  <2> QED BY <2>1, <2>2, <2>3, FillNext
<1>4. CASE Filling /\ log' = "exited"
  <2>1. LogTypes' BY <1>0, <1>1, <1>4 DEF LogTypes
  <2>2. Highlighted(view)' BY <1>1 DEF LogOK, Highlighted
  <2>3. Short' /\ Ended' BY <1>1, <1>4 DEF Filling, Short, Ended
  <2>4. ~ToScroll' /\ main' \notin {"join", "joining"} /\ after' \notin {"down", "npage"}
    BY <1>1, <1>4 DEF Filling, ToScroll, Waiting
  <2> QED BY <1>4, <2>1, <2>2, <2>3, <2>4 DEF LogOK
<1> QED BY <1>1, <1>2, <1>3, <1>4, FullOrFilling

(* The commit is appended to the queue.                                       *)
LEMMA InsertCommitStep ==
    ASSUME LogOK, InsertCommit
    PROVE  LogOK'
<1>1. /\ log = "insert" /\ log' = "again" /\ view' = view /\ ncommits' = ncommits + 1
      /\ needed' = needed /\ read' = read /\ main' = main /\ after' = after
      /\ complete' = complete /\ quit' = quit /\ ending' = ending
      /\ search' = IF search.dir = "forward" /\ search.done = "no" /\ ncommits' \in search.regex
                   THEN [search EXCEPT !.done = "more"] ELSE search
  BY DEF InsertCommit
<1>0. /\ LogTypes /\ view.nlines \in Nat /\ view.first \in Nat /\ view.nlines >= 2 /\ ncommits \in Nat
      /\ needed \in Nat /\ read \in Nat /\ view.entry \in Nat
  BY LogFields DEF LogOK
<1>s. Searching' => Searching
  <2>1. CASE search' = search BY <2>1 DEF Searching
  <2>2. CASE search.dir = "forward" /\ search.done = "no" BY <2>2 DEF Searching
  <2> QED BY <1>1, <2>1, <2>2
<1>2. ncommits' \in Nat /\ ncommits' >= ncommits BY <1>0, <1>1
<1>3. CASE Full(view) BY <1>0, <1>1, <1>2, <1>3, <1>s, FullNext
<1>4. CASE Filling
  <2>1. LogTypes' BY <1>0, <1>1, <1>2 DEF LogTypes
  <2>2. Highlighted(view)' BY <1>0, <1>1 DEF LogOK, Highlighted
  <2>3. ncommits' # 0 /\ (view.first = 0 => ncommits' = 1) BY <1>0, <1>1, <1>4 DEF Filling
  <2>4. /\ needed' + ncommits' >= view'.nlines + 1 /\ needed' + ncommits' >= view'.nlines
    BY <1>0, <1>1, <1>4 DEF Filling
  <2>5. Filling' BY <1>1, <1>4, <1>s, <2>3, <2>4 DEF Filling, Waiting
  <2> QED BY <2>1, <2>2, <2>5, FillNext
<1> QED BY <1>1, <1>3, <1>4, FullOrFilling

(* While the screen is filling, another commit is asked for.                  *)
LEMMA CommitQueuedStep ==
    ASSUME LogOK, CommitQueued
    PROVE  LogOK'
<1>1. /\ log = "again" /\ view' = view /\ ncommits' = ncommits /\ needed' = needed
      /\ main' = main /\ after' = after /\ search' = search /\ complete' = complete /\ quit' = quit
      /\ ending' = ending
      /\ \/ search.dir = "forward" /\ search.done = "no" /\ log' = "queue" /\ read' = read
         \/ needed > 0 /\ log' = "decrement" /\ read' = needed
         \/ ~(needed > 0) /\ log' = "lock" /\ read' = read
  BY DEF CommitQueued
<1>0. /\ LogTypes /\ view.nlines \in Nat /\ view.first \in Nat /\ view.nlines >= 2 /\ ncommits \in Nat
      /\ needed \in Nat /\ read \in Nat
  BY LogFields DEF LogOK
<1>s. (Searching' <=> Searching) /\ (search.dir = "forward" /\ search.done = "no" => Searching)
  BY <1>1 DEF Searching
<1>2. read' \in Nat /\ (log' = "decrement" => read' >= 1) BY <1>0, <1>1
<1>3. CASE Full(view)
  <2>1. ncommits' >= ncommits /\ log' # "none" BY <1>0, <1>1
  <2> QED BY <1>0, <1>1, <1>2, <1>3, <1>s, <2>1, FullNext
<1>4. CASE Filling /\ ~Full(view)
  <2>1. LogTypes' BY <1>0, <1>1, <1>2 DEF LogTypes
  <2>2. Highlighted(view)' BY <1>1 DEF LogOK, Highlighted
  <2>3. needed + ncommits >= view.nlines + 1 /\ ~Searching BY <1>1, <1>4 DEF Filling
  <2>4. needed > 0
    <3>1. CASE view.first = 0
      <4>1. ncommits <= 1 BY <1>4, <3>1 DEF Filling
      <4> QED BY <1>0, <2>3, <4>1
    <3>2. CASE view.first # 0 BY <1>0, <1>4, <2>3, <3>2 DEF Filling, Full
    <3> QED BY <3>1, <3>2
  <2>5. log' = "decrement" /\ read' = needed BY <1>1, <1>s, <2>3, <2>4
  <2>6. Filling' BY <1>1, <1>4, <1>s, <2>3, <2>5 DEF Filling, Waiting
  <2> QED BY <2>1, <2>2, <2>6, FillNext
<1> QED BY <1>1, <1>3, <1>4, FullOrFilling

(* One commit less is needed.                                                 *)
LEMMA DecrementStep ==
    ASSUME LogOK, Decrement
    PROVE  LogOK'
<1>1. /\ log = "decrement" /\ log' = "lock" /\ needed' = read - 1 /\ view' = view
      /\ ncommits' = ncommits /\ read' = read /\ main' = main /\ after' = after
      /\ search' = search /\ complete' = complete /\ quit' = quit /\ ending' = ending
  BY DEF Decrement
<1>0. /\ LogTypes /\ view.nlines \in Nat /\ view.first \in Nat /\ view.nlines >= 2 /\ ncommits \in Nat
      /\ needed \in Nat /\ read \in Nat
  BY LogFields DEF LogOK
<1>s. Searching' <=> Searching BY <1>1 DEF Searching
<1>2. needed' \in Nat BY <1>0, <1>1 DEF LogTypes
<1>3. CASE Full(view)
  <2>1. ncommits' >= ncommits BY <1>0, <1>1
  <2> QED BY <1>0, <1>1, <1>2, <1>3, <1>s, <2>1, FullNext
<1>4. CASE Filling /\ ~Full(view)
  <2>1. LogTypes' BY <1>0, <1>1, <1>2 DEF LogTypes
  <2>2. Highlighted(view)' BY <1>1 DEF LogOK, Highlighted
  <2>3. needed' + ncommits' >= view'.nlines BY <1>0, <1>1, <1>4 DEF Filling
  <2>4. ncommits # 0 BY <1>1, <1>4 DEF Filling
  <2>5. Filling' BY <1>1, <1>4, <1>s, <2>3, <2>4 DEF Filling, Waiting
  <2> QED BY <2>1, <2>2, <2>5, FillNext
<1> QED BY <1>1, <1>3, <1>4, FullOrFilling

(* The first commit is selected when it is reported.                          *)
LEMMA ReportStep ==
    ASSUME LogOK, Report
    PROVE  LogOK'
<1>1. /\ log = "lock" /\ ending' = (ending \/ quit) /\ ncommits' = ncommits /\ read' = read
      /\ after' = after /\ search' = search /\ complete' = complete /\ quit' = quit
      /\ main' = (IF main = "wait" THEN "woken" ELSE main)
      /\ needed' = (IF ending' THEN 0 ELSE needed)
      /\ log' = (IF ending' THEN "complete" ELSE IF needed = 0 THEN "wait" ELSE "queue")
      /\ view' = IF ~quit /\ view.first = 0
                 THEN [view EXCEPT !.first = IF ncommits > 0 THEN 1 ELSE 0,
                                   !.entry = IF ncommits > 0 THEN 1 ELSE 0]
                 ELSE view
  BY DEF Report
<1>0. /\ LogTypes /\ view \in LogView /\ view.nlines \in Nat /\ view.first \in Nat
      /\ view.nlines >= 2 /\ ncommits \in Nat /\ needed \in Nat /\ read \in Nat
  BY LogFields DEF LogOK
<1>s. Searching' <=> Searching BY <1>1 DEF Searching
<1>2. needed' \in Nat /\ log' # "none" /\ log' # "decrement" BY <1>0, <1>1
<1>m. main' = main \/ (main = "wait" /\ main' = "woken") BY <1>1
<1>3. CASE Full(view)
  <2>1. ncommits' >= ncommits BY <1>0, <1>1
  <2>2. view' = view BY <1>1, <1>3 DEF Full
  <2> QED BY <1>0, <1>1, <1>2, <1>3, <1>m, <1>s, <2>1, <2>2, FullNext
<1>4. CASE Filling /\ ~Full(view)
  <2> DEFINE f == IF view.first = 0 THEN (IF ncommits > 0 THEN 1 ELSE 0) ELSE view.first
  <2>1. /\ view' \in LogView /\ view'.nlines = view.nlines /\ view'.first = f /\ view'.entry = f
        /\ view'.row = 0
    <3>q. ~quit /\ view.entry = view.first /\ view.row = 0 BY <1>4 DEF Filling
    <3>1. CASE view.first = 0
      <4> DEFINE g == IF ncommits > 0 THEN 1 ELSE 0
                 a == [view EXCEPT !.first = g]
      <4>1. view' = [a EXCEPT !.entry = g] BY <1>1, <3>1, <3>q
      <4>2. g \in Nat /\ f = g BY <3>1
      <4> HIDE DEF g, f
      <4>3. a = [nlines |-> view.nlines, first |-> g, last |-> view.last, entry |-> view.entry,
                 row |-> view.row]
        BY <1>0, ViewFields
      <4> HIDE DEF a
      <4>4. view' = [nlines |-> view.nlines, first |-> g, last |-> view.last, entry |-> g,
                     row |-> view.row]
        BY <4>1, <4>3
      <4>5. view.last \in Nat BY <1>0, ViewFields
      <4> QED BY <1>0, <3>q, <4>2, <4>4, <4>5 DEF LogView
    <3>2. CASE view.first # 0
      <4>1. view' = view BY <1>1, <3>2
      <4> QED BY <1>0, <3>2, <3>q, <4>1
    <3> QED BY <3>1, <3>2
  <2>2. /\ f \in {0, 1} /\ (f = 0 <=> ncommits = 0)
    <3>1. view.first \in {0, 1} BY <1>4 DEF Filling
    <3>2. view.first # 0 => ncommits # 0 BY <1>0, <1>4 DEF LogOK, Highlighted, Filling
    <3> QED BY <1>0, <3>1, <3>2
  <2> HIDE DEF f
  <2>3. LogTypes' BY <1>0, <1>1, <1>2, <2>1 DEF LogTypes
  <2>4. Highlighted(view)' BY <1>0, <1>1, <2>1, <2>2 DEF Highlighted
  <2>5. Waiting' /\ after' = "draw" /\ ~complete' /\ ~quit' /\ ~Searching'
    BY <1>1, <1>4, <1>s DEF Filling, Waiting
  <2>6. CASE ending'
    <3>1. log' = "complete" BY <1>1, <2>6
    <3>2. Ended' /\ Short' BY <1>1, <2>1, <2>2, <3>1 DEF Ended, Short
    <3>3. ~ToScroll' /\ main' \notin {"join", "joining"} /\ after' \notin {"down", "npage"}
      BY <2>5 DEF ToScroll, Waiting
    <3> QED BY <2>3, <2>4, <3>1, <3>2, <3>3 DEF LogOK
  <2>7. CASE ~ending'
    <3>1. ~ending BY <1>1, <2>7
    <3>2. ncommits # 0 BY <1>1, <1>4, <3>1 DEF Filling
    <3>3. needed + ncommits >= view.nlines BY <1>4 DEF Filling
    <3>4. needed # 0
      <4>1. needed = 0 \/ complete => Full(view) \/ Ended BY NotFilling
      <4>2. ~Ended BY <1>1 DEF Ended
      <4> QED BY <1>4, <4>1, <4>2
    <3>5. log' = "queue" /\ needed' = needed BY <1>1, <2>7, <3>4
    <3>6. Filling'
      BY <1>1, <2>1, <2>2, <2>5, <3>2, <3>3, <3>5 DEF Filling
    <3> QED BY <2>3, <2>4, <3>6, FillNext
  <2> QED BY <2>6, <2>7
<1> QED BY <1>1, <1>3, <1>4, FullOrFilling

(* The log thread is woken; it had filled the screen before it slept.         *)
LEMMA WokenStep ==
    ASSUME LogOK, Woken
    PROVE  LogOK'
<1>1. /\ log = "woken" /\ log' = (IF quit THEN "complete" ELSE "queue") /\ view' = view
      /\ ncommits' = ncommits /\ needed' = needed /\ read' = read /\ main' = main
      /\ after' = after /\ search' = search
  BY DEF Woken
<1>0. LogTypes /\ ncommits \in Nat /\ needed \in Nat /\ read \in Nat BY LogFields DEF LogOK
<1>2. Full(view)
  <2>1. ~Filling BY <1>1 DEF Filling
  <2> QED BY <1>1, <2>1, FullOrFilling
<1>3. ncommits' >= ncommits /\ log' # "none" /\ log' # "decrement" BY <1>0, <1>1
<1>s. Searching' <=> Searching BY <1>1 DEF Searching
<1> QED BY <1>0, <1>1, <1>2, <1>3, <1>s, FullNext

(* The log thread ends: what is on display stays.                             *)
LEMMA LogCompleteStep ==
    ASSUME LogOK, LogComplete
    PROVE  LogOK'
<1>1. /\ log = "complete" /\ log' = "exited" /\ view' = view
      /\ ncommits' = ncommits /\ needed' = needed /\ read' = read /\ main' = main
      /\ after' = after /\ search' = search
  BY DEF LogComplete
<1>0. LogTypes /\ ncommits \in Nat /\ needed \in Nat /\ read \in Nat BY LogFields DEF LogOK
<1>2. LogTypes' BY <1>0, <1>1 DEF LogTypes
<1>3. /\ Highlighted(view)' /\ (Full(view)' <=> Full(view)) /\ Bottom(view)' = Bottom(view)
      /\ (Short' <=> Short)
  BY <1>1 DEF LogOK, Highlighted, Full, Bottom, Short
<1>4. /\ (ToScroll' <=> ToScroll) /\ (Waiting' <=> Waiting) /\ (Searching' <=> Searching)
  BY <1>1 DEF ToScroll, Waiting, Searching
<1>5. Ended /\ Ended' BY <1>1 DEF Ended
<1> QED BY <1>1, <1>2, <1>3, <1>4, <1>5 DEF LogOK

-----------------------------------------------------------------------------
(* The keys.                                                                  *)

(* A key is read from a view that is drawn, by a thread that waits for none.  *)
LEMMA KeyRead ==
    ASSUME LogOK, NEW k, LogKey(k)
    PROVE  /\ main = "getch" /\ ~Searching /\ log # "none" /\ (Full(view) \/ Ended)
           /\ view.last = Bottom(view) /\ ToScroll
           /\ needed \in Nat /\ ncommits \in Nat /\ LogTypes
           /\ view.first # 0 => GoodView(view)
<1>1. main = "getch" /\ ~Searching BY DEF LogKey
<1>2. log # "none" BY <1>1 DEF LogOK, Fresh
<1>3. Full(view) \/ Ended BY <1>1, NotFilling DEF Waiting
<1>4. ToScroll BY <1>1 DEF ToScroll
<1>5. view.last = Bottom(view) /\ LogTypes BY <1>4 DEF LogOK
<1>6. view.first # 0 => GoodView(view) BY <1>3, GoodNow
<1> QED BY <1>1, <1>2, <1>3, <1>4, <1>5, <1>6 DEF LogTypes

(* Up and Page Up.                                                            *)
LEMMA KeyUpStep ==
    ASSUME LogOK, NEW k, NEW moved, KeyUp(k, moved), GoodView(view) => Moved(view, moved)
    PROVE  LogOK'
<1>1. LogKey(k) BY DEF KeyUp
<1>2. /\ view' = (IF view.first = 0 THEN view ELSE moved) /\ main' = "show"
      /\ log' = log /\ read' = read /\ ncommits' = ncommits /\ needed' = needed
  BY Zenon DEF KeyUp
<1>3. /\ log # "none" /\ (Full(view) \/ Ended) /\ needed \in Nat
      /\ (view.first # 0 => GoodView(view))
  BY <1>1, KeyRead
<1>4. view' = view \/ (view.first # 0 /\ Moved(view, view')) BY <1>2, <1>3
<1> QED BY <1>2, <1>3, <1>4, MovedNext

(* What log_scroll_down does: it asks for commits or scrolls.                 *)
LEMMA AskAndScrollStep ==
    ASSUME LogOK, NEW k, LogKey(k), view.first # 0, NEW max \in Nat, NEW then \in {"down", "npage"},
           NEW scrolled, Moved(view, scrolled), AskAndScroll(max, then, scrolled),
           ncommits' = ncommits, read' = read, log' = log
    PROVE  LogOK'
<1>1. /\ main = "getch" /\ log # "none" /\ (Full(view) \/ Ended)
      /\ view.last = Bottom(view) /\ ToScroll /\ needed \in Nat /\ ncommits \in Nat /\ GoodView(view)
  BY KeyRead
<1>2. CASE view.last > 0 /\ ncommits < view.last + max /\ ~complete
  <2>1. needed' = needed + max /\ main' = "trigger" /\ view' = view BY <1>2 DEF AskAndScroll
  <2>2. needed' \in Nat BY <1>1, <2>1
  <2>3. main' \notin {"join", "joining"} BY <2>1
  <2> QED BY <1>1, <2>1, <2>2, <2>3, OtherNext
<1>3. CASE ~(view.last > 0 /\ ncommits < view.last + max /\ ~complete)
  <2>1. /\ view' = (IF view.last = 0 THEN SelectCommit(view) ELSE scrolled)
        /\ main' = "show" /\ needed' = needed
    BY <1>3 DEF AskAndScroll
  <2>2. /\ view \in LogView /\ view.nlines \in Nat /\ view.nlines >= 2 /\ view.first \in Nat
        /\ view.row \in Int /\ view.row >= 0 /\ view.first + view.row <= ncommits
    BY <1>1, ViewFields DEF GoodView, Highlighted
  <2>3. view.last # 0 BY <1>1, <2>2 DEF Bottom, Smaller
  <2>4. Moved(view, view') BY <2>1, <2>3
  <2> QED BY <1>1, <2>1, <2>4, MovedNext
<1> QED BY <1>2, <1>3

(* Down and Page Down.                                                        *)
LEMMA KeyDownStep ==
    ASSUME LogOK, NEW k, KeyDown(k)
    PROVE  LogOK'
<1>1. LogKey(k) BY DEF KeyDown
<1>2. log' = log /\ read' = read /\ ncommits' = ncommits BY Zenon DEF KeyDown
<1>3. /\ log # "none" /\ (Full(view) \/ Ended) /\ needed \in Nat /\ ncommits \in Nat
      /\ view.last = Bottom(view) /\ (view.first # 0 => GoodView(view))
  BY <1>1, KeyRead
<1>4. CASE view.first = 0
  <2>1. main' = "show" /\ view' = view /\ needed' = needed BY <1>4, Zenon DEF KeyDown
  <2> QED BY <1>2, <1>3, <2>1, MovedNext
<1>5. CASE view.first # 0 /\ k = "npage"
  <2>1. AskAndScroll(view.nlines - 1, "npage", LogPageDown(view)) BY <1>5, Zenon DEF KeyDown
  <2>2. Moved(view, LogPageDown(view)) BY <1>3, <1>5, LogPageDownMoves
  <2>3. view.nlines - 1 \in Nat BY <1>3, <1>5, ViewFields DEF GoodView
  <2>4. "npage" \in {"down", "npage"} OBVIOUS
  <2> QED BY <1>1, <1>2, <1>5, <2>1, <2>2, <2>3, <2>4, AskAndScrollStep
<1>6. CASE view.first # 0 /\ k # "npage"
  <2>1. Moved(view, LogDown(view)) BY <1>3, <1>6, LogDownMoves
  <2>2. CASE view.row < LastRow(view)
    <3>1. main' = "show" /\ view' = LogDown(view) /\ needed' = needed
      BY <1>6, <2>2, Zenon DEF KeyDown
    <3> QED BY <1>2, <1>3, <1>6, <2>1, <3>1, MovedNext
  <2>3. CASE ~(view.row < LastRow(view))
    <3>1. AskAndScroll(1, "down", LogDown(view)) BY <1>6, <2>3, Zenon DEF KeyDown
    <3>2. 1 \in Nat /\ "down" \in {"down", "npage"} OBVIOUS
    <3> QED BY <1>1, <1>2, <1>6, <2>1, <3>1, <3>2, AskAndScrollStep
  <2> QED BY <2>2, <2>3
<1> QED BY <1>4, <1>5, <1>6

(* A window that shrinks keeps its first commit; the row is made to fit.      *)
LEMMA KeyResizeStep ==
    ASSUME LogOK, NEW size \in Sizes, KeyResize(size)
    PROVE  LogOK' \/ "grown" \in seen'
<1> DEFINE fit == Smaller(Smaller(view.row, size - 2), ncommits - 1)
           v == [view EXCEPT !.nlines = size, !.row = fit]
<1>1. LogKey("resize") BY DEF KeyResize
<1>2. /\ view' = SelectCommit(v) /\ log' = log /\ read' = read /\ ncommits' = ncommits
      /\ seen' = seen \cup (IF size > view.nlines THEN {"grown"} ELSE {})
  BY Zenon DEF KeyResize
<1>3. /\ log # "none" /\ (Full(view) \/ Ended) /\ needed \in Nat /\ ncommits \in Nat /\ LogTypes
      /\ (view.first # 0 => GoodView(view))
  BY <1>1, KeyRead
<1>4. size \in Nat /\ size >= 2 BY TogLogConstants
<1>5. CASE size > view.nlines BY <1>2, <1>5
<1>6. CASE ~(size > view.nlines)
  <2>0. /\ view \in LogView /\ view.nlines \in Nat /\ view.nlines >= 2 /\ view.first \in Nat
        /\ view.row \in Int /\ view.last \in Nat /\ view.entry \in Nat
    BY <1>3, LogFields
  <2>1. \/ main' = "trigger" /\ after' = "draw" /\ ncommits < size - 1
           /\ needed' = needed + (size - 1) - ncommits
        \/ main' = "show" /\ needed' = needed
    BY Zenon DEF KeyResize
  <2>2. needed' \in Nat BY <1>3, <1>4, <2>1
  <2>3. ~ToScroll' /\ ~(Waiting' /\ after' \in {"down", "npage"}) /\ main' \notin {"join", "joining"}
    BY <2>1 DEF ToScroll, Waiting
  <2>4. fit \in Int BY <1>3, <1>4, <2>0 DEF Smaller
  <2>5. view.first # 0 => fit >= 0 /\ fit <= size - 2 /\ view.first + fit <= ncommits
    BY <1>3, <1>4, <2>0 DEF GoodView, Highlighted, Smaller
  <2> HIDE DEF fit
  <2>6. /\ v \in LogView /\ v.nlines = size /\ v.first = view.first /\ v.row = fit
        /\ v.entry = view.entry
    <3> DEFINE a == [view EXCEPT !.nlines = size]
    <3>1. a = [nlines |-> size, first |-> view.first, last |-> view.last, entry |-> view.entry,
               row |-> view.row]
      BY <2>0, ViewFields
    <3>2. v = [a EXCEPT !.row = fit] OBVIOUS
    <3> HIDE DEF a
    <3>3. v = [nlines |-> size, first |-> view.first, last |-> view.last, entry |-> view.entry,
               row |-> fit]
      BY <3>1, <3>2
    <3> HIDE DEF v
    <3> QED BY <1>4, <2>0, <2>4, <3>3, ViewBy
  <2> HIDE DEF v
  <2>7. /\ view' \in LogView /\ view'.nlines = size /\ view'.first = view.first
        /\ Highlighted(view')
    <3>1. CASE view.first = 0
      <4>1. view' = [v EXCEPT !.entry = v.entry] BY <1>2, <2>6, <3>1 DEF SelectCommit
      <4>2. view' = v BY <2>6, <4>1 DEF LogView
      <4> QED BY <2>6, <3>1, <4>2 DEF Highlighted
    <3>2. CASE view.first # 0
      <4>1. /\ view' \in LogView /\ view'.nlines = v.nlines /\ view'.first = v.first
            /\ view'.row = v.row /\ view'.entry = v.first + v.row
        BY <1>2, <1>3, <2>5, <2>6, <3>2, SelectCommitIs
      <4> QED BY <2>0, <2>4, <2>5, <2>6, <3>2, <4>1 DEF Highlighted
    <3> QED BY <3>1, <3>2
  <2>8. Full(view) => Full(view') BY <1>3, <1>4, <1>6, <2>0, <2>7 DEF Full
  <2>9. ~Full(view') => /\ Ended /\ view'.first \in {0, 1} /\ (view'.first = 0 => ncommits = 0)
    BY <1>3, <2>7, <2>8 DEF LogOK, Short
  <2>10. view'.nlines >= 2 BY <1>4, <2>7
  <2> QED BY <1>2, <1>3, <2>2, <2>3, <2>7, <2>9, <2>10, ViewNext
<1> QED BY <1>5, <1>6

(* Quit and reload.                                                           *)
LEMMA KeyStopStep ==
    ASSUME LogOK, NEW k, KeyStop(k)
    PROVE  LogOK'
<1>1. LogKey(k) BY DEF KeyStop
<1>2. /\ main' = "join" /\ view' = view /\ search' = search /\ ncommits' = ncommits
      /\ needed' = needed /\ read' = read /\ log' = (IF log = "wait" THEN "woken" ELSE log)
  BY Zenon DEF KeyStop, SignalLogThread
<1>3. /\ ~Searching /\ log # "none" /\ (Full(view) \/ Ended) /\ needed \in Nat
  BY <1>1, KeyRead
<1>4. ~ToScroll' /\ ~Waiting' /\ ~Searching' BY <1>2, <1>3 DEF ToScroll, Waiting, Searching
<1> QED BY <1>2, <1>3, <1>4, OtherNext

(* The search keys.                                                           *)
LEMMA KeySearchStep ==
    ASSUME LogOK, NEW k, NEW p, KeySearch(k, p)
    PROVE  LogOK'
<1>1. LogKey(k) BY DEF KeySearch
<1>2. /\ main' = "search" /\ view' = view /\ ncommits' = ncommits
      /\ needed' = needed /\ read' = read /\ log' = log
  BY Zenon DEF KeySearch
<1>3. /\ log # "none" /\ (Full(view) \/ Ended) /\ needed \in Nat /\ ToScroll
  BY <1>1, KeyRead
<1>4. ~Waiting' /\ main' \notin {"join", "joining"} BY <1>2 DEF Waiting
<1> QED BY <1>2, <1>3, <1>4, OtherNext

-----------------------------------------------------------------------------
(* The log view, whatever its threads do.                                     *)

(* A closed view takes no step.                                               *)
LEMMA ClosedStays ==
    ASSUME main = "closed", log = "none"
    PROVE  ~LogNext
<1>1. ~MainThread
  BY DEF MainThread, ShowLog, Trigger, CommitLoaded, Triggered, Join, Joined, SearchAgain, SearchNext
<1>2. ~LogThread
  BY DEF LogThread, ReadCommit, InsertCommit, CommitQueued, Decrement, Report, Woken, LogComplete
<1>3. ~LogUser
  BY DEF LogUser, KeyUp, KeyDown, KeyResize, KeyStop, KeySearch, SearchCancel, LogKey
<1> QED BY <1>1, <1>2, <1>3 DEF LogNext

(* What has happened to the window is not forgotten.                          *)
LEMMA GrownStays ==
    ASSUME LogNext, "grown" \in seen
    PROVE  "grown" \in seen'
<1>1. CASE MainThread
  <2>1. seen \subseteq seen'
    BY <1>1, Zenon DEF MainThread, ShowLog, Trigger, CommitLoaded, Triggered, Join, Joined, SearchAgain,
       SearchNext
  <2> QED BY <2>1
<1>2. CASE LogThread
  <2>1. seen \subseteq seen'
    BY <1>2, Zenon DEF LogThread, ReadCommit, InsertCommit, CommitQueued, Decrement, Report, Woken,
       LogComplete
  <2> QED BY <2>1
<1>3. CASE LogUser
  <2>1. seen' = seen \/ seen \subseteq seen' \/ seen' = seen \ {"dangling"}
    BY <1>3, Zenon DEF LogUser, KeyUp, KeyDown, KeyResize, KeyStop, KeySearch, SearchCancel
  <2> QED BY <2>1
<1> QED BY <1>1, <1>2, <1>3 DEF LogNext

(* Every step of the log view.                                                *)
LEMMA LogStep ==
    ASSUME LogOK, LogNext
    PROVE  LogInv'
<1> SUFFICES ASSUME LogNext PROVE LogOK' \/ (main' = "closed" /\ log' = "none") \/ "grown" \in seen'
  BY DEF LogInv
<1>1. CASE MainThread
  BY <1>1, ShowLogStep, TriggerStep, CommitLoadedStep, TriggeredStep, JoinStep, JoinedStep,
     SearchAgainStep, SearchNextStep, Zenon DEF MainThread
<1>2. CASE LogThread
  BY <1>2, ReadCommitStep, InsertCommitStep, CommitQueuedStep, DecrementStep, ReportStep, WokenStep,
     LogCompleteStep, Zenon DEF LogThread
<1>3. CASE LogUser
  <2>n. ncommits \in Nat BY DEF LogOK, LogTypes
  <2>1. CASE KeyUp("up", LogUp(view))
    <3>1. GoodView(view) => Moved(view, LogUp(view)) BY <2>n, LogUpMoves
    <3> QED BY <2>1, <3>1, KeyUpStep
  <2>2. CASE KeyUp("ppage", LogPageUp(view))
    <3>1. GoodView(view) => Moved(view, LogPageUp(view)) BY <2>n, LogPageUpMoves
    <3> QED BY <2>2, <3>1, KeyUpStep
  <2>3. CASE \E k \in {"down", "npage"} : KeyDown(k) BY <2>3, KeyDownStep, Zenon
  <2>4. CASE \E size \in Sizes : KeyResize(size) BY <2>4, KeyResizeStep, Zenon
  <2>5. CASE \E k \in {"q", "reload"} : KeyStop(k) BY <2>5, KeyStopStep, Zenon
  <2>6. CASE SearchCancel BY <2>6, SearchCancelStep, Zenon
  <2>7. CASE \E k \in {"search", "n", "N"} : \E p \in Patterns : KeySearch(k, p)
    BY <2>7, KeySearchStep, Zenon
  <2> QED BY <1>3, <2>1, <2>2, <2>3, <2>4, <2>5, <2>6, <2>7, Zenon DEF LogUser
<1> QED BY <1>1, <1>2, <1>3, Zenon DEF LogNext

(* Every step of tog.                                                         *)
LEMMA LogInvStep ==
    ASSUME LogInv, [Next]_vars
    PROVE  LogInv'
<1>1. CASE LogNext
  <2>1. CASE main = "closed" /\ log = "none" BY <1>1, <2>1, ClosedStays
  <2>2. CASE "grown" \in seen BY <1>1, <2>2, GrownStays DEF LogInv
  <2>3. CASE LogOK BY <1>1, <2>3, LogStep
  <2> QED BY <2>1, <2>2, <2>3 DEF LogInv
<1>2. CASE UNCHANGED logVars
  <2>1. /\ main' = main /\ after' = after /\ log' = log /\ ending' = ending /\ read' = read
        /\ ncommits' = ncommits /\ needed' = needed /\ complete' = complete /\ quit' = quit
        /\ view' = view /\ search' = search /\ seen' = seen
    BY <1>2, Zenon DEF logVars
  <2>2. (Searching' <=> Searching) /\ (Waiting' <=> Waiting) /\ (Ended' <=> Ended)
    BY <2>1 DEF Searching, Waiting, Ended
  <2>3. (LogTypes' <=> LogTypes) /\ (Short' <=> Short) BY <2>1 DEF LogTypes, Short
  <2>4. /\ (Highlighted(view)' <=> Highlighted(view)) /\ (Full(view)' <=> Full(view))
        /\ Bottom(view)' = Bottom(view)
    BY <2>1 DEF Highlighted, Full, Bottom
  <2>5. /\ (ToScroll' <=> ToScroll) /\ (Filling' <=> Filling) /\ (Fresh' <=> Fresh)
    BY <2>1, <2>2 DEF ToScroll, Filling, Fresh
  <2>6. LogOK' <=> LogOK BY <2>1, <2>2, <2>3, <2>4, <2>5 DEF LogOK
  <2> QED BY <2>1, <2>6 DEF LogInv
<1> QED BY <1>1, <1>2, Zenon DEF Next, vars

(* The log view has just been opened, or is not there.                        *)
LEMMA LogStart ==
    ASSUME Init
    PROVE  LogInv
<1>1. CASE LogInit
  <2>1. PICK size \in Sizes :
          /\ view = [nlines |-> size, first |-> 0, last |-> 0, entry |-> 0, row |-> 0]
          /\ needed = size
    BY <1>1 DEF LogInit
  <2>2. /\ main = "show" /\ log = "none" /\ read = 0 /\ ncommits = 0 /\ complete = FALSE
        /\ quit = FALSE /\ search.dir = "none"
    BY <1>1 DEF LogInit
  <2>3. size \in Nat /\ size >= 2 BY TogLogConstants
  <2>4. /\ view \in LogView /\ view.nlines = size /\ view.first = 0 /\ view.entry = 0 /\ view.row = 0
    BY <2>1, <2>3 DEF LogView
  <2>5. LogTypes BY <2>1, <2>2, <2>3, <2>4 DEF LogTypes
  <2>6. ~Searching /\ Ended /\ ~Waiting /\ ~ToScroll
    BY <2>2 DEF Searching, Ended, Waiting, ToScroll
  <2>7. Fresh BY <2>1, <2>2, <2>3, <2>4, <2>6 DEF Fresh
  <2>8. Short /\ Highlighted(view) BY <2>2, <2>4 DEF Short, Highlighted
  <2> QED BY <2>2, <2>5, <2>6, <2>7, <2>8 DEF LogOK, LogInv
<1>2. CASE LogIdle BY <1>2 DEF LogIdle, LogInv
<1> QED BY <1>1, <1>2 DEF Init

(* The invariant says what the property says.                                 *)
LEMMA LogInvSays ==
    ASSUME LogInv
    PROVE  SelectedCommitIsHighlighted
<1> SUFFICES ASSUME main = "getch", view.first # 0, "grown" \notin seen
             PROVE  view.entry = view.first + view.row /\ view.row \in 0 .. view.nlines - 2
  BY DEF SelectedCommitIsHighlighted
<1>1. LogOK BY DEF LogInv
<1>2. view.nlines \in Nat /\ view.row \in Int BY <1>1, LogFields DEF LogOK
<1> QED BY <1>1, <1>2 DEF LogOK, Highlighted

-----------------------------------------------------------------------------
(* The theorems.                                                              *)

(* For any number of views and any screen: whatever views the user opens from *)
(* which, closes, or moves between with Tab and f, every open view is in the  *)
(* list of the view loop or the child of a view in it, both know it, and      *)
(* exactly the view that gets the keys has the focus.                         *)
THEOREM TogFocusUnique == Spec => []FocusIsUnique
<1>1. Init => ViewsInv BY ViewsStart DEF Init
<1>2. ViewsInv /\ [Next]_vars => ViewsInv' BY ViewsInvStep
<1>3. ViewsInv => FocusIsUnique BY ViewsInvSays
<1> QED BY <1>1, <1>2, <1>3, PTL DEF Spec

(* The log view a diff view goes back to with < and >, and the tree view that *)
(* owns the commit id of a blame view, are open as long as the diff or blame  *)
(* view is: replacing a child, replacing a top-level view by one of its type  *)
(* and closing a view with its child leave no pointer behind.                 *)
THEOREM TogPointersLive == Spec => []PointersAreLive
<1>1. Init => ViewsInv BY ViewsStart DEF Init
<1>2. ViewsInv /\ [Next]_vars => ViewsInv' BY ViewsInvStep
<1>3. ViewsInv => PointersAreLive BY ViewsInvSays
<1> QED BY <1>1, <1>2, <1>3, PTL DEF Spec

(* For any non-empty lists, windows of more than four lines and keys (the     *)
(* assumption TogListConstants): in the diff, blame, tree and                 *)
(* reference views the selected row is one of those on the screen and the     *)
(* selected entry the one in it, also after scrolling, resizing, searching,   *)
(* visiting subtrees and blaming other commits; where it is not, one of the   *)
(* two oddities of the code has happened: Page Down in a short blame view,    *)
(* or a list that has become shorter than the row that was selected.          *)
THEOREM TogSelectionExists == Spec => []SelectionExists
<1>1. Init => ListInv BY ListStart DEF Init, ListInv
<1>2. ListInv /\ [Next]_vars => ListInv' BY ListInvStep
<1>3. ListInv => SelectionExists BY ListInvSays
<1> QED BY <1>1, <1>2, <1>3, PTL DEF Spec

(* The loops of the search_next functions, which go around the lines of the   *)
(* file or the entries until they find a match, end for every text and        *)
(* pattern: unless what is on display has been replaced since the last match, *)
(* that match is there to be found, whatever line the search starts at.       *)
THEOREM TogSearchTerminates == Spec => []SearchTerminates
<1>1. Init => ListInv BY ListStart DEF Init, ListInv
<1>2. ListInv /\ [Next]_vars => ListInv' BY ListInvStep
<1>3. ListInv => SearchTerminates BY ListInvSays
<1> QED BY <1>1, <1>2, <1>3, PTL DEF Spec

(* For any history, window and keys, and however the log thread is            *)
(* interleaved with the main thread: when the user is asked for a key, the    *)
(* commit that Enter and t open is the one in the highlighted row, unless the *)
(* window has grown.  Loading commits, scrolling past what is loaded, moving  *)
(* to a match, shrinking the window and reloading keep it so.                 *)
THEOREM TogHighlightsSelection == Spec => []SelectedCommitIsHighlighted
<1>1. Init => LogInv BY LogStart
<1>2. LogInv /\ [Next]_vars => LogInv' BY LogInvStep
<1>3. LogInv => SelectedCommitIsHighlighted BY LogInvSays
<1> QED BY <1>1, <1>2, <1>3, PTL DEF Spec
=============================================================================
