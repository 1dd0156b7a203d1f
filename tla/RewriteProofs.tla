--------------------------- MODULE RewriteProofs ----------------------------
(***************************************************************************)
(* Proofs about rebase and histedit, for any histories, any number of      *)
(* operations, commits by others, kills and errors.                        *)
(***************************************************************************)
EXTENDS Rewrite, SequenceTheorems, WellFoundedInduction, TLAPS

(***************************************************************************)
(* Types.  A write is a pair of a key of the store and its new value.      *)
(***************************************************************************)
Ids == Commits \cup {NoId}
Entry == [cmd : EditCmds \cup {"pick"}, id : Commits]
Tmps == {"r_tmp", "h_tmp"}
Names == Branches \cup {NoName}
IdKeys == {"r_tmp", "h_tmp", "r_commit", "h_commit", "h_base"}
NameKeys == {"r_newbase", "r_branch", "h_branch"}
Disk == [hunks : SUBSET Hunk, conf : SUBSET Files]
Index == [blob : SUBSET Hunk, commit : [Files -> Commits]]

Keys == Branches \cup IdKeys \cup NameKeys
        \cup {"head", "base", "disk", "index", "script"}
Fits(k, v) ==
    /\ k \in Branches \cup {"base"} => v \in Commits
    /\ k \in IdKeys => v \in Ids
    /\ k \in NameKeys => v \in Names
    /\ k = "head" => v \in Branches \cup Tmps
    /\ k = "disk" => v \in Disk
    /\ k = "index" => v \in Index
    /\ k = "script" => v \in Seq(Entry)


Writes ==
    ((Branches \cup {"base"}) \X Commits) \cup (IdKeys \X Ids)
    \cup (NameKeys \X Names) \cup ({"head"} \X (Branches \cup Tmps))
    \cup ({"disk"} \X Disk) \cup ({"index"} \X Index)
    \cup ({"script"} \X Seq(Entry))

(* The store is a function on the keys, and its values have their types.   *)
StoreOK(st) == /\ st = [k \in Keys |-> st[k]]
               /\ \A k \in Keys : Fits(k, st[k])

(* Before a command is done: the phases in which it replays commits, and   *)
(* those in which it leaves the operation.                                 *)
Live == {"resolve", "collect", "script", "next", "merge", "commit"}
Ending == {"completing", "aborting"}
Process ==
    [op : {"none", "rebase", "histedit"}, at : {"idle"} \cup Live \cup Ending,
     plan : Seq(Writes), br : Names, from : Ids, tip : Ids,
     list : Seq(Entry), merged : SUBSET Files]

(***************************************************************************)
(* What a plan does to a store                                             *)
(***************************************************************************)
(* Once the plan is done, the value of key k is one of V.                  *)
WillBe(plan, st, k, V) ==
    /\ \A i \in DOMAIN plan : plan[i][1] = k => plan[i][2] \in V
    /\ st[k] \in V \/ \E i \in DOMAIN plan : plan[i][1] = k

(* After every write of the plan, if the work tree is on branch t then     *)
(* the value of key k is one of V: it gets one before head is set to t,    *)
(* and another value only after head was set to something else.            *)
Guarded(plan, st, t, k, V) ==
    /\ st.head = t => st[k] \in V
    /\ \A i \in DOMAIN plan : plan[i][1] = "head" /\ plan[i][2] = t =>
          /\ \A j \in DOMAIN plan : plan[j][1] = k => plan[j][2] \in V
          /\ st[k] \in V \/ \E j \in 1..(i - 1) : plan[j][1] = k
    /\ \A i \in DOMAIN plan : plan[i][1] = k /\ plan[i][2] \notin V =>
          st.head # t \/ \E j \in 1..(i - 1) : plan[j][1] = "head"

(* What an operation in progress needs in order to get home.               *)
RefsGuarded(plan, st, hm) ==
    /\ Guarded(plan, st, "r_tmp", "r_tmp", Commits)
    /\ Guarded(plan, st, "r_tmp", "r_newbase", {hm})
    /\ Guarded(plan, st, "r_tmp", "r_branch", Branches)
    /\ Guarded(plan, st, "h_tmp", "h_tmp", Commits)
    /\ Guarded(plan, st, "h_tmp", "h_branch", {hm})
    /\ Guarded(plan, st, "h_tmp", "h_base", Commits)

(***************************************************************************)
(* The invariant behind HeadRefExists and AbortReturnsHome, as long as no  *)
(* rebase was started during another.                                      *)
(***************************************************************************)
PhaseOK(st, p) ==
    /\ p.at = "idle" => p = Idle
    /\ p.at # "idle" => p.op \in Operations
    /\ p.at \in {"collect", "resolve"} => p.op = "rebase"
    /\ p.at = "script" => p.op = "histedit"
    /\ p.at \in Live => /\ p.br \in Branches
                        /\ WillBe(p.plan, st, "head", {TmpRef[p.op]})
    /\ p.at \in {"merge", "commit"} => p.list # <<>>
    /\ p.at = "commit" => p.plan = <<>>

EndingOK(st, p, hm) ==
    /\ p.at \in Ending => p.plan # <<>> /\ p.plan[Len(p.plan)][1] = "index"
    /\ p.at = "completing" => WillBe(p.plan, st, "head", Branches)
    /\ p.at = "aborting" => WillBe(p.plan, st, "head", {hm})

Steady(st, p, hm) ==
    /\ StoreOK(st) /\ p \in Process /\ hm \in Branches
    /\ PhaseOK(st, p) /\ EndingOK(st, p, hm)
    /\ RefsGuarded(p.plan, st, hm)

SteadyInv == "restart" \notin seen => Steady(store, proc, home)

-----------------------------------------------------------------------------
(***************************************************************************)
(* Types of the store and of writes                                        *)
(***************************************************************************)
LEMMA NoNameIsNone == NoName \notin Branches \cup Tmps
  BY Zenon DEF NoName, Branches, Tmps

LEMMA WriteFits ==
    /\ \A w \in Writes : w[1] \in Keys /\ Fits(w[1], w[2]) /\ w = <<w[1], w[2]>>
    /\ \A k \in Keys : \A v : Fits(k, v) => <<k, v>> \in Writes
<1>1. ASSUME NEW w \in Writes
      PROVE  w[1] \in Keys /\ Fits(w[1], w[2]) /\ w = <<w[1], w[2]>>
  BY DEF Writes, Keys, Fits, Branches, IdKeys, NameKeys
<1>2. ASSUME NEW k \in Keys, NEW v, Fits(k, v) PROVE <<k, v>> \in Writes
  BY <1>2 DEF Writes, Keys, Fits, Branches, IdKeys, NameKeys
<1> QED BY <1>1, <1>2

LEMMA StoreTypes ==
    ASSUME NEW st, StoreOK(st)
    PROVE  /\ st.main \in Commits /\ st.topic \in Commits /\ st.base \in Commits
           /\ st.r_tmp \in Ids /\ st.h_tmp \in Ids /\ st.h_base \in Ids
           /\ st.r_commit \in Ids /\ st.h_commit \in Ids
           /\ st.r_newbase \in Names /\ st.r_branch \in Names
           /\ st.h_branch \in Names /\ st.head \in Branches \cup Tmps
           /\ st.disk \in Disk /\ st.index \in Index /\ st.script \in Seq(Entry)
  BY DEF StoreOK, Fits, Keys, Branches, IdKeys, NameKeys

(* The store after write w.                                                *)
Written(st, w) == [st EXCEPT ![w[1]] = w[2]]

LEMMA WrittenIs ==
    ASSUME NEW st, StoreOK(st), NEW w \in Writes
    PROVE  /\ StoreOK(Written(st, w))
           /\ \A k \in Keys : Written(st, w)[k] = IF k = w[1] THEN w[2] ELSE st[k]
<1> DEFINE s2 == Written(st, w)
<1>1. w[1] \in Keys /\ Fits(w[1], w[2]) BY WriteFits
<1>2. s2 = [k \in Keys |-> IF k = w[1] THEN w[2] ELSE st[k]]
  BY DEF StoreOK, Written
<1>3. \A k \in Keys : s2[k] = IF k = w[1] THEN w[2] ELSE st[k] BY <1>2
<1> HIDE DEF s2
<1>4. s2 = [k \in Keys |-> s2[k]] BY <1>2, <1>3
<1>5. \A k \in Keys : Fits(k, s2[k]) BY <1>1, <1>3 DEF StoreOK
<1> QED BY <1>3, <1>4, <1>5 DEF StoreOK, s2

LEMMA TmpRefs ==
    /\ TmpRef["rebase"] = "r_tmp" /\ TmpRef["histedit"] = "h_tmp"
    /\ CommitRef["rebase"] = "r_commit" /\ CommitRef["histedit"] = "h_commit"
  BY DEF TmpRef, CommitRef

LEMMA IdleIs ==
    /\ Idle \in Process /\ Idle.at = "idle" /\ Idle.plan = <<>>
    /\ Idle.op = "none" /\ Idle.list = <<>> /\ Idle.merged = {}
<1>1. NoName \in Names /\ NoId \in Ids /\ NoId = <<>> BY DEF Names, Ids, NoId
<1> QED BY <1>1 DEF Idle, Process

(***************************************************************************)
(* One write of a plan                                                     *)
(***************************************************************************)
LEMMA PlanTail ==
    ASSUME NEW plan \in Seq(Writes), plan # <<>>
    PROVE  /\ Tail(plan) \in Seq(Writes) /\ Len(Tail(plan)) = Len(plan) - 1
           /\ Head(plan) = plan[1] /\ 1 \in DOMAIN plan /\ plan[1] \in Writes
           /\ DOMAIN plan = 1..Len(plan) /\ DOMAIN Tail(plan) = 1..(Len(plan) - 1)
           /\ Len(plan) \in Nat
           /\ \A i \in DOMAIN Tail(plan) :
                 i + 1 \in DOMAIN plan /\ Tail(plan)[i] = plan[i + 1]
  OBVIOUS

LEMMA WillBeStep ==
    ASSUME NEW plan \in Seq(Writes), plan # <<>>, NEW st, StoreOK(st),
           NEW k \in Keys, NEW V, WillBe(plan, st, k, V)
    PROVE  WillBe(Tail(plan), Written(st, Head(plan)), k, V)
<1> DEFINE w == plan[1]
           q == Tail(plan)
           s2 == Written(st, Head(plan))
<1>1. /\ Head(plan) = w /\ 1 \in DOMAIN plan /\ w \in Writes
      /\ \A i \in DOMAIN q : i + 1 \in DOMAIN plan /\ q[i] = plan[i + 1]
  BY PlanTail
<1>3. \A l \in Keys : s2[l] = IF l = w[1] THEN w[2] ELSE st[l] BY <1>1, WrittenIs
<1> HIDE DEF s2
<1>4. \A i \in DOMAIN q : q[i][1] = k => q[i][2] \in V BY <1>1 DEF WillBe
<1>5. CASE w[1] = k
  <2>1. s2[k] \in V BY <1>1, <1>3, <1>5 DEF WillBe
  <2> QED BY <2>1, <1>4 DEF WillBe, s2
<1>6. CASE w[1] # k
  <2>1. s2[k] = st[k] BY <1>3, <1>6
  <2>2. CASE st[k] \in V BY <2>1, <2>2, <1>4 DEF WillBe, s2
  <2>3. CASE \E i \in DOMAIN plan : plan[i][1] = k
    <3>1. PICK i \in DOMAIN plan : plan[i][1] = k BY <2>3
    <3>2. i # 1 BY <3>1, <1>6
    <3>3. i - 1 \in DOMAIN q /\ q[i - 1] = plan[i] BY <3>2, PlanTail
    <3> QED BY <3>1, <3>3, <1>4 DEF WillBe, s2
  <2> QED BY <2>2, <2>3 DEF WillBe
<1> QED BY <1>5, <1>6

LEMMA GuardedStep ==
    ASSUME NEW plan \in Seq(Writes), plan # <<>>, NEW st, StoreOK(st),
           NEW k \in Keys \ {"head"}, NEW t, NEW V, Guarded(plan, st, t, k, V)
    PROVE  Guarded(Tail(plan), Written(st, Head(plan)), t, k, V)
<1> DEFINE w == plan[1]
           q == Tail(plan)
           s2 == Written(st, Head(plan))
<1>1. /\ Head(plan) = w /\ 1 \in DOMAIN plan /\ w \in Writes
      /\ DOMAIN plan = 1..Len(plan) /\ DOMAIN q = 1..(Len(plan) - 1) /\ Len(plan) \in Nat
      /\ \A i \in DOMAIN q : i + 1 \in DOMAIN plan /\ q[i] = plan[i + 1]
  BY PlanTail
<1>3. \A l \in Keys : s2[l] = IF l = w[1] THEN w[2] ELSE st[l] BY <1>1, WrittenIs
<1> HIDE DEF s2
<1>4. "head" \in Keys BY DEF Keys
<1>5. s2.head = IF w[1] = "head" THEN w[2] ELSE st.head BY <1>3, <1>4
<1>6. s2[k] = IF w[1] = k THEN w[2] ELSE st[k] BY <1>3
<1> HIDE DEF w, q
<1>7. ASSUME s2.head = t PROVE s2[k] \in V
  <2>1. CASE w[1] = "head"
    <3>1. \A j \in 1..(1 - 1) : FALSE OBVIOUS
    <3>2. st[k] \in V BY <1>1, <1>5, <1>7, <2>1, <3>1 DEF Guarded, w
    <3> QED BY <1>6, <2>1, <3>2
  <2>2. CASE w[1] = k
    <3>1. st.head = t BY <1>5, <1>7, <2>2
    <3>2. \A j \in 1..(1 - 1) : FALSE OBVIOUS
    <3>3. w[2] \in V BY <1>1, <2>2, <3>1, <3>2 DEF Guarded, w
    <3> QED BY <1>6, <2>2, <3>3
  <2>3. CASE w[1] # "head" /\ w[1] # k
    BY <1>5, <1>6, <1>7, <2>3 DEF Guarded
  <2> QED BY <2>1, <2>2, <2>3
<1>8. ASSUME NEW i \in DOMAIN q, q[i][1] = "head", q[i][2] = t
      PROVE  /\ \A j \in DOMAIN q : q[j][1] = k => q[j][2] \in V
             /\ s2[k] \in V \/ \E j \in 1..(i - 1) : q[j][1] = k
  <2>1. plan[i + 1][1] = "head" /\ plan[i + 1][2] = t /\ i + 1 \in DOMAIN plan BY <1>1, <1>8
  <2>2. \A j \in DOMAIN plan : plan[j][1] = k => plan[j][2] \in V BY <2>1 DEF Guarded
  <2>3. \A j \in DOMAIN q : q[j][1] = k => q[j][2] \in V BY <1>1, <2>2
  <2>a. PICK m \in DOMAIN plan : m = i + 1 BY <2>1
  <2>b. st[k] \in V \/ \E j \in 1..(m - 1) : plan[j][1] = k BY <2>1, <2>a DEF Guarded
  <2>4. st[k] \in V \/ \E j \in 1..i : plan[j][1] = k BY <2>a, <2>b, <1>1
  <2>5. CASE w[1] = k
    <3>1. s2[k] \in V BY <1>1, <1>6, <2>2, <2>5 DEF w
    <3> QED BY <3>1, <2>3
  <2>6. CASE w[1] # k
    <3>1. CASE st[k] \in V BY <1>6, <2>3, <2>6, <3>1
    <3>2. ASSUME NEW j \in 1..i, plan[j][1] = k
          PROVE  \E l \in 1..(i - 1) : q[l][1] = k
      <4>1. j # 1 BY <2>6, <3>2 DEF w
      <4>2. j - 1 \in 1..(i - 1) /\ j - 1 \in DOMAIN q /\ (j - 1) + 1 = j BY <1>1, <4>1
      <4>3. q[j - 1] = plan[j] BY <1>1, <4>2
      <4> QED BY <4>2, <4>3, <3>2
    <3> QED BY <2>3, <2>4, <3>1, <3>2
  <2> QED BY <2>5, <2>6
<1>9. ASSUME NEW i \in DOMAIN q, q[i][1] = k, q[i][2] \notin V
      PROVE  s2.head # t \/ \E j \in 1..(i - 1) : q[j][1] = "head"
  <2>1. plan[i + 1][1] = k /\ plan[i + 1][2] \notin V /\ i + 1 \in DOMAIN plan BY <1>1, <1>9
  <2>a. PICK m \in DOMAIN plan : m = i + 1 BY <2>1
  <2>b. st.head # t \/ \E j \in 1..(m - 1) : plan[j][1] = "head" BY <2>1, <2>a DEF Guarded
  <2>2. st.head # t \/ \E j \in 1..i : plan[j][1] = "head" BY <2>a, <2>b, <1>1
  <2>3. CASE w[1] = "head"
    <3>1. w[2] # t BY <1>1, <2>1, <2>3 DEF Guarded, w
    <3> QED BY <1>5, <2>3, <3>1
  <2>4. CASE w[1] # "head"
    <3>1. CASE st.head # t BY <1>5, <2>4, <3>1
    <3>2. ASSUME NEW j \in 1..i, plan[j][1] = "head"
          PROVE  \E l \in 1..(i - 1) : q[l][1] = "head"
      <4>1. j # 1 BY <2>4, <3>2 DEF w
      <4>2. j - 1 \in 1..(i - 1) /\ j - 1 \in DOMAIN q /\ (j - 1) + 1 = j BY <1>1, <4>1
      <4>3. q[j - 1] = plan[j] BY <1>1, <4>2
      <4> QED BY <4>2, <4>3, <3>2
    <3> QED BY <2>2, <3>1, <3>2
  <2> QED BY <2>3, <2>4
<1> QED BY <1>7, <1>8, <1>9 DEF Guarded, q, s2
(***************************************************************************)
(* Writing a whole plan                                                    *)
(***************************************************************************)
LEMMA WriteSteady ==
    ASSUME NEW st, NEW p, NEW hm, Steady(st, p, hm), p.plan # <<>>,
           NEW p2, p2 = IF p.at \in Ending /\ Len(p.plan) = 1
                        THEN Idle ELSE [p EXCEPT !.plan = Tail(@)]
    PROVE  Steady(Written(st, Head(p.plan)), p2, hm)
<1> DEFINE q == p.plan
           s2 == Written(st, Head(q))
<1>1. q \in Seq(Writes) /\ q # <<>> /\ StoreOK(st) /\ p \in Process /\ hm \in Branches
  BY DEF Steady, Process
<1>2. /\ Tail(q) \in Seq(Writes) /\ Len(Tail(q)) = Len(q) - 1 /\ Head(q) = q[1]
      /\ q[1] \in Writes /\ 1 \in DOMAIN q /\ Len(q) \in Nat /\ DOMAIN q = 1..Len(q)
      /\ DOMAIN Tail(q) = 1..(Len(q) - 1)
      /\ \A i \in DOMAIN Tail(q) : i + 1 \in DOMAIN q /\ Tail(q)[i] = q[i + 1]
  BY <1>1, PlanTail
<1>3. StoreOK(s2) BY <1>1, <1>2, WrittenIs
<1>4. "head" \in Keys /\ {"r_tmp", "h_tmp", "r_newbase", "r_branch", "h_branch", "h_base"}
         \subseteq Keys \ {"head"}
  BY DEF Keys, IdKeys, NameKeys
<1>5. RefsGuarded(Tail(q), s2, hm)
  <2> HIDE DEF q
  <2>1. RefsGuarded(q, st, hm) BY DEF Steady, q
  <2> QED BY <2>1, <1>1, <1>4, GuardedStep DEF RefsGuarded
<1>6. \A V : WillBe(q, st, "head", V) => WillBe(Tail(q), s2, "head", V)
  <2> HIDE DEF q
  <2> QED BY <1>1, <1>4, WillBeStep
<1>7. CASE p.at \in Ending /\ Len(q) = 1
  <2>1. p2 = Idle BY <1>7
  <2>2. Tail(q) = <<>> BY <1>2, <1>7
  <2>3. RefsGuarded(Idle.plan, s2, hm) BY <1>5, <2>2, IdleIs
  <2> HIDE DEF s2
  <2>4. PhaseOK(s2, Idle) BY IdleIs DEF PhaseOK, Live
  <2>5. EndingOK(s2, Idle, hm) BY IdleIs DEF EndingOK, Ending
  <2> QED BY <1>1, <1>3, <2>1, <2>3, <2>4, <2>5, IdleIs DEF Steady, s2
<1>8. CASE ~(p.at \in Ending /\ Len(q) = 1)
  <2>1. p2 = [p EXCEPT !.plan = Tail(q)] BY <1>8
  <2>2. /\ p2 \in Process /\ p2.plan = Tail(q) /\ p2.at = p.at /\ p2.op = p.op
        /\ p2.br = p.br /\ p2.list = p.list
    BY <1>1, <1>2, <2>1 DEF Process
  <2>3. PhaseOK(st, p) /\ EndingOK(st, p, hm) BY DEF Steady
  <2>a. p.at # "idle" BY <1>1, <2>3, IdleIs DEF PhaseOK
  <2>b. p.at # "commit" BY <1>1, <2>3 DEF PhaseOK
  <2> HIDE DEF q, s2
  <2>4. PhaseOK(s2, p2)
    BY <1>6, <2>2, <2>3, <2>a, <2>b, Zenon DEF PhaseOK, q
  <2>5. ASSUME p2.at \in Ending
        PROVE  p2.plan # <<>> /\ p2.plan[Len(p2.plan)][1] = "index"
    <3>1. q # <<>> /\ q[Len(q)][1] = "index" BY <2>2, <2>3, <2>5 DEF EndingOK, q
    <3>2. Len(q) > 1 BY <1>2, <1>8, <2>2, <2>5
    <3>3. Tail(q)[Len(q) - 1] = q[Len(q)] BY <1>2, <3>2
    <3>4. p2.plan = Tail(q) /\ Len(p2.plan) = Len(q) - 1 BY <1>2, <2>2
    <3>5. p2.plan[Len(p2.plan)] = q[Len(q)] BY <3>3, <3>4
    <3>9. Len(q) \in Nat /\ Len(q) - 1 # 0 BY <1>2, <3>2
    <3>7. Len(p2.plan) # 0 BY <3>4, <3>9, Zenon
    <3>8. Len(<<>>) = 0 OBVIOUS
    <3>6. p2.plan # <<>> BY <3>7, <3>8, Zenon
    <3> QED BY <3>1, <3>5, <3>6
  <2>6. EndingOK(s2, p2, hm)
    BY <1>6, <2>2, <2>3, <2>5, Zenon DEF EndingOK, q
  <2> QED BY <1>1, <1>3, <1>5, <2>2, <2>4, <2>6 DEF Steady, s2, q
<1> QED BY <1>7, <1>8

(***************************************************************************)
(* A command that stops, and changes made while none runs                  *)
(***************************************************************************)
LEMMA NoPlan ==
    ASSUME NEW st, NEW t, NEW k, NEW V
    PROVE  Guarded(<<>>, st, t, k, V) <=> (st.head = t => st[k] \in V)
  BY DEF Guarded

LEMMA IdleIsSteady ==
    ASSUME NEW st, NEW hm, StoreOK(st), hm \in Branches
    PROVE  Steady(st, Idle, hm) <=> RefsGuarded(<<>>, st, hm)
<1>1. PhaseOK(st, Idle) BY IdleIs DEF PhaseOK, Live
<1>2. EndingOK(st, Idle, hm) BY IdleIs DEF EndingOK, Ending
<1> QED BY <1>1, <1>2, IdleIs DEF Steady

LEMMA StopSteady ==
    ASSUME NEW st, NEW p, NEW hm, Steady(st, p, hm)
    PROVE  Steady(st, Idle, hm)
<1>1. RefsGuarded(p.plan, st, hm) BY DEF Steady
<1>2. \A t, k, V : Guarded(p.plan, st, t, k, V) => Guarded(<<>>, st, t, k, V)
  BY NoPlan DEF Guarded
<1>3. RefsGuarded(<<>>, st, hm) BY <1>1, <1>2 DEF RefsGuarded
<1> QED BY <1>3, IdleIsSteady DEF Steady

(* What an operation in progress has.                                      *)
LEMMA InPlace ==
    ASSUME NEW st, NEW p, NEW hm, Steady(st, p, hm)
    PROVE  /\ st.head = "r_tmp" => /\ st.r_tmp \in Commits /\ st.r_newbase = hm
                                   /\ st.r_branch \in Branches
           /\ st.head = "h_tmp" => /\ st.h_tmp \in Commits /\ st.h_branch = hm
                                   /\ st.h_base \in Commits
  BY DEF Steady, RefsGuarded, Guarded

LEMMA HeadExists ==
    ASSUME NEW st, NEW p, NEW hm, Steady(st, p, hm)
    PROVE  st[st.head] \in Commits
<1>1. StoreOK(st) BY DEF Steady
<1> QED BY <1>1, InPlace, StoreTypes DEF Branches, Tmps

LEMMA LiveIsInPlace ==
    ASSUME NEW st, NEW p, NEW hm, Steady(st, p, hm), p.at \in Live, p.plan = <<>>
    PROVE  /\ p.op \in Operations /\ st.head = TmpRef[p.op] /\ p.br \in Branches
           /\ Steady(st, Idle, hm)
<1>1. PhaseOK(st, p) BY DEF Steady
<1>2. WillBe(p.plan, st, "head", {TmpRef[p.op]}) /\ p.br \in Branches
      /\ p.at # "idle"
  BY <1>1 DEF PhaseOK, Live
<1>3. st.head = TmpRef[p.op] BY <1>2 DEF WillBe
<1>4. p.op \in Operations BY <1>1, <1>2 DEF PhaseOK
<1> QED BY <1>2, <1>3, <1>4, StopSteady

LEMMA OtherStoreSteady ==
    ASSUME NEW st, NEW p, NEW hm, Steady(st, p, hm), NEW s2, StoreOK(s2),
           s2.head \in Branches \cup {st.head},
           \A k \in IdKeys \cup NameKeys :
              s2[k] = st[k] \/ (k \in Tmps /\ s2[k] \in Commits)
    PROVE  Steady(s2, Idle, hm)
<1>1. hm \in Branches BY DEF Steady
<1>2. {"r_tmp", "h_tmp", "r_newbase", "r_branch", "h_branch", "h_base"}
        \subseteq IdKeys \cup NameKeys
  BY DEF IdKeys, NameKeys
<1>3. s2.head \in Tmps => s2.head = st.head BY DEF Branches, Tmps
<1>4. RefsGuarded(<<>>, s2, hm)
  <2>1. s2.head = "r_tmp" =>
          s2.r_tmp \in Commits /\ s2.r_newbase = hm /\ s2.r_branch \in Branches
    BY <1>2, <1>3, InPlace DEF Tmps
  <2>2. s2.head = "h_tmp" =>
          s2.h_tmp \in Commits /\ s2.h_branch = hm /\ s2.h_base \in Commits
    BY <1>2, <1>3, InPlace DEF Tmps
  <2> QED BY <2>1, <2>2, NoPlan DEF RefsGuarded
<1> QED BY <1>1, <1>4, IdleIsSteady

LEMMA DiskSteady ==
    ASSUME NEW st, NEW p, NEW hm, Steady(st, p, hm), NEW d \in Disk
    PROVE  /\ Steady([st EXCEPT !.disk = d], Idle, hm)
           /\ [st EXCEPT !.disk = d].head = st.head
<1> DEFINE w == <<"disk", d>>
<1>1. w \in Writes BY DEF Writes
<1>2. [st EXCEPT !.disk = d] = Written(st, w) BY DEF Written
<1>3. StoreOK(st) BY DEF Steady
<1> HIDE DEF w
<1>4. /\ StoreOK(Written(st, w))
      /\ \A k \in Keys : Written(st, w)[k] = IF k = w[1] THEN w[2] ELSE st[k]
  BY <1>1, <1>3, WrittenIs
<1>5. \A k \in IdKeys \cup NameKeys \cup {"head"} : Written(st, w)[k] = st[k]
  BY <1>4 DEF w, IdKeys, NameKeys, Keys
<1>6. Written(st, w).head = st.head BY <1>5
<1>7. Steady(Written(st, w), Idle, hm) BY <1>4, <1>5, <1>6, OtherStoreSteady
<1> QED BY <1>2, <1>6, <1>7
(***************************************************************************)
(* Plans that stay in the operation, leave it and enter it                 *)
(***************************************************************************)
(* A plan that leaves alone what the operation needs, except that the      *)
(* temporary branch may grow.                                              *)
Plain(plan) ==
    /\ plan \in Seq(Writes)
    /\ \A i \in DOMAIN plan :
          /\ plan[i][1] \notin NameKeys \cup {"head", "h_base"}
          /\ plan[i][1] \in Tmps => plan[i][2] \in Commits

(* A phase that p may be in while it replays.                              *)
LivePhase(p) ==
    /\ p \in Process /\ p.at \in Live /\ p.op \in Operations /\ p.br \in Branches
    /\ p.at \in {"collect", "resolve"} => p.op = "rebase"
    /\ p.at = "script" => p.op = "histedit"
    /\ p.at \in {"merge", "commit"} => p.list # <<>>
    /\ p.at = "commit" => p.plan = <<>>

LEMMA PlainSteady ==
    ASSUME NEW st, NEW hm, Steady(st, Idle, hm), NEW p, LivePhase(p), Plain(p.plan),
           st.head = TmpRef[p.op]
    PROVE  Steady(st, p, hm)
<1> DEFINE q == p.plan
<1>1. RefsGuarded(<<>>, st, hm) BY IdleIs DEF Steady
<1>2. \A t, k, V : Guarded(<<>>, st, t, k, V)
         /\ (\A i \in DOMAIN q : q[i][1] # "head" /\ (q[i][1] = k => q[i][2] \in V))
         => Guarded(q, st, t, k, V)
  BY DEF Guarded
<1>3. \A i \in DOMAIN q :
         /\ q[i][1] # "head"
         /\ \A V : q[i][1] \in {"r_newbase", "r_branch", "h_branch", "h_base"} => q[i][2] \in V
         /\ q[i][1] \in {"r_tmp", "h_tmp"} => q[i][2] \in Commits
  BY DEF Plain, NameKeys, Tmps
<1>4. RefsGuarded(q, st, hm) BY <1>1, <1>2, <1>3 DEF RefsGuarded
<1>5. WillBe(q, st, "head", {TmpRef[p.op]}) BY <1>3 DEF WillBe
<1>6. PhaseOK(st, p) BY <1>5 DEF PhaseOK, LivePhase, Live
<1>7. EndingOK(st, p, hm) BY DEF EndingOK, LivePhase, Live, Ending
<1> QED BY <1>4, <1>6, <1>7 DEF Steady, LivePhase

(* A plan that first switches to branch b, with write m.                   *)
Leaves(plan, b, m) ==
    /\ plan \in Seq(Writes) /\ m \in DOMAIN plan /\ m < Len(plan)
    /\ plan[m] = <<"head", b>> /\ plan[Len(plan)][1] = "index"
    /\ \A i \in DOMAIN plan : /\ plan[i][1] = "head" => i = m
                              /\ plan[i][1] \in IdKeys \cup NameKeys => m < i
                              /\ plan[i][1] # "script"

LEMMA LeaveSteady ==
    ASSUME NEW st, NEW hm, Steady(st, Idle, hm), NEW b \in Branches, NEW m,
           NEW p \in Process, p.op \in Operations, p.at \in Ending,
           Leaves(p.plan, b, m), p.at = "aborting" => b = hm
    PROVE  Steady(st, p, hm)
<1> DEFINE q == p.plan
<1>1. RefsGuarded(<<>>, st, hm) BY IdleIs DEF Steady
<1>2. /\ q \in Seq(Writes) /\ m \in 1..Len(q) /\ m < Len(q) /\ DOMAIN q = 1..Len(q)
      /\ q[m][1] = "head" /\ q[m][2] = b /\ q[Len(q)][1] = "index"
      /\ \A i \in DOMAIN q : /\ q[i][1] = "head" => i = m
                             /\ q[i][1] \in IdKeys \cup NameKeys => m < i
  BY DEF Leaves
<1> HIDE DEF q
<1>3. \A i \in DOMAIN q : q[i][1] = "head" => q[i][2] = b BY <1>2
<1>4. ASSUME NEW t \in Tmps, NEW k \in IdKeys \cup NameKeys, NEW V,
             Guarded(<<>>, st, t, k, V)
      PROVE  Guarded(q, st, t, k, V)
  <2>1. st.head = t => st[k] \in V BY <1>4, NoPlan
  <2>2. \A i \in DOMAIN q : ~(q[i][1] = "head" /\ q[i][2] = t)
    BY <1>3 DEF Tmps, Branches
  <2>3. ASSUME NEW i \in DOMAIN q, q[i][1] = k PROVE \E j \in 1..(i - 1) : q[j][1] = "head"
    <3>1. m < i BY <1>2, <2>3
    <3>2. m \in 1..(i - 1) BY <1>2, <3>1
    <3> QED BY <1>2, <3>2
  <2> QED BY <2>1, <2>2, <2>3 DEF Guarded
<1>5. RefsGuarded(q, st, hm) BY <1>1, <1>4 DEF RefsGuarded, IdKeys, NameKeys, Tmps
<1>6. \A V : b \in V => WillBe(q, st, "head", V) BY <1>2, <1>3 DEF WillBe
<1>7. PhaseOK(st, p) BY DEF PhaseOK, Ending, Live
<1>8. q # <<>> BY <1>2
<1>9. EndingOK(st, p, hm) BY <1>2, <1>6, <1>8 DEF EndingOK, q
<1>10. StoreOK(st) /\ hm \in Branches BY DEF Steady
<1> QED BY <1>5, <1>7, <1>9, <1>10 DEF Steady, q

(* A plan that writes what an operation needs, and then its branch to head.*)
Enters(plan, op, hm) ==
    /\ plan \in Seq(Writes) /\ Len(plan) = 4
    /\ op = "rebase" => /\ plan[1] = <<"r_newbase", hm>>
                        /\ plan[2][1] = "r_branch" /\ plan[2][2] \in Branches
                        /\ plan[3][1] = "r_tmp" /\ plan[3][2] \in Commits
    /\ op = "histedit" => /\ plan[1] = <<"h_branch", hm>>
                          /\ plan[2][1] = "h_base" /\ plan[2][2] \in Commits
                          /\ plan[3][1] = "h_tmp" /\ plan[3][2] \in Commits
    /\ plan[4] = <<"head", TmpRef[op]>>

LEMMA EnterGuarded ==
    ASSUME NEW st, st.head \in Branches, NEW t \in Tmps, NEW V,
           NEW plan, Len(plan) = 4, DOMAIN plan = 1..4, NEW n \in 1..3,
           \A i \in 1..4 : plan[i][1] # "head" \/ i = 4, NEW k,
           k # "head", plan[n][1] = k, \A i \in 1..4 : plan[i][1] = k => plan[i][2] \in V
    PROVE  Guarded(plan, st, t, k, V)
<1>1. st.head # t BY DEF Tmps, Branches
<1>2. \A i \in 1..4 : plan[i][1] = "head" => n \in 1..(i - 1) OBVIOUS
<1> QED BY <1>1, <1>2 DEF Guarded

LEMMA OtherGuarded ==
    ASSUME NEW st, st.head \in Branches, NEW t \in Tmps, NEW V, NEW k,
           NEW plan, \A i \in DOMAIN plan : plan[i][1] = "head" => plan[i][2] # t
    PROVE  Guarded(plan, st, t, k, V)
<1>1. st.head # t BY DEF Tmps, Branches
<1> QED BY <1>1 DEF Guarded

LEMMA EnterSteady ==
    ASSUME NEW st, NEW h0, Steady(st, Idle, h0), st.head \in Branches,
           NEW p, LivePhase(p), Enters(p.plan, p.op, st.head)
    PROVE  Steady(st, p, st.head)
<1> DEFINE q == p.plan
           hm == st.head
<1>1. q \in Seq(Writes) /\ Len(q) = 4 /\ DOMAIN q = 1..4 BY DEF Enters
<1>2. q[4] = <<"head", TmpRef[p.op]>> BY DEF Enters
<1>3. p.op \in {"rebase", "histedit"} BY DEF LivePhase, Operations
<1>4. q[4][1] = "head" /\ q[4][2] = TmpRef[p.op] BY <1>2
<1>5. ASSUME p.op = "rebase" PROVE RefsGuarded(q, st, hm)
  <2>1. /\ q[1][1] = "r_newbase" /\ q[1][2] = hm /\ q[2][1] = "r_branch"
        /\ q[2][2] \in Branches /\ q[3][1] = "r_tmp" /\ q[3][2] \in Commits
        /\ q[4][2] = "r_tmp"
    BY <1>4, <1>5, TmpRefs DEF Enters
  <2> HIDE DEF q, hm
  <2>2. \A i \in 1..4 : i = 1 \/ i = 2 \/ i = 3 \/ i = 4 OBVIOUS
  <2>3. \A i \in 1..4 : q[i][1] # "head" \/ i = 4 BY <2>1, <2>2
  <2>4. \A i \in DOMAIN q : q[i][1] = "head" => q[i][2] # "h_tmp" BY <1>1, <2>1, <2>2
  <2>5. \A i \in 1..4 : /\ q[i][1] = "r_tmp" => q[i][2] \in Commits
                        /\ q[i][1] = "r_newbase" => q[i][2] \in {hm}
                        /\ q[i][1] = "r_branch" => q[i][2] \in Branches
    BY <1>4, <2>1, <2>2
  <2>6. "r_tmp" \in Tmps /\ "h_tmp" \in Tmps BY DEF Tmps
  <2>7. \A k, V : Guarded(q, st, "h_tmp", k, V) BY <2>4, <2>6, OtherGuarded
  <2>8. Guarded(q, st, "r_tmp", "r_newbase", {hm})
    <3>1. 1 \in 1..3 /\ q[1][1] = "r_newbase" BY <2>1
    <3>2. \A i \in 1..4 : q[i][1] = "r_newbase" => q[i][2] \in {hm} BY <2>5
    <3> QED BY <1>1, <2>3, <2>6, <3>1, <3>2, EnterGuarded
  <2>9. Guarded(q, st, "r_tmp", "r_branch", Branches)
    <3>1. 2 \in 1..3 /\ q[2][1] = "r_branch" BY <2>1
    <3>2. \A i \in 1..4 : q[i][1] = "r_branch" => q[i][2] \in Branches BY <2>5
    <3> QED BY <1>1, <2>3, <2>6, <3>1, <3>2, EnterGuarded
  <2>10. Guarded(q, st, "r_tmp", "r_tmp", Commits)
    <3>1. 3 \in 1..3 /\ q[3][1] = "r_tmp" BY <2>1
    <3>2. \A i \in 1..4 : q[i][1] = "r_tmp" => q[i][2] \in Commits BY <2>5
    <3> QED BY <1>1, <2>3, <2>6, <3>1, <3>2, EnterGuarded
  <2> QED BY <2>7, <2>8, <2>9, <2>10 DEF RefsGuarded
<1>6. ASSUME p.op = "histedit" PROVE RefsGuarded(q, st, hm)
  <2>1. /\ q[1][1] = "h_branch" /\ q[1][2] = hm /\ q[2][1] = "h_base"
        /\ q[2][2] \in Commits /\ q[3][1] = "h_tmp" /\ q[3][2] \in Commits
        /\ q[4][2] = "h_tmp"
    BY <1>4, <1>6, TmpRefs DEF Enters
  <2> HIDE DEF q, hm
  <2>2. \A i \in 1..4 : i = 1 \/ i = 2 \/ i = 3 \/ i = 4 OBVIOUS
  <2>3. \A i \in 1..4 : q[i][1] # "head" \/ i = 4 BY <2>1, <2>2
  <2>4. \A i \in DOMAIN q : q[i][1] = "head" => q[i][2] # "r_tmp" BY <1>1, <2>1, <2>2
  <2>5. \A i \in 1..4 : /\ q[i][1] = "h_tmp" => q[i][2] \in Commits
                        /\ q[i][1] = "h_branch" => q[i][2] \in {hm}
                        /\ q[i][1] = "h_base" => q[i][2] \in Commits
    BY <1>4, <2>1, <2>2
  <2>6. "r_tmp" \in Tmps /\ "h_tmp" \in Tmps BY DEF Tmps
  <2>7. \A k, V : Guarded(q, st, "r_tmp", k, V) BY <2>4, <2>6, OtherGuarded
  <2>8. Guarded(q, st, "h_tmp", "h_branch", {hm})
    <3>1. 1 \in 1..3 /\ q[1][1] = "h_branch" BY <2>1
    <3>2. \A i \in 1..4 : q[i][1] = "h_branch" => q[i][2] \in {hm} BY <2>5
    <3> QED BY <1>1, <2>3, <2>6, <3>1, <3>2, EnterGuarded
  <2>9. Guarded(q, st, "h_tmp", "h_base", Commits)
    <3>1. 2 \in 1..3 /\ q[2][1] = "h_base" BY <2>1
    <3>2. \A i \in 1..4 : q[i][1] = "h_base" => q[i][2] \in Commits BY <2>5
    <3> QED BY <1>1, <2>3, <2>6, <3>1, <3>2, EnterGuarded
  <2>10. Guarded(q, st, "h_tmp", "h_tmp", Commits)
    <3>1. 3 \in 1..3 /\ q[3][1] = "h_tmp" BY <2>1
    <3>2. \A i \in 1..4 : q[i][1] = "h_tmp" => q[i][2] \in Commits BY <2>5
    <3> QED BY <1>1, <2>3, <2>6, <3>1, <3>2, EnterGuarded
  <2> QED BY <2>7, <2>8, <2>9, <2>10 DEF RefsGuarded
<1>7. RefsGuarded(q, st, hm) BY <1>3, <1>5, <1>6
<1>8. WillBe(q, st, "head", {TmpRef[p.op]})
  <2>1. \A i \in DOMAIN q : q[i][1] = "head" => i = 4
    <3>1. /\ p.op = "rebase" => q[1][1] = "r_newbase" /\ q[2][1] = "r_branch"
                                /\ q[3][1] = "r_tmp"
          /\ p.op = "histedit" => q[1][1] = "h_branch" /\ q[2][1] = "h_base"
                                  /\ q[3][1] = "h_tmp"
      BY DEF Enters
    <3> HIDE DEF q
    <3> QED BY <1>1, <1>3, <3>1
  <2> HIDE DEF q
  <2> QED BY <1>1, <1>4, <2>1 DEF WillBe
<1>9. PhaseOK(st, p) BY <1>8 DEF PhaseOK, LivePhase, Live
<1>10. EndingOK(st, p, hm) BY DEF EndingOK, LivePhase, Live, Ending
<1> QED BY <1>7, <1>9, <1>10 DEF Steady, LivePhase
(***************************************************************************)
(* The plans of the commands                                               *)
(***************************************************************************)
LEMMA WriteTypes ==
    /\ \A v \in Commits : <<"base", v>> \in Writes
    /\ \A v \in Commits : \A b \in Branches : <<b, v>> \in Writes
    /\ \A v \in Ids : \A k \in IdKeys : <<k, v>> \in Writes
    /\ \A v \in Names : \A k \in NameKeys : <<k, v>> \in Writes
    /\ \A v \in Branches \cup Tmps : <<"head", v>> \in Writes
    /\ \A v \in Disk : <<"disk", v>> \in Writes
    /\ \A v \in Index : <<"index", v>> \in Writes
    /\ \A v \in Seq(Entry) : <<"script", v>> \in Writes
  BY DEF Writes

LEMMA TreeTypes ==
    ASSUME NEW id \in Commits
    PROVE  /\ id \in Seq([msg : Messages, tree : SUBSET Hunk])
           /\ Len(id) \in Nat /\ Len(id) >= 1
           /\ Tree(id) \in SUBSET Hunk /\ Last(id).msg \in Messages
<1>1. id \in Seq([msg : Messages, tree : SUBSET Hunk]) /\ id # <<>> BY DEF Commits, NoId
<1>2. Len(id) \in Nat /\ Len(id) >= 1 BY <1>1
<1> DEFINE S == [msg : Messages, tree : SUBSET Hunk]
<1> HIDE DEF S
<1>4. id \in Seq(S) BY <1>1 DEF S
<1>5. Len(id) \in 1..Len(id) BY <1>2
<1>6. id[Len(id)] \in S BY <1>4, <1>5
<1>3. id[Len(id)] \in [msg : Messages, tree : SUBSET Hunk] BY <1>6 DEF S
<1> QED BY <1>1, <1>2, <1>3 DEF Tree, Last

LEMMA NewCommitIs ==
    ASSUME StoreOK(store), store[store.head] \in Commits, NEW ct, NEW msg \in Messages
    PROVE  NewCommit(ct, msg) \in Commits
<1> DEFINE old == Tree(store[store.head])
           fs == {f \in ct : MatchesEntry(f)}
           tree == (old \ Within(old, fs)) \cup Within(store.disk.hunks, fs)
           e == [msg |-> msg, tree |-> tree]
<1>1. store.base \in Commits /\ store.disk \in Disk BY StoreTypes
<1>2. old \subseteq Hunk BY TreeTypes
<1>3. store.disk.hunks \subseteq Hunk BY <1>1 DEF Disk
<1>4. tree \in SUBSET Hunk BY <1>2, <1>3 DEF Within
<1>5. NewCommit(ct, msg) = Append(store.base, e) BY DEF NewCommit
<1> HIDE DEF tree
<1>6. e \in [msg : Messages, tree : SUBSET Hunk] BY <1>4
<1> HIDE DEF e
<1> DEFINE S == [msg : Messages, tree : SUBSET Hunk]
<1>8. store.base \in Seq(S) /\ e \in S BY <1>1, <1>6, TreeTypes
<1> HIDE DEF S
<1>9. Append(store.base, e) \in Seq(S) /\ Append(store.base, e) # <<>> BY <1>8, AppendProperties
<1>7. /\ Append(store.base, e) \in Seq([msg : Messages, tree : SUBSET Hunk])
      /\ Append(store.base, e) # <<>>
  BY <1>9 DEF S
<1> QED BY <1>5, <1>7 DEF Commits, NoId

LEMMA IndexAfterCommitIs ==
    ASSUME StoreOK(store), NEW ct, NEW id \in Commits
    PROVE  IndexAfterCommit(ct, id) \in Index
<1>1. store.index \in Index /\ store.disk \in Disk BY StoreTypes
<1>2. store.index.blob \subseteq Hunk /\ store.disk.hunks \subseteq Hunk BY <1>1 DEF Index, Disk
<1>3. (store.index.blob \ Within(store.index.blob, ct))
         \cup Within(store.disk.hunks, ct) \in SUBSET Hunk
  BY <1>2 DEF Within
<1>4. [f \in Files |-> IF f \in ct THEN id ELSE store.index.commit[f]] \in [Files -> Commits]
  BY <1>1 DEF Index
<1> QED BY <1>3, <1>4 DEF IndexAfterCommit, Index

LEMMA MergeIsDisk ==
    ASSUME StoreOK(store), NEW id \in Commits, NEW fs, NEW c \in SUBSET Files
    PROVE  MergeFiles(id, fs, c) \in Disk
<1>1. store.disk \in Disk BY StoreTypes
<1>2. store.disk.hunks \subseteq Hunk /\ store.disk.conf \subseteq Files BY <1>1 DEF Disk
<1>3. Tree(id) \subseteq Hunk BY TreeTypes
<1>4. (store.disk.hunks \ Within(Tree(Front(id)) \ Tree(id), fs))
         \cup Within(Tree(id) \ Tree(Front(id)), fs) \in SUBSET Hunk
  BY <1>2, <1>3 DEF Within
<1> QED BY <1>2, <1>4 DEF MergeFiles, Disk

LEMMA CheckedOutIs ==
    ASSUME StoreOK(store), NEW id \in Commits
    PROVE  /\ CheckedOut(id) \in SUBSET Hunk
           /\ [hunks |-> store.index.blob, conf |-> {}] \in Disk
           /\ [hunks |-> CheckedOut(id), conf |-> {}] \in Disk
           /\ [blob |-> CheckedOut(id),
               commit |-> [f \in Files |-> IF f \in Installed(id) THEN id
                                           ELSE store.index.commit[f]]] \in Index
<1>1. store.index \in Index BY StoreTypes
<1>2. store.index.blob \subseteq Hunk BY <1>1 DEF Index
<1>3. Tree(id) \subseteq Hunk BY TreeTypes
<1>4. CheckedOut(id) \in SUBSET Hunk BY <1>2, <1>3 DEF CheckedOut, Within
<1>5. [f \in Files |-> IF f \in Installed(id) THEN id ELSE store.index.commit[f]]
         \in [Files -> Commits]
  BY <1>1 DEF Index
<1> QED BY <1>2, <1>4, <1>5 DEF Disk, Index

LEMMA CommitPlan ==
    ASSUME StoreOK(store), store[store.head] \in Commits, NEW op \in Operations,
           NEW paths, NEW msg \in Messages
    PROVE  Plain(RebaseCommitWrites(op, paths, msg))
<1> DEFINE ct == Changed \cap paths
           id == NewCommit(ct, msg)
           k == CommitRef[op]
           t == TmpRef[op]
           ix == IndexAfterCommit(ct, id)
<1>1. id \in Commits BY NewCommitIs
<1>2. ix \in Index BY <1>1, IndexAfterCommitIs
<1>3. /\ k \in {"r_commit", "h_commit"} /\ t \in Tmps /\ t \in IdKeys /\ k \in IdKeys
  BY TmpRefs DEF Operations, Tmps, IdKeys
<1>4. NoId \in Ids /\ id \in Ids BY <1>1 DEF Ids
<1>5. RebaseCommitWrites(op, paths, msg) =
        IF ct = {} THEN << <<k, NoId>> >>
        ELSE << <<t, id>>, <<"base", id>>, <<k, NoId>>, <<"index", ix>> >>
  BY DEF RebaseCommitWrites
<1> HIDE DEF ct, id, k, t, ix
<1>6. /\ <<k, NoId>> \in Writes /\ <<t, id>> \in Writes /\ <<"base", id>> \in Writes
      /\ <<"index", ix>> \in Writes
  BY <1>1, <1>2, <1>3, <1>4, WriteTypes
<1>7. Plain(<< <<k, NoId>> >>) BY <1>3, <1>6 DEF Plain, NameKeys, Tmps
<1>8. Plain(<< <<t, id>>, <<"base", id>>, <<k, NoId>>, <<"index", ix>> >>)
  BY <1>1, <1>3, <1>6 DEF Plain, NameKeys, Tmps
<1> QED BY <1>5, <1>7, <1>8

LEMMA StoreCommitIdPlan ==
    ASSUME NEW op \in Operations, NEW id \in Commits
    PROVE  Plain(StoreCommitId(op, id)) /\ Plain(<<>>)
<1> DEFINE k == CommitRef[op]
<1>1. k \in {"r_commit", "h_commit"} /\ k \in IdKeys BY TmpRefs DEF Operations, IdKeys
<1>2. <<k, id>> \in Writes BY <1>1, WriteTypes DEF Ids
<1>3. Plain(<<>>) BY DEF Plain
<1> HIDE DEF k
<1>4. Plain(<< <<k, id>> >>) BY <1>1, <1>2 DEF Plain, NameKeys, Tmps
<1> QED BY <1>3, <1>4 DEF StoreCommitId, k

LEMMA OnePlusOne == \A v, w : /\ <<v>> \o <<w>> = <<v, w>>
                              /\ <<>> \o <<w>> = <<w>>
<1> SUFFICES ASSUME NEW v, NEW w PROVE <<v>> \o <<w>> = <<v, w>> /\ <<>> \o <<w>> = <<w>>
  OBVIOUS
<1>1. <<v>> \in Seq({v, w}) /\ <<w>> \in Seq({v, w}) /\ <<v, w>> \in Seq({v, w}) OBVIOUS
<1>2. <<v>> \o <<w>> = <<v, w>>
  <2> DEFINE s == <<v>> \o <<w>>
  <2>1. s \in Seq({v, w}) /\ Len(s) = 2 /\ s[1] = v /\ s[2] = w
    BY <1>1, ConcatProperties
  <2>2. Len(<<v, w>>) = 2 /\ <<v, w>>[1] = v /\ <<v, w>>[2] = w OBVIOUS
  <2> HIDE DEF s
  <2>3. \A i \in 1..Len(s) : i = 1 \/ i = 2 BY <2>1
  <2>4. \A i \in 1..Len(s) : s[i] = <<v, w>>[i] BY <2>1, <2>2, <2>3
  <2>5. s = <<v, w>> BY <1>1, <2>1, <2>2, <2>4, SeqEqual
  <2> QED BY <2>5 DEF s
<1>3. <<>> \o <<w>> = <<w>> BY <1>1, ConcatEmptySeq
<1> QED BY <1>2, <1>3

LEMMA SkipPlan ==
    ASSUME NEW id \in Commits
    PROVE  Plain(SkipCommitWrites(id))
<1>1. StoreCommitId("histedit", id) = << <<"h_commit", id>> >>
      \/ StoreCommitId("histedit", id) = <<>>
  BY TmpRefs DEF StoreCommitId
<1>2. <<"h_commit", id>> \in Writes /\ <<"h_commit", NoId>> \in Writes
  BY WriteTypes DEF Ids, IdKeys
<1>3. Plain(<< <<"h_commit", id>>, <<"h_commit", NoId>> >>) BY <1>2 DEF Plain, NameKeys, Tmps
<1>4. Plain(<< <<"h_commit", NoId>> >>) BY <1>2 DEF Plain, NameKeys, Tmps
<1>5. << <<"h_commit", id>> >> \o << <<"h_commit", NoId>> >>
         = << <<"h_commit", id>>, <<"h_commit", NoId>> >>
  BY OnePlusOne
<1>6. <<>> \o << <<"h_commit", NoId>> >> = << <<"h_commit", NoId>> >> BY OnePlusOne
<1> QED BY <1>1, <1>3, <1>4, <1>5, <1>6 DEF SkipCommitWrites

LEMMA ScriptPlan ==
    ASSUME NEW s \in Seq(Entry)
    PROVE  Plain(<< <<"script", s>> >>)
<1>1. <<"script", s>> \in Writes BY WriteTypes
<1> QED BY <1>1 DEF Plain, NameKeys, Tmps

(* The references of an operation, which it deletes.                       *)
LEMMA DeletePlan ==
    ASSUME NEW op \in Operations
    PROVE  /\ DeleteRefs(op) \in Seq(Writes) /\ Len(DeleteRefs(op)) = 4
           /\ \A i \in 1..4 : /\ DeleteRefs(op)[i][1] \in IdKeys \cup NameKeys
                              /\ DeleteRefs(op)[i][1] = "r_commit" =>
                                    DeleteRefs(op)[i][2] = NoId
           /\ op = "rebase" => DeleteRefs(op)[4][1] = "r_commit"
<1>1. NoId \in Ids /\ NoName \in Names BY DEF Ids, Names
<1>2. op = "rebase" \/ op = "histedit" BY DEF Operations
<1>3. CASE op = "rebase"
  <2>1. DeleteRefs(op) = << <<"r_tmp", NoId>>, <<"r_newbase", NoName>>,
                            <<"r_branch", NoName>>, <<"r_commit", NoId>> >>
    BY <1>3 DEF DeleteRefs
  <2>2. /\ <<"r_tmp", NoId>> \in Writes /\ <<"r_newbase", NoName>> \in Writes
        /\ <<"r_branch", NoName>> \in Writes /\ <<"r_commit", NoId>> \in Writes
    BY <1>1, WriteTypes DEF IdKeys, NameKeys
  <2> DEFINE d == DeleteRefs(op)
  <2>3. d \in Seq(Writes) /\ Len(d) = 4 BY <2>1, <2>2
  <2>4. /\ d[1][1] \in IdKeys /\ d[2][1] \in IdKeys \cup NameKeys
        /\ d[3][1] \in NameKeys /\ d[4][1] \in IdKeys
    BY <2>1 DEF IdKeys, NameKeys
  <2>5. /\ d[1][1] # "r_commit" /\ d[2][1] # "r_commit" /\ d[3][1] # "r_commit"
        /\ d[4][1] = "r_commit" /\ d[4][2] = NoId
    BY <2>1
  <2> HIDE DEF d
  <2>6. \A i \in 1..4 : i = 1 \/ i = 2 \/ i = 3 \/ i = 4 OBVIOUS
  <2>7. \A i \in 1..4 : d[i][1] \in IdKeys \cup NameKeys BY <2>4, <2>6
  <2>8. \A i \in 1..4 : d[i][1] = "r_commit" => d[i][2] = NoId BY <2>5, <2>6
  <2> QED BY <1>3, <2>3, <2>5, <2>7, <2>8 DEF d
<1>4. CASE op = "histedit"
  <2>1. DeleteRefs(op) = << <<"h_tmp", NoId>>, <<"h_base", NoId>>,
                            <<"h_branch", NoName>>, <<"h_commit", NoId>> >>
    BY <1>4 DEF DeleteRefs
  <2>2. /\ <<"h_tmp", NoId>> \in Writes /\ <<"h_base", NoId>> \in Writes
        /\ <<"h_branch", NoName>> \in Writes /\ <<"h_commit", NoId>> \in Writes
    BY <1>1, WriteTypes DEF IdKeys, NameKeys
  <2> DEFINE d == DeleteRefs(op)
  <2>3. d \in Seq(Writes) /\ Len(d) = 4 BY <2>1, <2>2
  <2>4. /\ d[1][1] \in IdKeys /\ d[2][1] \in IdKeys \cup NameKeys
        /\ d[3][1] \in NameKeys /\ d[4][1] \in IdKeys
    BY <2>1 DEF IdKeys, NameKeys
  <2>5. /\ d[1][1] # "r_commit" /\ d[2][1] # "r_commit" /\ d[3][1] # "r_commit"
        /\ d[4][1] # "r_commit"
    BY <2>1
  <2> HIDE DEF d
  <2>6. \A i \in 1..4 : i = 1 \/ i = 2 \/ i = 3 \/ i = 4 OBVIOUS
  <2>7. \A i \in 1..4 : d[i][1] \in IdKeys \cup NameKeys BY <2>4, <2>6
  <2>8. \A i \in 1..4 : d[i][1] = "r_commit" => d[i][2] = NoId BY <2>5, <2>6
  <2> QED BY <1>4, <2>3, <2>5, <2>7, <2>8 DEF d
<1> QED BY <1>2, <1>3, <1>4

(* Two and three sequences, one after the other.                           *)
Joined(a, d) == a \o d
InARow(a, d, z) == a \o d \o z

LEMMA TwoParts ==
    ASSUME NEW a \in Seq(Writes), NEW d \in Seq(Writes)
    PROVE  /\ Joined(a, d) \in Seq(Writes) /\ Len(Joined(a, d)) = Len(a) + Len(d)
           /\ \A i \in 1..Len(a) : Joined(a, d)[i] = a[i]
           /\ \A i \in 1..Len(d) : Joined(a, d)[Len(a) + i] = d[i]
<1> DEFINE b == a \o d
           n == Len(a)
           m == Len(d)
<1>a. n \in Nat /\ m \in Nat OBVIOUS
<1>1. /\ b \in Seq(Writes) /\ Len(b) = Len(a) + Len(d)
      /\ \A i \in 1..(Len(a) + Len(d)) : b[i] = IF i <= Len(a) THEN a[i] ELSE d[i - Len(a)]
  BY ConcatProperties
<1> HIDE DEF b
<1>2. Len(b) = n + m /\ \A i \in 1..(n + m) : b[i] = IF i <= n THEN a[i] ELSE d[i - n]
  BY <1>1
<1> HIDE DEF n, m
<1>3. \A i \in 1..n : b[i] = a[i] BY <1>2, <1>a
<1>4. ASSUME NEW i \in 1..m PROVE b[n + i] = d[i]
  <2>1. n + i \in 1..(n + m) /\ ~(n + i <= n) /\ (n + i) - n = i BY <1>a
  <2> QED BY <1>2, <2>1
<1> QED BY <1>1, <1>2, <1>3, <1>4 DEF b, Joined, n, m

LEMMA ThreeParts ==
    ASSUME NEW a \in Seq(Writes), NEW d \in Seq(Writes), NEW z \in Seq(Writes),
           Len(a) = 2, Len(d) = 4
    PROVE  /\ InARow(a, d, z) \in Seq(Writes) /\ Len(InARow(a, d, z)) = 6 + Len(z)
           /\ \A i \in 1..2 : InARow(a, d, z)[i] = a[i]
           /\ \A i \in 1..4 : InARow(a, d, z)[2 + i] = d[i]
           /\ \A i \in 1..Len(z) : InARow(a, d, z)[6 + i] = z[i]
<1> DEFINE b == Joined(a, d)
<1>a. /\ b \in Seq(Writes) /\ Len(b) = Len(a) + Len(d)
      /\ \A i \in 1..Len(a) : b[i] = a[i]
      /\ \A i \in 1..Len(d) : b[Len(a) + i] = d[i]
  BY TwoParts
<1> HIDE DEF b
<1>1. /\ b \in Seq(Writes) /\ Len(b) = 6
      /\ \A i \in 1..2 : b[i] = a[i]
      /\ \A i \in 1..4 : b[2 + i] = d[i]
  BY <1>a
<1>2. InARow(a, d, z) = Joined(b, z) BY DEF InARow, Joined, b
<1>3. Len(z) \in Nat OBVIOUS
<1> DEFINE q == Joined(b, z)
<1>b. /\ q \in Seq(Writes) /\ Len(q) = Len(b) + Len(z)
      /\ \A i \in 1..Len(b) : q[i] = b[i]
      /\ \A i \in 1..Len(z) : q[Len(b) + i] = z[i]
  BY <1>1, TwoParts
<1> HIDE DEF q
<1>4. /\ q \in Seq(Writes) /\ Len(q) = 6 + Len(z)
      /\ \A i \in 1..6 : q[i] = b[i]
      /\ \A i \in 1..Len(z) : q[6 + i] = z[i]
  BY <1>1, <1>3, <1>b
<1>5. \A i \in 1..2 : q[i] = a[i] BY <1>1, <1>4
<1>6. \A i \in 1..4 : q[2 + i] = d[i]
  <2>1. \A i \in 1..4 : 2 + i \in 1..6 OBVIOUS
  <2> QED BY <1>1, <1>4, <2>1
<1> QED BY <1>2, <1>4, <1>5, <1>6 DEF q

(* A write to none of the references of an operation, nor to its script.   *)
Harmless(w) == w[1] \notin IdKeys \cup NameKeys \cup {"head", "script"}

(* The record of rebase is deleted, if the plan is one of rebase.          *)
Forgets(plan, op) ==
    /\ \A i \in DOMAIN plan : plan[i][1] = "r_commit" => plan[i][2] = NoId
    /\ op = "rebase" => \E i \in DOMAIN plan : plan[i][1] = "r_commit"

LEMMA LeavePlan ==
    ASSUME NEW op \in Operations, NEW b, NEW a \in Seq(Writes), Len(a) = 2,
           NEW z \in Seq(Writes), Len(z) >= 1, NEW m \in 1..2,
           a[m] = <<"head", b>>, z[Len(z)][1] = "index",
           \A i \in 1..2 : i # m => Harmless(a[i]),
           \A i \in 1..Len(z) : Harmless(z[i])
    PROVE  /\ Leaves(InARow(a, DeleteRefs(op), z), b, m)
           /\ Forgets(InARow(a, DeleteRefs(op), z), op)
<1> DEFINE d == DeleteRefs(op)
           q == InARow(a, d, z)
<1>1. /\ d \in Seq(Writes) /\ Len(d) = 4
      /\ op = "rebase" => d[4][1] = "r_commit"
      /\ \A i \in 1..4 : /\ d[i][1] \in IdKeys \cup NameKeys
                         /\ d[i][1] = "r_commit" => d[i][2] = NoId
  BY DeletePlan
<1>a. /\ "head" \notin IdKeys \cup NameKeys /\ "r_commit" \in IdKeys /\ "r_commit" # "head"
      /\ "script" \notin IdKeys \cup NameKeys
  BY DEF IdKeys, NameKeys
<1>2. Len(z) \in Nat OBVIOUS
<1> HIDE DEF d
<1>4. /\ q \in Seq(Writes) /\ Len(q) = 6 + Len(z)
      /\ \A i \in 1..2 : q[i] = a[i]
      /\ \A i \in 1..4 : q[2 + i] = d[i]
      /\ \A i \in 1..Len(z) : q[6 + i] = z[i]
  BY <1>1, ThreeParts
<1> HIDE DEF q
<1>5. DOMAIN q = 1..Len(q) BY <1>4
<1>6. ASSUME NEW i \in DOMAIN q
      PROVE  \/ i \in 1..2 /\ q[i] = a[i]
             \/ i \in 3..6 /\ \E j \in 1..4 : q[i] = d[j]
             \/ i > 6 /\ \E j \in 1..Len(z) : q[i] = z[j]
  <2>1. CASE i \in 1..2 BY <1>4, <2>1
  <2>2. CASE i \in 3..6
    <3>1. i - 2 \in 1..4 /\ 2 + (i - 2) = i BY <2>2
    <3> QED BY <1>4, <2>2, <3>1
  <2>3. CASE i > 6
    <3>1. i - 6 \in 1..Len(z) /\ 6 + (i - 6) = i BY <1>2, <1>4, <1>5, <2>3
    <3> QED BY <1>4, <2>3, <3>1
  <2> QED BY <1>2, <1>4, <1>5, <2>1, <2>2, <2>3
<1>7. ASSUME NEW i \in DOMAIN q
      PROVE  /\ q[i][1] = "head" => i = m
             /\ q[i][1] \in IdKeys \cup NameKeys => m < i
             /\ q[i][1] # "script"
  <2>1. CASE i \in 1..2 /\ q[i] = a[i]
    <3>1. CASE i = m
      <4>1. q[i][1] = "head" BY <2>1, <3>1
      <4>2. "head" \notin IdKeys \cup NameKeys BY DEF IdKeys, NameKeys
      <4> QED BY <3>1, <4>1, <4>2
    <3>2. CASE i # m BY <2>1, <3>2 DEF Harmless
    <3> QED BY <3>1, <3>2
  <2>2. CASE i \in 3..6 /\ \E j \in 1..4 : q[i] = d[j] BY <1>1, <1>a, <2>2
  <2>3. CASE i > 6 /\ \E j \in 1..Len(z) : q[i] = z[j] BY <1>5, <2>3 DEF Harmless
  <2> QED BY <1>6, <2>1, <2>2, <2>3
<1>8. q[m] = <<"head", b>> /\ m \in DOMAIN q /\ m < Len(q) BY <1>2, <1>4, <1>5
<1>9. q[Len(q)] = z[Len(z)] BY <1>2, <1>4
<1>10. Leaves(q, b, m) BY <1>4, <1>7, <1>8, <1>9 DEF Leaves
<1>11. ASSUME NEW i \in DOMAIN q, q[i][1] = "r_commit" PROVE q[i][2] = NoId
  <2>1. CASE i \in 1..2 /\ q[i] = a[i]
    <3>1. CASE i = m BY <1>a, <1>11, <2>1, <3>1
    <3>2. CASE i # m BY <1>a, <1>11, <2>1, <3>2 DEF Harmless
    <3> QED BY <3>1, <3>2
  <2>2. CASE i \in 3..6 /\ \E j \in 1..4 : q[i] = d[j] BY <1>1, <1>11, <2>2
  <2>3. CASE i > 6 /\ \E j \in 1..Len(z) : q[i] = z[j] BY <1>a, <1>11, <2>3 DEF Harmless
  <2> QED BY <1>6, <2>1, <2>2, <2>3
<1>12. 6 \in DOMAIN q /\ q[6] = d[4]
  <2>1. 4 \in 1..4 /\ 2 + 4 = 6 OBVIOUS
  <2> QED BY <1>2, <1>4, <1>5, <2>1
<1>13. Forgets(q, op) BY <1>1, <1>11, <1>12 DEF Forgets
<1> QED BY <1>10, <1>13 DEF d, q

LEMMA AbortPlan ==
    ASSUME StoreOK(store), NEW op \in Operations, NEW b \in Branches, NEW id \in Commits
    PROVE  LET q == AbortWrites(op, b, id)
           IN  /\ Leaves(q, b, 1) /\ Forgets(q, op) /\ Len(q) = 9
               /\ q[8] = <<"disk", [hunks |-> CheckedOut(id), conf |-> {}]>>
               /\ q[9][2].blob = CheckedOut(id)
<1> DEFINE w1 == <<"head", b>>
           w2 == <<"base", id>>
           w7 == <<"disk", [hunks |-> store.index.blob, conf |-> {}]>>
           w8 == <<"disk", [hunks |-> CheckedOut(id), conf |-> {}]>>
           ix == [blob |-> CheckedOut(id),
                  commit |-> [f \in Files |-> IF f \in Installed(id) THEN id
                                              ELSE store.index.commit[f]]]
           w9 == <<"index", ix>>
<1>1. /\ w1 \in Writes /\ w2 \in Writes /\ w7 \in Writes /\ w8 \in Writes /\ w9 \in Writes
  BY CheckedOutIs, WriteTypes
<1>2. AbortWrites(op, b, id) = InARow(<<w1, w2>>, DeleteRefs(op), <<w7, w8, w9>>)
  BY DEF AbortWrites, InARow
<1>3. /\ w1 = <<"head", b>> /\ w2[1] = "base" /\ w7[1] = "disk" /\ w8[1] = "disk"
      /\ w9[1] = "index" /\ w9[2].blob = CheckedOut(id)
  OBVIOUS
<1> HIDE DEF w1, w2, w7, w8, w9
<1> DEFINE a == <<w1, w2>>
           z == <<w7, w8, w9>>
<1>4. a \in Seq(Writes) /\ Len(a) = 2 /\ a[1] = w1 /\ a[2] = w2 BY <1>1
<1>5. z \in Seq(Writes) /\ Len(z) = 3 /\ z[1] = w7 /\ z[2] = w8 /\ z[3] = w9 BY <1>1
<1>6. {"base", "disk", "index"} \cap (IdKeys \cup NameKeys \cup {"head", "script"}) = {}
  BY DEF IdKeys, NameKeys
<1> HIDE DEF a, z
<1>7. \A i \in 1..2 : i # 1 => Harmless(a[i])
  BY <1>3, <1>4, <1>6 DEF Harmless
<1>8. \A i \in 1..Len(z) : Harmless(z[i])
  <2>1. \A i \in 1..3 : i = 1 \/ i = 2 \/ i = 3 OBVIOUS
  <2> QED BY <1>3, <1>5, <1>6, <2>1 DEF Harmless
<1>9. a[1] = <<"head", b>> /\ z[Len(z)][1] = "index" BY <1>3, <1>4, <1>5
<1>10. 1 \in 1..2 /\ Len(z) >= 1 BY <1>5
<1> DEFINE q == InARow(a, DeleteRefs(op), z)
<1>11. Leaves(q, b, 1) /\ Forgets(q, op)
  BY <1>4, <1>5, <1>7, <1>8, <1>9, <1>10, LeavePlan
<1>12. Len(q) = 6 + Len(z) /\ \A i \in 1..Len(z) : q[6 + i] = z[i]
  BY <1>4, <1>5, DeletePlan, ThreeParts
<1> HIDE DEF q
<1>13. Len(q) = 9 /\ q[8] = w8 /\ q[9] = w9
  <2>1. 2 \in 1..Len(z) /\ 3 \in 1..Len(z) /\ 6 + 2 = 8 /\ 6 + 3 = 9 BY <1>5
  <2> QED BY <1>5, <1>12, <2>1
<1>14. AbortWrites(op, b, id) = q BY <1>2 DEF a, z, q
<1> QED BY <1>3, <1>11, <1>13, <1>14 DEF w8

LEMMA CompletePlan ==
    ASSUME StoreOK(store), NEW op \in Operations, NEW b \in Branches,
           store[TmpRef[op]] \in Commits
    PROVE  LET q == CompleteWrites(op, b)
           IN  /\ Leaves(q, b, 2) /\ Forgets(q, op)
               /\ \A i \in DOMAIN q : /\ q[i][1] # "disk"
                                      /\ q[i][1] = "index" => q[i][2].blob = store.index.blob
<1> DEFINE w1 == <<b, store[TmpRef[op]]>>
           w2 == <<"head", b>>
           ix == [store.index EXCEPT !.commit = [f \in Files |-> store.base]]
           w7 == <<"index", ix>>
<1>1. store.index \in Index /\ store.base \in Commits BY StoreTypes
<1>2. ix \in Index BY <1>1 DEF Index
<1>3. w1 \in Writes /\ w2 \in Writes /\ w7 \in Writes BY <1>2, WriteTypes
<1>4. CompleteWrites(op, b) = InARow(<<w1, w2>>, DeleteRefs(op), <<w7>>)
  BY DEF CompleteWrites, InARow
<1>5. w1[1] = b /\ w2 = <<"head", b>> /\ w7[1] = "index" OBVIOUS
<1>a. w7[2].blob = store.index.blob BY <1>1 DEF Index
<1> HIDE DEF w1, w2, w7
<1> DEFINE a == <<w1, w2>>
           z == <<w7>>
<1>6. a \in Seq(Writes) /\ Len(a) = 2 /\ a[1] = w1 /\ a[2] = w2 BY <1>3
<1>7. z \in Seq(Writes) /\ Len(z) = 1 /\ z[1] = w7 BY <1>3
<1>8. (Branches \cup {"index"}) \cap (IdKeys \cup NameKeys \cup {"head", "script"}) = {}
  BY DEF IdKeys, NameKeys, Branches
<1> HIDE DEF a, z
<1>9. \A i \in 1..2 : i # 2 => Harmless(a[i])
  BY <1>5, <1>6, <1>8 DEF Harmless
<1>10. \A i \in 1..Len(z) : Harmless(z[i])
  BY <1>5, <1>7, <1>8 DEF Harmless
<1>11. a[2] = <<"head", b>> /\ z[Len(z)][1] = "index" BY <1>5, <1>6, <1>7
<1>12. 2 \in 1..2 /\ Len(z) >= 1 BY <1>7
<1> DEFINE d == DeleteRefs(op)
           q == InARow(a, d, z)
<1>13. Leaves(q, b, 2) /\ Forgets(q, op)
  BY <1>6, <1>7, <1>9, <1>10, <1>11, <1>12, LeavePlan
<1>14. d \in Seq(Writes) /\ Len(d) = 4 /\ \A i \in 1..4 : d[i][1] \in IdKeys \cup NameKeys
  BY DeletePlan
<1> HIDE DEF d
<1>15. /\ q \in Seq(Writes) /\ Len(q) = 6 + Len(z) /\ \A i \in 1..2 : q[i] = a[i]
       /\ \A i \in 1..4 : q[2 + i] = d[i]
       /\ \A i \in 1..Len(z) : q[6 + i] = z[i]
  BY <1>6, <1>7, <1>14, ThreeParts
<1> HIDE DEF q
<1>16. DOMAIN q = 1..7 BY <1>7, <1>15
<1>17. ASSUME NEW i \in DOMAIN q
       PROVE  q[i][1] # "disk" /\ (q[i][1] = "index" => q[i][2].blob = store.index.blob)
  <2>1. CASE i \in 1..2
    <3>1. i = 1 \/ i = 2 BY <2>1
    <3> QED BY <1>5, <1>6, <1>15, <2>1, <3>1 DEF Branches
  <2>2. CASE i \in 3..6
    <3>1. i - 2 \in 1..4 /\ 2 + (i - 2) = i BY <2>2
    <3>2. q[i][1] \in IdKeys \cup NameKeys BY <1>14, <1>15, <3>1
    <3> QED BY <3>2 DEF IdKeys, NameKeys
  <2>3. CASE i = 7
    <3>1. 1 \in 1..Len(z) /\ 6 + 1 = 7 BY <1>7
    <3>2. q[7] = w7 BY <1>7, <1>15, <3>1
    <3> QED BY <1>5, <1>a, <2>3, <3>2
  <2> QED BY <1>16, <2>1, <2>2, <2>3
<1>18. CompleteWrites(op, b) = q BY <1>4 DEF a, z, d, q
<1> QED BY <1>13, <1>17, <1>18
(***************************************************************************)
(* Commits to replay                                                       *)
(***************************************************************************)
LEMMA InitialPart ==
    ASSUME NEW id \in Commits, NEW n \in 1..Len(id)
    PROVE  SubSeq(id, 1, n) \in Commits /\ Len(SubSeq(id, 1, n)) = n
<1> DEFINE S == [msg : Messages, tree : SUBSET Hunk]
           q == SubSeq(id, 1, n)
<1>1. id \in Seq(S) /\ Len(id) \in Nat BY TreeTypes
<1> HIDE DEF S
<1>2. \A i \in 1..n : id[i] \in S BY <1>1
<1>3. q \in Seq(S) /\ Len(q) = n
  <2>1. 1 \in Int /\ n \in Int /\ 1 <= n BY <1>1
  <2>2. SubSeq(id, 1, n) \in Seq(S) /\ Len(SubSeq(id, 1, n)) = IF 1 <= n THEN n - 1 + 1 ELSE 0
    BY <1>2, <2>1, SubSeqProperties
  <2> QED BY <2>1, <2>2
<1> HIDE DEF q
<1>4. q # <<>> BY <1>1, <1>3
<1> QED BY <1>3, <1>4 DEF Commits, NoId, S, q

LEMMA IdLength == \A id \in Ids : Len(id) \in Nat
  BY TreeTypes DEF Ids, NoId

LEMMA CommitsAfterIs ==
    ASSUME NEW from \in Ids, NEW tip \in Ids
    PROVE  /\ CommitsAfter(from, tip) \in Seq(Entry)
           /\ DOMAIN CommitsAfter(from, tip) = 1..(Len(tip) - Len(from))
           /\ \A i \in 1..(Len(tip) - Len(from)) :
                 /\ Len(from) + i \in 1..Len(tip)
                 /\ CommitsAfter(from, tip)[i].id = SubSeq(tip, 1, Len(from) + i)
                 /\ CommitsAfter(from, tip)[i].id \in Commits
                 /\ CommitsAfter(from, tip)[i].cmd = "pick"
<1> DEFINE m == Len(from)
           k == Len(tip) - m
           q == CommitsAfter(from, tip)
<1>1. m \in Nat /\ Len(tip) \in Nat BY IdLength
<1>2. q = [i \in 1..k |-> [cmd |-> "pick", id |-> SubSeq(tip, 1, m + i)]]
  BY DEF CommitsAfter
<1>3. ASSUME NEW i \in 1..k PROVE m + i \in 1..Len(tip) BY <1>1
<1>4. ASSUME NEW i \in 1..k PROVE SubSeq(tip, 1, m + i) \in Commits
  <2>1. m + i \in 1..Len(tip) BY <1>3
  <2>2. tip \in Commits BY <1>1, <2>1 DEF Ids, NoId
  <2> QED BY <2>1, <2>2, InitialPart
<1> HIDE DEF q
<1>5. \A i \in 1..k : q[i] = [cmd |-> "pick", id |-> SubSeq(tip, 1, m + i)] BY <1>2
<1>6. \A i \in 1..k : q[i] \in Entry
  <2>1. \A v \in Commits : [cmd |-> "pick", id |-> v] \in Entry BY DEF Entry
  <2> QED BY <1>4, <1>5, <2>1
<1>7. q \in Seq(Entry)
  <2>1. CASE k \in Nat
    <3>1. q \in [1..k -> Entry] BY <1>2, <1>6
    <3> QED BY <2>1, <3>1, SeqDef
  <2>2. CASE k \notin Nat
    <3>1. 1..k = {} BY <1>1, <2>2
    <3>3. 1..0 = {} OBVIOUS
    <3>4. q \in [1..0 -> Entry] BY <1>2, <3>1, <3>3
    <3>2. q \in Seq(Entry) BY <3>4, SeqDef
    <3> QED BY <3>2
  <2> QED BY <2>1, <2>2
<1>8. DOMAIN q = 1..k BY <1>2
<1>9. \A i \in 1..k : q[i].id = SubSeq(tip, 1, m + i) /\ q[i].cmd = "pick"
  <2> SUFFICES ASSUME NEW i \in 1..k
               PROVE  q[i].id = SubSeq(tip, 1, m + i) /\ q[i].cmd = "pick"
    OBVIOUS
  <2> DEFINE v == SubSeq(tip, 1, m + i)
  <2>1. q[i] = [cmd |-> "pick", id |-> v] BY <1>5
  <2> HIDE DEF v
  <2>2. q[i].id = v /\ q[i].cmd = "pick" BY <2>1
  <2> QED BY <2>2 DEF v
<1> QED BY <1>3, <1>4, <1>7, <1>8, <1>9 DEF q

(* There is a longest common prefix, and it is one.                        *)
LEMMA CommonPrefix ==
    ASSUME NEW a \in Commits, NEW b \in Commits
    PROVE  /\ LongestCommonPrefix({a, b}) \in Ids
           /\ IsPrefix(LongestCommonPrefix({a, b}), b)
<1> DEFINE P == CommonPrefixes({a, b})
           S == [msg : Messages, tree : SUBSET Hunk]
<1>1. a \in Seq(S) /\ b \in Seq(S) /\ Len(a) \in Nat /\ Len(b) \in Nat BY TreeTypes
<1> HIDE DEF S
<1>2. ASSUME NEW s \in {a, b}, NEW n \in 0..Len(s)
      PROVE  SubSeq(s, 1, n) \in Seq(S)
  <2>1. \A i \in 1..n : s[i] \in S BY <1>1, <1>2
  <2>2. 1 \in Int /\ n \in Int BY <1>2
  <2> QED BY <2>1, <2>2, SubSeqProperties
<1>3. \A x \in P : x \in Seq(S) /\ IsPrefix(x, a) /\ IsPrefix(x, b)
  <2>1. \A x \in P : /\ \E s \in {a, b} : x \in Prefixes(s)
                     /\ IsPrefix(x, a) /\ IsPrefix(x, b)
    BY Zenon DEF CommonPrefixes
  <2>2. \A s \in {a, b} : \A x \in Prefixes(s) : x \in Seq(S) BY <1>2, Zenon DEF Prefixes
  <2> QED BY <2>1, <2>2
<1>4. <<>> \in P
  <2>1. SubSeq(a, 1, 0) = <<>> /\ SubSeq(b, 1, 0) = <<>> /\ SubSeq(<<>>, 1, 0) = <<>>
    BY SubSeqEmpty
  <2>2. 0 \in 0..Len(a) BY <1>1
  <2>3. <<>> \in Prefixes(a) BY <2>1, <2>2 DEF Prefixes
  <2>4. Len(<<>>) = 0 OBVIOUS
  <2>5. IsPrefix(<<>>, a) /\ IsPrefix(<<>>, b) BY <1>1, <2>1, <2>4 DEF IsPrefix
  <2> QED BY <2>3, <2>5 DEF CommonPrefixes
<1> HIDE DEF P
<1>5. \A x \in P : Len(x) \in Nat /\ Len(x) <= Len(a) BY <1>3, <1>1 DEF IsPrefix
<1> DEFINE N == {Len(a) - Len(x) : x \in P}
           R == {r \in Nat \X Nat : r[1] < r[2]}
<1>6. N \in SUBSET Nat /\ N # {} BY <1>1, <1>4, <1>5
<1>7. IsWellFoundedOn(R, Nat) BY NatLessThanWellFounded DEF OpToRel
<1> HIDE DEF N
<1>8. PICK n \in N : \A y \in N : ~(<<y, n>> \in R) BY <1>6, <1>7, WFMin
<1>9. PICK x \in P : n = Len(a) - Len(x) BY DEF N
<1>10. ASSUME NEW y \in P PROVE Len(y) <= Len(x)
  <2>1. Len(a) - Len(y) \in N BY DEF N
  <2>2. ~(Len(a) - Len(y) < Len(a) - Len(x)) BY <1>6, <1>8, <1>9, <2>1
  <2> QED BY <1>1, <1>5, <2>2
<1>11. \E longest \in P : \A other \in P : Len(other) <= Len(longest) BY <1>10
<1>12. LongestCommonPrefix({a, b}) \in P BY <1>11 DEF LongestCommonPrefix, P
<1>13. \A y \in Seq(S) : y \in Ids BY DEF Ids, Commits, NoId, S
<1> QED BY <1>3, <1>12, <1>13
-----------------------------------------------------------------------------
(***************************************************************************)
(* Every step keeps the invariant                                          *)
(***************************************************************************)
LEMMA SteadyRunning ==
    ASSUME Steady(store, proc, home), proc # Idle
    PROVE  proc.at # "idle" /\ proc.op \in Operations
  BY DEF Steady, PhaseOK

LEMMA WriteStep ==
    ASSUME Steady(store, proc, home), Write
    PROVE  Steady(store', proc', home')
<1>1. /\ proc.plan # <<>> /\ home' = home
      /\ store' = Written(store, Head(proc.plan))
      /\ proc' = IF proc.at \in Ending /\ Len(proc.plan) = 1
                 THEN Idle ELSE [proc EXCEPT !.plan = Tail(@)]
  BY DEF Write, Do, Written, Ending, history
<1>2. ASSUME NEW p2, p2 = IF proc.at \in Ending /\ Len(proc.plan) = 1
                          THEN Idle ELSE [proc EXCEPT !.plan = Tail(@)]
      PROVE  Steady(Written(store, Head(proc.plan)), p2, home)
  BY <1>1, <1>2, WriteSteady
<1>3. Steady(Written(store, Head(proc.plan)), proc', home) BY <1>1, <1>2
<1> QED BY <1>1, <1>3

(* A command that goes on in the operation, with a plain plan.             *)
LEMMA GoesOn ==
    ASSUME Steady(store, proc, home), NEW op \in Operations, store.head = TmpRef[op],
           store' = store, home' = home,
           LivePhase(proc'), proc'.op = op, Plain(proc'.plan)
    PROVE  Steady(store', proc', home')
<1>1. Steady(store, Idle, home) BY StopSteady
<1>2. ASSUME NEW p, LivePhase(p), p.op = op, Plain(p.plan) PROVE Steady(store, p, home)
  BY <1>1, <1>2, PlainSteady
<1> QED BY <1>2

LEMMA Stops ==
    ASSUME Steady(store, proc, home), proc' = Idle, store' = store, home' = home
    PROVE  Steady(store', proc', home')
  BY StopSteady

(* The head of the list, while there are commits to replay.                *)
LEMMA FirstEntry ==
    ASSUME Steady(store, proc, home), proc.list # <<>>
    PROVE  /\ Head(proc.list) \in Entry /\ Tail(proc.list) \in Seq(Entry)
           /\ Head(proc.list).id \in Commits /\ Last(Head(proc.list).id).msg \in Messages
<1>1. proc.list \in Seq(Entry) BY DEF Steady, Process
<1>2. Head(proc.list) \in Entry /\ Tail(proc.list) \in Seq(Entry) BY <1>1
<1>3. Head(proc.list).id \in Commits BY <1>2 DEF Entry
<1> QED BY <1>2, <1>3, TreeTypes

LEMMA CommitStep ==
    ASSUME Steady(store, proc, home), Commit
    PROVE  Steady(store', proc', home')
<1> DEFINE pl == RebaseCommitWrites(proc.op, proc.merged, Last(Head(proc.list).id).msg)
           p2 == [proc EXCEPT !.plan = pl, !.at = "next", !.list = Tail(@), !.merged = {}]
<1>1. /\ proc.at = "commit" /\ proc.plan = <<>> /\ store' = store /\ home' = home
      /\ proc' = Idle \/ proc' = p2
  BY DEF Commit, At, history
<1>2. proc \in Process /\ StoreOK(store) /\ proc.list # <<>>
  BY <1>1 DEF Steady, PhaseOK
<1>3. proc.op \in Operations /\ store.head = TmpRef[proc.op] /\ proc.br \in Branches
  BY <1>1, LiveIsInPlace DEF Live
<1>4. Tail(proc.list) \in Seq(Entry) /\ Last(Head(proc.list).id).msg \in Messages
  BY <1>2, FirstEntry
<1>5. Plain(pl) BY <1>2, <1>3, <1>4, HeadExists, CommitPlan
<1> HIDE DEF pl
<1>6. pl \in Seq(Writes) BY <1>5 DEF Plain
<1>7. /\ p2 \in Process /\ p2.at = "next" /\ p2.op = proc.op /\ p2.br = proc.br
      /\ p2.plan = pl
  BY <1>2, <1>4, <1>6 DEF Process, Live
<1> HIDE DEF p2
<1>8. LivePhase(p2) BY <1>3, <1>7 DEF LivePhase, Live
<1>9. CASE proc' = p2 BY <1>1, <1>3, <1>5, <1>7, <1>8, <1>9, GoesOn
<1>10. CASE proc' = Idle BY <1>1, <1>10, Stops
<1> QED BY <1>1, <1>9, <1>10

(* A command that leaves the operation.                                    *)
LEMMA GoesHome ==
    ASSUME Steady(store, proc, home), store' = store, home' = home,
           NEW b \in Branches, NEW m, proc' \in Process, proc'.op \in Operations,
           proc'.at \in Ending, Leaves(proc'.plan, b, m),
           proc'.at = "aborting" => b = home
    PROVE  Steady(store', proc', home')
<1>1. Steady(store, Idle, home) BY StopSteady
<1>2. ASSUME NEW p \in Process, p.op \in Operations, p.at \in Ending, Leaves(p.plan, b, m),
             p.at = "aborting" => b = home
      PROVE  Steady(store, p, home)
  BY <1>1, <1>2, LeaveSteady
<1> QED BY <1>2

LEMMA CompleteStep ==
    ASSUME Steady(store, proc, home), Complete
    PROVE  Steady(store', proc', home')
<1> DEFINE pl == CompleteWrites(proc.op, proc.br)
<1>1. /\ proc.at = "next" /\ proc.plan = <<>> /\ store' = store /\ home' = home
      /\ proc' = [proc EXCEPT !.plan = pl, !.at = "completing"]
  BY DEF Complete, At, history
<1>2. proc \in Process /\ StoreOK(store) BY DEF Steady
<1>3. proc.op \in Operations /\ store.head = TmpRef[proc.op] /\ proc.br \in Branches
  BY <1>1, LiveIsInPlace DEF Live
<1>4. store[TmpRef[proc.op]] \in Commits BY <1>3, HeadExists
<1>5. Leaves(pl, proc.br, 2) BY <1>2, <1>3, <1>4, CompletePlan
<1> HIDE DEF pl
<1>6. pl \in Seq(Writes) BY <1>5 DEF Leaves
<1>7. /\ proc' \in Process /\ proc'.at = "completing" /\ proc'.op = proc.op
      /\ proc'.plan = pl
  BY <1>1, <1>2, <1>6 DEF Process, Ending
<1> QED BY <1>1, <1>3, <1>5, <1>7, GoesHome DEF Ending

LEMMA KillStep ==
    ASSUME Steady(store, proc, home), Kill
    PROVE  Steady(store', proc', home')
<1>1. proc' = Idle /\ home' = home BY DEF Kill
<1>2. CASE store' = store BY <1>1, <1>2, Stops
<1>3. CASE store' # store
  <2> DEFINE id == Head(proc.list).id
  <2>1. At("merge") /\ \E fs \in SUBSET TouchedBy(id) : \E c \in Conflicts(id, fs) :
          store' = [store EXCEPT !.disk = MergeFiles(id, fs, c)]
    BY <1>3 DEF Kill
  <2>2. proc.at = "merge" BY <2>1 DEF At
  <2>3. StoreOK(store) /\ proc.list # <<>> BY <2>2 DEF Steady, PhaseOK
  <2>4. id \in Commits BY <2>3, FirstEntry
  <2> HIDE DEF id
  <2>5. PICK fs \in SUBSET TouchedBy(id) : \E c \in Conflicts(id, fs) :
          store' = [store EXCEPT !.disk = MergeFiles(id, fs, c)]
    BY <2>1
  <2>6. PICK c \in Conflicts(id, fs) : store' = [store EXCEPT !.disk = MergeFiles(id, fs, c)]
    BY <2>5
  <2>7. c \in SUBSET Files BY DEF Conflicts, TouchedBy
  <2>8. MergeFiles(id, fs, c) \in Disk BY <2>3, <2>4, <2>7, MergeIsDisk
  <2>9. Steady([store EXCEPT !.disk = MergeFiles(id, fs, c)], Idle, home)
    BY <2>8, DiskSteady
  <2> QED BY <1>1, <2>6, <2>9
<1> QED BY <1>2, <1>3
(* The same when the store has changed, too.                               *)
LEMMA GoesOnWith ==
    ASSUME Steady(store', Idle, home), NEW op \in Operations, store'.head = TmpRef[op],
           home' = home, LivePhase(proc'), proc'.op = op, Plain(proc'.plan)
    PROVE  Steady(store', proc', home')
<1>1. ASSUME NEW st, Steady(st, Idle, home), st.head = TmpRef[op],
             NEW p, LivePhase(p), p.op = op, Plain(p.plan)
      PROVE  Steady(st, p, home)
  BY <1>1, PlainSteady
<1> QED BY <1>1

LEMMA ResolveBranchStep ==
    ASSUME Steady(store, proc, home), ResolveBranch
    PROVE  Steady(store', proc', home')
<1>1. /\ proc.at = "resolve" /\ proc.plan = <<>> /\ store' = store /\ home' = home
      /\ proc' = [proc EXCEPT !.at = "collect", !.tip = store[proc.br]]
  BY DEF ResolveBranch, At, history
<1>2. proc \in Process /\ StoreOK(store) /\ proc.op = "rebase"
  BY <1>1 DEF Steady, PhaseOK
<1>3. proc.op \in Operations /\ store.head = TmpRef[proc.op] /\ proc.br \in Branches
  BY <1>1, LiveIsInPlace DEF Live
<1>4. store[proc.br] \in Ids BY <1>2, <1>3, StoreTypes DEF Branches, Ids
<1>5. /\ proc' \in Process /\ proc'.at = "collect" /\ proc'.op = proc.op
      /\ proc'.br = proc.br /\ proc'.plan = <<>>
  BY <1>1, <1>2, <1>4 DEF Process, Live
<1>6. Plain(<<>>) BY DEF Plain
<1>7. LivePhase(proc') BY <1>2, <1>3, <1>5 DEF LivePhase, Live
<1> QED BY <1>1, <1>3, <1>5, <1>6, <1>7, GoesOn

LEMMA CollectStep ==
    ASSUME Steady(store, proc, home), Collect
    PROVE  Steady(store', proc', home')
<1> DEFINE pl == AbortWrites("rebase", store.r_newbase, store[store.r_newbase])
           ls == CommitsAfter(proc.from, proc.tip)
           p1 == [proc EXCEPT !.at = "aborting", !.plan = pl]
           p2 == [proc EXCEPT !.at = "next", !.list = ls]
<1>1. /\ proc.at = "collect" /\ proc.plan = <<>> /\ store' = store /\ home' = home
      /\ proc' = p1 \/ proc' = p2 \/ proc' = Idle
  BY DEF Collect, At, history
<1>2. proc \in Process /\ StoreOK(store) /\ proc.op = "rebase" /\ home \in Branches
  BY <1>1 DEF Steady, PhaseOK
<1>3. proc.op \in Operations /\ store.head = TmpRef[proc.op] /\ proc.br \in Branches
  BY <1>1, LiveIsInPlace DEF Live
<1>4. CASE proc' = p1
  <2>1. store.r_newbase = home BY <1>2, <1>3, TmpRefs, InPlace
  <2>2. store[store.r_newbase] \in Commits BY <1>2, <2>1, StoreTypes DEF Branches
  <2>3. Leaves(pl, home, 1) BY <1>2, <1>3, <2>1, <2>2, AbortPlan
  <2> HIDE DEF pl
  <2>4. pl \in Seq(Writes) BY <2>3 DEF Leaves
  <2>5. /\ proc' \in Process /\ proc'.at = "aborting" /\ proc'.op = proc.op
        /\ proc'.plan = pl
    BY <1>2, <1>4, <2>4 DEF Process, Ending
  <2> QED BY <1>1, <1>2, <1>3, <2>3, <2>5, GoesHome DEF Ending
<1>5. CASE proc' = p2
  <2>1. ls \in Seq(Entry) BY <1>2, CommitsAfterIs DEF Process
  <2> HIDE DEF ls
  <2>2. /\ proc' \in Process /\ proc'.at = "next" /\ proc'.op = proc.op
        /\ proc'.br = proc.br /\ proc'.plan = <<>>
    BY <1>1, <1>2, <1>5, <2>1 DEF Process, Live
  <2>3. Plain(<<>>) BY DEF Plain
  <2>4. LivePhase(proc') BY <1>3, <2>2 DEF LivePhase, Live
  <2> QED BY <1>1, <1>3, <2>2, <2>3, <2>4, GoesOn
<1>6. CASE proc' = Idle BY <1>1, <1>6, Stops
<1> QED BY <1>1, <1>4, <1>5, <1>6

LEMMA RebaseNextStep ==
    ASSUME Steady(store, proc, home), RebaseNext
    PROVE  Steady(store', proc', home')
<1> DEFINE id == Head(proc.list).id
           pl == StoreCommitId("rebase", id)
           p2 == [proc EXCEPT !.plan = pl, !.at = "merge"]
<1>1. /\ proc.at = "next" /\ proc.plan = <<>> /\ store' = store /\ home' = home
      /\ proc.op = "rebase" /\ proc.list # <<>>
      /\ proc' = p2 \/ proc' = Idle
  BY DEF RebaseNext, At, history
<1>2. proc \in Process BY <1>1 DEF Steady
<1>3. proc.op \in Operations /\ store.head = TmpRef[proc.op] /\ proc.br \in Branches
  BY <1>1, LiveIsInPlace DEF Live
<1>4. CASE proc' = p2
  <2>1. id \in Commits BY <1>1, FirstEntry
  <2>2. Plain(pl) BY <1>1, <1>3, <2>1, StoreCommitIdPlan
  <2> HIDE DEF pl
  <2>3. pl \in Seq(Writes) BY <2>2 DEF Plain
  <2>4. /\ proc' \in Process /\ proc'.at = "merge" /\ proc'.op = proc.op
        /\ proc'.br = proc.br /\ proc'.plan = pl /\ proc'.list = proc.list
    BY <1>2, <1>4, <2>3 DEF Process, Live
  <2>5. LivePhase(proc') BY <1>1, <1>3, <2>4 DEF LivePhase, Live
  <2> QED BY <1>1, <1>3, <2>2, <2>4, <2>5, GoesOn
<1>5. CASE proc' = Idle BY <1>1, <1>5, Stops
<1> QED BY <1>1, <1>4, <1>5

LEMMA RebaseMergeStep ==
    ASSUME Steady(store, proc, home), RebaseMerge
    PROVE  Steady(store', proc', home')
<1> DEFINE id == Head(proc.list).id
           p2 == [proc EXCEPT !.at = "commit", !.merged = TouchedBy(id)]
<1>1. PICK c \in Conflicts(id, TouchedBy(id)) :
         /\ proc.at = "merge" /\ proc.plan = <<>> /\ home' = home
         /\ proc.op = "rebase"
         /\ store' = [store EXCEPT !.disk = MergeFiles(id, TouchedBy(id), c)]
         /\ proc' = p2 \/ proc' = Idle
  BY DEF RebaseMerge, At, history
<1>2. proc \in Process /\ StoreOK(store) /\ proc.list # <<>>
  BY <1>1 DEF Steady, PhaseOK
<1>3. proc.op \in Operations /\ store.head = TmpRef[proc.op] /\ proc.br \in Branches
  BY <1>1, LiveIsInPlace DEF Live
<1>4. id \in Commits BY <1>2, FirstEntry
<1> HIDE DEF id
<1>5. c \in SUBSET Files BY DEF Conflicts, TouchedBy
<1>6. MergeFiles(id, TouchedBy(id), c) \in Disk BY <1>2, <1>4, <1>5, MergeIsDisk
<1>7. Steady(store', Idle, home) /\ store'.head = store.head BY <1>1, <1>6, DiskSteady
<1>8. CASE proc' = p2
  <2>1. TouchedBy(id) \in SUBSET Files BY DEF TouchedBy
  <2>2. /\ proc' \in Process /\ proc'.at = "commit" /\ proc'.op = proc.op
        /\ proc'.br = proc.br /\ proc'.plan = <<>> /\ proc'.list = proc.list
    BY <1>1, <1>2, <1>8, <2>1 DEF Process, Live
  <2>3. Plain(<<>>) BY DEF Plain
  <2>4. LivePhase(proc') BY <1>2, <1>3, <2>2 DEF LivePhase, Live
  <2> QED BY <1>1, <1>3, <1>7, <2>2, <2>3, <2>4, GoesOnWith
<1>9. CASE proc' = Idle BY <1>1, <1>7, <1>9
<1> QED BY <1>1, <1>8, <1>9

LEMMA RebaseAbortStep ==
    ASSUME Steady(store, proc, home), RebaseAbort
    PROVE  Steady(store', proc', home')
<1> DEFINE pl == AbortWrites("rebase", store.r_newbase, store[store.r_newbase])
<1>1. /\ proc = Idle /\ store.head = "r_tmp" /\ store' = store /\ home' = home
      /\ proc' = [Idle EXCEPT !.op = "rebase", !.at = "aborting", !.plan = pl]
  BY TmpRefs DEF RebaseAbort, RebaseResumable, InProgress, history
<1>2. StoreOK(store) /\ home \in Branches BY DEF Steady
<1>3. store.r_newbase = home BY <1>1, InPlace
<1>4. store[store.r_newbase] \in Commits BY <1>2, <1>3, StoreTypes DEF Branches
<1>5. Leaves(pl, home, 1) BY <1>2, <1>3, <1>4, AbortPlan DEF Operations
<1> HIDE DEF pl
<1>6. pl \in Seq(Writes) BY <1>5 DEF Leaves
<1>7. /\ proc' \in Process /\ proc'.at = "aborting" /\ proc'.op = "rebase"
      /\ proc'.plan = pl
  BY <1>1, <1>6, IdleIs DEF Process, Ending
<1> QED BY <1>1, <1>2, <1>5, <1>7, GoesHome DEF Ending, Operations

LEMMA RebaseContinueStep ==
    ASSUME Steady(store, proc, home), RebaseContinue
    PROVE  Steady(store', proc', home')
<1> DEFINE pl == RebaseCommitWrites("rebase", Files, Last(store.r_commit).msg)
<1>1. /\ proc = Idle /\ store.head = "r_tmp" /\ store' = store /\ home' = home
      /\ store.r_commit # NoId
      /\ proc' = [Idle EXCEPT !.op = "rebase", !.at = "resolve", !.br = store.r_branch,
                              !.from = store.r_commit, !.plan = pl]
  BY TmpRefs DEF RebaseContinue, RebaseResumable, InProgress, history
<1>2. StoreOK(store) /\ store.r_branch \in Branches BY <1>1, InPlace DEF Steady
<1>3. store.r_commit \in Commits BY <1>1, <1>2, StoreTypes DEF Ids
<1>4. Last(store.r_commit).msg \in Messages BY <1>3, TreeTypes
<1>5. Plain(pl) BY <1>2, <1>4, HeadExists, CommitPlan DEF Operations
<1> HIDE DEF pl
<1>6. pl \in Seq(Writes) BY <1>5 DEF Plain
<1>7. /\ proc' \in Process /\ proc'.at = "resolve" /\ proc'.op = "rebase"
      /\ proc'.br = store.r_branch /\ proc'.plan = pl
  BY <1>1, <1>2, <1>3, <1>6, IdleIs DEF Process, Live, Names, Ids
<1>8. LivePhase(proc') BY <1>2, <1>7 DEF LivePhase, Live, Operations
<1> QED BY <1>1, <1>5, <1>7, <1>8, TmpRefs, GoesOn DEF Operations
(* A command that starts an operation.                                     *)
LEMMA GoesAway ==
    ASSUME Steady(store, proc, home), store.head \in Branches, store' = store,
           home' = store.head, LivePhase(proc'),
           Enters(proc'.plan, proc'.op, store.head)
    PROVE  Steady(store', proc', home')
<1>1. Steady(store, Idle, home) BY StopSteady
<1>2. ASSUME NEW p, LivePhase(p), Enters(p.plan, p.op, store.head)
      PROVE  Steady(store, p, store.head)
  BY <1>1, <1>2, EnterSteady
<1> QED BY <1>2

LEMMA RebaseStartStep ==
    ASSUME Steady(store, proc, home), NEW b \in Branches, RebaseStart(b),
           "restart" \notin seen'
    PROVE  Steady(store', proc', home')
<1> DEFINE fr == LongestCommonPrefix({store.base, store[b]})
           w1 == <<"r_newbase", store.head>>
           w2 == <<"r_branch", b>>
           w3 == <<"r_tmp", store.base>>
           w4 == <<"head", "r_tmp">>
           pl == <<w1, w2, w3, w4>>
<1>1. /\ store' = store /\ ~InProgress("histedit")
      /\ proc' = [Idle EXCEPT !.op = "rebase", !.at = "collect", !.br = b,
                              !.from = fr, !.tip = store[b], !.plan = pl]
  BY DEF RebaseStart
<1>2. ~InProgress("rebase") /\ home' = store.head BY DEF RebaseStart
<1>3. StoreOK(store) BY DEF Steady
<1>4. store.head \in Branches
  BY <1>1, <1>2, <1>3, StoreTypes, TmpRefs DEF InProgress, Tmps
<1>5. store.base \in Commits /\ store[b] \in Commits BY <1>3, StoreTypes DEF Branches
<1>6. fr \in Ids BY <1>5, CommonPrefix
<1>7. w1 \in Writes /\ w2 \in Writes /\ w3 \in Writes /\ w4 \in Writes
  BY <1>4, <1>5, WriteTypes DEF Names, NameKeys, IdKeys, Ids, Tmps
<1>8. Enters(pl, "rebase", store.head) BY <1>5, <1>7, TmpRefs DEF Enters
<1>9. pl \in Seq(Writes) BY <1>7
<1> HIDE DEF fr, pl
<1>10. /\ proc' \in Process /\ proc'.at = "collect" /\ proc'.op = "rebase"
       /\ proc'.br = b /\ proc'.plan = pl
  BY <1>1, <1>5, <1>6, <1>9, IdleIs DEF Process, Live, Names, Ids
<1>11. LivePhase(proc') BY <1>10 DEF LivePhase, Live, Operations
<1> QED BY <1>1, <1>2, <1>4, <1>8, <1>10, <1>11, GoesAway

LEMMA HisteditStartStep ==
    ASSUME Steady(store, proc, home), HisteditStart
    PROVE  Steady(store', proc', home')
<1> DEFINE ls == CommitsAfter(store.base, store[store.head])
           w1 == <<"h_branch", store.head>>
           w2 == <<"h_base", store.base>>
           w3 == <<"h_tmp", store.base>>
           w4 == <<"head", "h_tmp">>
           pl == <<w1, w2, w3, w4>>
<1>1. /\ store' = store /\ home' = store.head /\ store.head \in Branches
      /\ proc' = [Idle EXCEPT !.op = "histedit", !.at = "script", !.br = store.head,
                              !.list = ls, !.plan = pl]
  BY DEF HisteditStart
<1>2. StoreOK(store) BY DEF Steady
<1>3. store.base \in Commits /\ store[store.head] \in Commits
  BY <1>1, <1>2, StoreTypes DEF Branches
<1>4. ls \in Seq(Entry) BY <1>3, CommitsAfterIs DEF Ids
<1>5. w1 \in Writes /\ w2 \in Writes /\ w3 \in Writes /\ w4 \in Writes
  BY <1>1, <1>3, WriteTypes DEF Names, NameKeys, IdKeys, Ids, Tmps
<1>6. Enters(pl, "histedit", store.head) BY <1>3, <1>5, TmpRefs DEF Enters
<1>7. pl \in Seq(Writes) BY <1>5
<1> HIDE DEF ls, pl
<1>8. /\ proc' \in Process /\ proc'.at = "script" /\ proc'.op = "histedit"
      /\ proc'.br = store.head /\ proc'.plan = pl
  BY <1>1, <1>4, <1>7, IdleIs DEF Process, Live, Names
<1>9. LivePhase(proc') BY <1>1, <1>8 DEF LivePhase, Live, Operations
<1> QED BY <1>1, <1>6, <1>8, <1>9, GoesAway

LEMMA ScriptsAre ==
    ASSUME NEW ls \in Seq(Entry), NEW s \in Scripts(ls)
    PROVE  s \in Seq(Entry) /\ DOMAIN s = DOMAIN ls
<1> DEFINE D == DOMAIN ls
           I == {ls[i].id : i \in D}
<1>1. D = 1..Len(ls) /\ Len(ls) \in Nat /\ \A i \in D : ls[i] \in Entry OBVIOUS
<1>2. I \subseteq Commits BY <1>1 DEF Entry
<1>3. s \in [D -> [cmd : EditCmds, id : I]] BY DEF Scripts
<1> HIDE DEF I, D
<1>4. [cmd : EditCmds, id : I] \subseteq Entry BY <1>2 DEF Entry
<1>5. s \in [1..Len(ls) -> Entry] BY <1>1, <1>3, <1>4
<1> QED BY <1>1, <1>3, <1>5, SeqDef DEF D

LEMMA HisteditScriptStep ==
    ASSUME Steady(store, proc, home), HisteditScript
    PROVE  Steady(store', proc', home')
<1> DEFINE pl == AbortWrites("histedit", store.h_branch, store.h_base)
           p1 == [proc EXCEPT !.plan = pl, !.at = "aborting"]
           p2(s) == [proc EXCEPT !.plan = << <<"script", s>> >>, !.at = "next", !.list = s]
<1>1. /\ proc.at = "script" /\ proc.plan = <<>> /\ store' = store /\ home' = home
      /\ proc' = p1 \/ \E s \in Scripts(proc.list) : proc' = p2(s)
  BY DEF HisteditScript, At
<1>2. /\ proc \in Process /\ StoreOK(store) /\ proc.op = "histedit"
      /\ home \in Branches
  BY <1>1 DEF Steady, PhaseOK
<1>3. proc.op \in Operations /\ store.head = TmpRef[proc.op] /\ proc.br \in Branches
  BY <1>1, LiveIsInPlace DEF Live
<1>4. CASE proc' = p1
  <2>1. store.h_branch = home /\ store.h_base \in Commits
    BY <1>2, <1>3, TmpRefs, InPlace
  <2>2. Leaves(pl, home, 1) BY <1>2, <1>3, <2>1, AbortPlan
  <2> HIDE DEF pl
  <2>3. pl \in Seq(Writes) BY <2>2 DEF Leaves
  <2>4. /\ proc' \in Process /\ proc'.at = "aborting" /\ proc'.op = proc.op
        /\ proc'.plan = pl
    BY <1>2, <1>4, <2>3 DEF Process, Ending
  <2> QED BY <1>1, <1>2, <1>3, <2>2, <2>4, GoesHome DEF Ending
<1>5. ASSUME NEW s \in Scripts(proc.list), proc' = p2(s)
      PROVE  Steady(store', proc', home')
  <2> DEFINE q == << <<"script", s>> >>
  <2>1. s \in Seq(Entry) BY <1>2, ScriptsAre DEF Process
  <2>2. Plain(q) BY <2>1, ScriptPlan
  <2>3. q \in Seq(Writes) BY <2>2 DEF Plain
  <2> HIDE DEF q
  <2>4. proc' = [proc EXCEPT !.plan = q, !.at = "next", !.list = s] BY <1>5 DEF q
  <2>5. /\ proc' \in Process /\ proc'.at = "next" /\ proc'.op = proc.op
        /\ proc'.br = proc.br /\ proc'.plan = q
    BY <1>2, <2>1, <2>3, <2>4 DEF Process, Live
  <2>6. LivePhase(proc') BY <1>3, <2>5 DEF LivePhase, Live
  <2> QED BY <1>1, <1>3, <2>2, <2>5, <2>6, GoesOn
<1> QED BY <1>1, <1>4, <1>5

LEMMA HisteditAbortStep ==
    ASSUME Steady(store, proc, home), HisteditAbort
    PROVE  Steady(store', proc', home')
<1> DEFINE pl == AbortWrites("histedit", store.h_branch, store.h_base)
<1>1. /\ proc = Idle /\ store.head = "h_tmp" /\ store' = store /\ home' = home
      /\ proc' = [Idle EXCEPT !.op = "histedit", !.at = "aborting", !.plan = pl]
  BY TmpRefs DEF HisteditAbort, HisteditResumable, InProgress, history
<1>2. StoreOK(store) /\ home \in Branches BY DEF Steady
<1>3. store.h_branch = home /\ store.h_base \in Commits BY <1>1, InPlace
<1>4. Leaves(pl, home, 1) BY <1>2, <1>3, AbortPlan DEF Operations
<1> HIDE DEF pl
<1>5. pl \in Seq(Writes) BY <1>4 DEF Leaves
<1>6. /\ proc' \in Process /\ proc'.at = "aborting" /\ proc'.op = "histedit"
      /\ proc'.plan = pl
  BY <1>1, <1>5, IdleIs DEF Process, Ending
<1> QED BY <1>1, <1>2, <1>4, <1>6, GoesHome DEF Ending, Operations

LEMMA RestOfScript ==
    ASSUME NEW s \in Seq(Entry), NEW i \in DOMAIN s
    PROVE  /\ SubSeq(s, i + 1, Len(s)) \in Seq(Entry)
           /\ Len(SubSeq(s, i + 1, Len(s))) = Len(s) - i
           /\ \A j \in 1..(Len(s) - i) : SubSeq(s, i + 1, Len(s))[j] = s[i + j]
<1>1. Len(s) \in Nat /\ i \in 1..Len(s) /\ i + 1 \in Int /\ Len(s) \in Int OBVIOUS
<1>2. \A j \in (i + 1)..Len(s) : s[j] \in Entry BY <1>1
<1>3. /\ SubSeq(s, i + 1, Len(s)) \in Seq(Entry)
      /\ Len(SubSeq(s, i + 1, Len(s)))
           = IF i + 1 <= Len(s) THEN Len(s) - (i + 1) + 1 ELSE 0
      /\ \A j \in 1..(Len(s) - (i + 1) + 1) :
            SubSeq(s, i + 1, Len(s))[j] = s[(i + 1) + j - 1]
  BY <1>1, <1>2, SubSeqProperties
<1>4. ASSUME NEW j \in 1..(Len(s) - i) PROVE SubSeq(s, i + 1, Len(s))[j] = s[i + j]
  <2>1. j \in 1..(Len(s) - (i + 1) + 1) BY <1>1
  <2>2. j \in Int /\ i \in Int BY <1>1
  <2>3. (i + 1) + j - 1 = i + j BY <2>2
  <2> QED BY <1>3, <2>1, <2>3
<1> DEFINE n == Len(s)
           r == SubSeq(s, i + 1, n)
<1>5. Len(r) = n - i
  <2>1. Len(r) = IF i + 1 <= n THEN n - (i + 1) + 1 ELSE 0 BY <1>3
  <2>2. n \in Nat /\ i \in 1..n BY <1>1
  <2> HIDE DEF r, n
  <2> QED BY <2>1, <2>2
<1>6. r \in Seq(Entry) BY <1>3
<1> QED BY <1>4, <1>5, <1>6

LEMMA HisteditContinueStep ==
    ASSUME Steady(store, proc, home), HisteditContinue
    PROVE  Steady(store', proc', home')
<1> DEFINE p3 == RebaseCommitWrites("histedit", Files, Last(store.h_commit).msg)
           p2 == SkipCommitWrites(store.h_commit)
           Plans == {p2, p3, <<>>}
           ls(i) == SubSeq(store.script, i + 1, Len(store.script))
<1>1. PICK i \in DOMAIN store.script : \E pl \in Plans :
         /\ proc = Idle /\ store.head = "h_tmp" /\ store' = store /\ home' = home
         /\ store.h_commit # NoId
         /\ proc' = [Idle EXCEPT !.op = "histedit", !.at = "next",
                        !.br = store.h_branch, !.list = ls(i), !.plan = pl]
  BY TmpRefs, Zenon DEF HisteditContinue, HisteditResumable, InProgress
<1>2. StoreOK(store) /\ store.h_branch \in Branches BY <1>1, InPlace DEF Steady
<1>3. store.h_commit \in Commits /\ store.script \in Seq(Entry)
  BY <1>1, <1>2, StoreTypes DEF Ids
<1>4. Last(store.h_commit).msg \in Messages BY <1>3, TreeTypes
<1>5. Plain(p3) BY <1>2, <1>4, HeadExists, CommitPlan DEF Operations
<1>6. Plain(p2) /\ Plain(<<>>) BY <1>3, SkipPlan, StoreCommitIdPlan DEF Operations
<1> HIDE DEF p2, p3
<1>7. ls(i) \in Seq(Entry) BY <1>3, RestOfScript
<1> HIDE DEF ls
<1>8. PICK pl \in Plans :
        proc' = [Idle EXCEPT !.op = "histedit", !.at = "next",
                        !.br = store.h_branch, !.list = ls(i), !.plan = pl]
  BY <1>1
<1>9. Plain(pl) BY <1>5, <1>6
<1>10. pl \in Seq(Writes) BY <1>9 DEF Plain
<1>11. /\ proc' \in Process /\ proc'.at = "next" /\ proc'.op = "histedit"
       /\ proc'.br = store.h_branch /\ proc'.plan = pl
  BY <1>2, <1>7, <1>8, <1>10, IdleIs DEF Process, Live, Names
<1>12. LivePhase(proc') BY <1>2, <1>11 DEF LivePhase, Live, Operations
<1> QED BY <1>1, <1>9, <1>11, <1>12, TmpRefs, GoesOn DEF Operations

LEMMA HisteditNextStep ==
    ASSUME Steady(store, proc, home), HisteditNext
    PROVE  Steady(store', proc', home')
<1> DEFINE id == Head(proc.list).id
           q1 == SkipCommitWrites(id)
           q2 == StoreCommitId("histedit", id)
           p1 == [proc EXCEPT !.plan = q1, !.list = Tail(@)]
           p2 == [proc EXCEPT !.plan = q2, !.at = "merge"]
<1>1. /\ proc.at = "next" /\ proc.plan = <<>> /\ store' = store /\ home' = home
      /\ proc.op = "histedit" /\ proc.list # <<>>
      /\ proc' = p1 \/ proc' = p2
  BY DEF HisteditNext, At, history
<1>2. proc \in Process BY <1>1 DEF Steady
<1>3. proc.op \in Operations /\ store.head = TmpRef[proc.op] /\ proc.br \in Branches
  BY <1>1, LiveIsInPlace DEF Live
<1>4. id \in Commits /\ Tail(proc.list) \in Seq(Entry) BY <1>1, FirstEntry
<1>5. Plain(q1) /\ Plain(q2) BY <1>1, <1>3, <1>4, SkipPlan, StoreCommitIdPlan
<1> HIDE DEF q1, q2
<1>6. q1 \in Seq(Writes) /\ q2 \in Seq(Writes) BY <1>5 DEF Plain
<1>7. CASE proc' = p1
  <2>1. /\ proc' \in Process /\ proc'.at = "next" /\ proc'.op = proc.op
        /\ proc'.br = proc.br /\ proc'.plan = q1
    BY <1>1, <1>2, <1>4, <1>6, <1>7 DEF Process, Live
  <2>2. LivePhase(proc') BY <1>3, <2>1 DEF LivePhase, Live
  <2> QED BY <1>1, <1>3, <1>5, <2>1, <2>2, GoesOn
<1>8. CASE proc' = p2
  <2>1. /\ proc' \in Process /\ proc'.at = "merge" /\ proc'.op = proc.op
        /\ proc'.br = proc.br /\ proc'.plan = q2 /\ proc'.list = proc.list
    BY <1>2, <1>6, <1>8 DEF Process, Live
  <2>2. LivePhase(proc') BY <1>1, <1>3, <2>1 DEF LivePhase, Live
  <2> QED BY <1>1, <1>3, <1>5, <2>1, <2>2, GoesOn
<1> QED BY <1>1, <1>7, <1>8

LEMMA HisteditMergeStep ==
    ASSUME Steady(store, proc, home), HisteditMerge
    PROVE  Steady(store', proc', home')
<1> DEFINE id == Head(proc.list).id
           mg == proc.merged \cup TouchedBy(id)
           q1 == SkipCommitWrites(id)
           p1 == [proc EXCEPT !.plan = q1, !.at = "next", !.list = Tail(@), !.merged = mg]
           p2 == [proc EXCEPT !.at = "commit", !.merged = mg]
<1>1. PICK c \in Conflicts(id, TouchedBy(id)) :
         /\ proc.at = "merge" /\ proc.plan = <<>> /\ home' = home
         /\ proc.op = "histedit"
         /\ store' = [store EXCEPT !.disk = MergeFiles(id, TouchedBy(id), c)]
         /\ proc' = p1 \/ proc' = p2 \/ proc' = Idle
  BY DEF HisteditMerge, At, history
<1>2. proc \in Process /\ StoreOK(store) /\ proc.list # <<>>
  BY <1>1 DEF Steady, PhaseOK
<1>3. proc.op \in Operations /\ store.head = TmpRef[proc.op] /\ proc.br \in Branches
  BY <1>1, LiveIsInPlace DEF Live
<1>4. id \in Commits /\ Tail(proc.list) \in Seq(Entry) BY <1>2, FirstEntry
<1>5. Plain(q1) BY <1>4, SkipPlan
<1>6. mg \in SUBSET Files BY <1>2 DEF TouchedBy, Process
<1> HIDE DEF id, q1, mg
<1>7. c \in SUBSET Files BY DEF Conflicts, TouchedBy
<1>8. MergeFiles(id, TouchedBy(id), c) \in Disk BY <1>2, <1>4, <1>7, MergeIsDisk
<1>9. Steady(store', Idle, home) /\ store'.head = store.head BY <1>1, <1>8, DiskSteady
<1>10. q1 \in Seq(Writes) BY <1>5 DEF Plain
<1>11. CASE proc' = p1
  <2>1. /\ proc' \in Process /\ proc'.at = "next" /\ proc'.op = proc.op
        /\ proc'.br = proc.br /\ proc'.plan = q1
    BY <1>2, <1>4, <1>6, <1>10, <1>11 DEF Process, Live
  <2>2. LivePhase(proc') BY <1>3, <2>1 DEF LivePhase, Live
  <2> QED BY <1>1, <1>3, <1>5, <1>9, <2>1, <2>2, GoesOnWith
<1>12. CASE proc' = p2
  <2>1. /\ proc' \in Process /\ proc'.at = "commit" /\ proc'.op = proc.op
        /\ proc'.br = proc.br /\ proc'.plan = <<>> /\ proc'.list = proc.list
    BY <1>1, <1>2, <1>6, <1>12 DEF Process, Live
  <2>2. Plain(<<>>) BY DEF Plain
  <2>3. LivePhase(proc') BY <1>2, <1>3, <2>1 DEF LivePhase, Live
  <2> QED BY <1>1, <1>3, <1>9, <2>1, <2>2, <2>3, GoesOnWith
<1>13. CASE proc' = Idle BY <1>1, <1>9, <1>13
<1> QED BY <1>1, <1>11, <1>12, <1>13
(***************************************************************************)
(* What happens while no command runs, and errors                          *)
(***************************************************************************)
LEMMA CollectFailsStep ==
    ASSUME Steady(store, proc, home), CollectFails
    PROVE  Steady(store', proc', home')
  BY Stops DEF CollectFails

(* A write by the user or an error path, after which no command runs.      *)
LEMMA SideWrite ==
    ASSUME NEW st, NEW p, NEW hm, Steady(st, p, hm), NEW w \in Writes,
           w[1] \notin IdKeys \cup NameKeys \cup {"head"}
    PROVE  Steady(Written(st, w), Idle, hm)
<1>1. StoreOK(st) BY DEF Steady
<1>2. /\ StoreOK(Written(st, w))
      /\ \A k \in Keys : Written(st, w)[k] = IF k = w[1] THEN w[2] ELSE st[k]
  BY <1>1, WrittenIs
<1>3. \A k \in IdKeys \cup NameKeys \cup {"head"} : Written(st, w)[k] = st[k]
  BY <1>2 DEF Keys
<1> QED BY <1>2, <1>3, OtherStoreSteady

LEMMA ScriptRejectedStep ==
    ASSUME Steady(store, proc, home), ScriptRejected
    PROVE  Steady(store', proc', home')
<1> DEFINE w == <<"script", <<>> >>
<1>1. proc' = Idle /\ home' = home /\ store' = Written(store, w)
  BY DEF ScriptRejected, Written
<1>2. w \in Writes
  <2>1. <<>> \in Seq(Entry) OBVIOUS
  <2> QED BY <2>1, WriteTypes
<1>3. w[1] \notin IdKeys \cup NameKeys \cup {"head"} BY DEF IdKeys, NameKeys
<1> HIDE DEF w
<1>4. Steady(Written(store, w), Idle, home) BY <1>2, <1>3, SideWrite
<1> QED BY <1>1, <1>4

LEMMA ResolveStep ==
    ASSUME Steady(store, proc, home), NEW f, NEW keep, Resolve(f, keep)
    PROVE  Steady(store', proc', home')
<1>1. store.disk \in Disk BY StoreTypes DEF Steady
<1>2. proc' = Idle /\ home' = home
      /\ \E gone : store' = [store EXCEPT !.disk = [hunks |-> store.disk.hunks \ gone,
                                                    conf |-> store.disk.conf \ {f}]]
  BY DEF Resolve
<1>3. PICK gone : store' = [store EXCEPT !.disk = [hunks |-> store.disk.hunks \ gone,
                                                   conf |-> store.disk.conf \ {f}]]
  BY <1>2
<1>4. [hunks |-> store.disk.hunks \ gone, conf |-> store.disk.conf \ {f}] \in Disk
  BY <1>1 DEF Disk
<1> QED BY <1>2, <1>3, <1>4, DiskSteady

LEMMA RevertStep ==
    ASSUME Steady(store, proc, home), Revert
    PROVE  Steady(store', proc', home')
<1>1. store.index \in Index BY StoreTypes DEF Steady
<1>2. [hunks |-> store.index.blob, conf |-> {}] \in Disk BY <1>1 DEF Disk, Index
<1>3. proc' = Idle /\ home' = home
      /\ store' = [store EXCEPT !.disk = [hunks |-> store.index.blob, conf |-> {}]]
  BY DEF Revert
<1> QED BY <1>2, <1>3, DiskSteady

(* Three writes at once, to a branch or a temporary branch and to keys     *)
(* that no operation needs.                                                *)
ThreeWritten(st, k, id, ix) == [st EXCEPT ![k] = id, !.base = id, !.index = ix]

LEMMA ThreeWrites ==
    ASSUME NEW st, StoreOK(st), NEW k \in Branches \cup Tmps, NEW id \in Commits,
           NEW ix \in Index
    PROVE  LET s2 == ThreeWritten(st, k, id, ix)
           IN  /\ StoreOK(s2) /\ s2[k] = id /\ s2.base = id /\ s2.index = ix
               /\ \A l \in Keys \ {k, "base", "index"} : s2[l] = st[l]
<1> DEFINE s2 == ThreeWritten(st, k, id, ix)
<1>1. k \in Keys /\ "base" \in Keys /\ "index" \in Keys /\ k \notin {"base", "index"}
  BY DEF Keys, Tmps, IdKeys, Branches
<1>2. Fits(k, id) /\ Fits("base", id) /\ Fits("index", ix)
  BY DEF Fits, Branches, Tmps, IdKeys, NameKeys, Ids
<1>3. s2 = [l \in Keys |-> IF l = "index" THEN ix ELSE IF l = "base" THEN id
                           ELSE IF l = k THEN id ELSE st[l]]
  BY <1>1 DEF StoreOK, ThreeWritten
<1>4. \A l \in Keys : s2[l] = IF l = "index" THEN ix ELSE IF l = "base" THEN id
                              ELSE IF l = k THEN id ELSE st[l]
  BY <1>3
<1> HIDE DEF s2
<1>5. s2 = [l \in Keys |-> s2[l]] BY <1>3, <1>4
<1>6. \A l \in Keys : Fits(l, s2[l]) BY <1>2, <1>4 DEF StoreOK
<1> QED BY <1>1, <1>4, <1>5, <1>6 DEF StoreOK, s2

LEMMA GotCommitStep ==
    ASSUME Steady(store, proc, home), GotCommit
    PROVE  /\ Steady(store', proc', home') /\ store'.head = store.head
           /\ store'.r_commit = store.r_commit /\ store'.h_commit = store.h_commit
           /\ store'.script = store.script
<1> DEFINE id == NewCommit(Changed, "user")
           ix == IndexAfterCommit(Changed, id)
           k == store.head
<1>1. proc' = Idle /\ home' = home
      /\ store' = [store EXCEPT ![k] = id, !.base = id, !.index = ix]
  BY DEF GotCommit, history
<1>2. StoreOK(store) /\ k \in Branches \cup Tmps BY StoreTypes DEF Steady
<1>3. id \in Commits
  <2>1. store[store.head] \in Commits BY HeadExists
  <2>2. "user" \in Messages BY ReplayConstants
  <2> QED BY <1>2, <2>1, <2>2, NewCommitIs
<1>4. ix \in Index BY <1>2, <1>3, IndexAfterCommitIs
<1> HIDE DEF id, ix, k
<1>5. /\ StoreOK(store') /\ store'[k] = id
      /\ \A l \in Keys \ {k, "base", "index"} : store'[l] = store[l]
  <2>1. store' = ThreeWritten(store, k, id, ix) BY <1>1 DEF ThreeWritten
  <2> QED BY <1>2, <1>3, <1>4, <2>1, ThreeWrites
<1>6. store'.head = store.head /\ store'.script = store.script
  BY <1>2, <1>5 DEF Keys, Branches, Tmps
<1>7. \A l \in IdKeys \cup NameKeys :
         store'[l] = store[l] \/ (l \in Tmps /\ store'[l] \in Commits)
  BY <1>2, <1>3, <1>5 DEF Keys, Branches, IdKeys, NameKeys
<1>8. ASSUME NEW s2, StoreOK(s2), s2.head = store.head,
             \A l \in IdKeys \cup NameKeys : s2[l] = store[l] \/ (l \in Tmps /\ s2[l] \in Commits)
      PROVE  Steady(s2, Idle, home)
  BY <1>8, OtherStoreSteady
<1>9. store'.r_commit = store.r_commit /\ store'.h_commit = store.h_commit
  BY <1>7 DEF IdKeys, Tmps
<1> QED BY <1>1, <1>5, <1>6, <1>7, <1>8, <1>9

LEMMA UpdateStep ==
    ASSUME Steady(store, proc, home), NEW b \in Branches, NEW n, Update(b, n)
    PROVE  /\ Steady(store', proc', home') /\ store'.head = b
           /\ store'.r_commit = store.r_commit /\ store'.script = store.script
           /\ store'.disk.hunks = store'.index.blob
           /\ store'.disk.conf = store.disk.conf
<1> DEFINE id == SubSeq(store[b], 1, n)
           ix == [blob |-> Tree(id), commit |-> [f \in Files |-> id]]
           d == [store.disk EXCEPT !.hunks = Tree(id)]
<1>1. StoreOK(store) BY DEF Steady
<1>2. store[b] \in Commits /\ store.disk \in Disk BY <1>1, StoreTypes DEF Branches
<1>3. n \in 1..Len(store[b]) BY DEF Update
<1>4. id \in Commits BY <1>2, <1>3, InitialPart
<1>5. Tree(id) \in SUBSET Hunk BY <1>4, TreeTypes
<1>6. proc' = Idle /\ home' = home
      /\ store' = [store EXCEPT !.head = b, !.base = id, !.disk.hunks = Tree(id), !.index = ix]
  BY DEF Update, history
<1> HIDE DEF id
<1>7. ix \in Index /\ d \in Disk BY <1>2, <1>4, <1>5 DEF Index, Disk
<1>a. d.hunks = ix.blob /\ d.conf = store.disk.conf BY <1>2 DEF Disk
<1>8. store' = [l \in Keys |-> IF l = "head" THEN b ELSE IF l = "base" THEN id
                               ELSE IF l = "disk" THEN d ELSE IF l = "index" THEN ix
                               ELSE store[l]]
  BY <1>1, <1>6 DEF StoreOK, Keys
<1> HIDE DEF ix, d
<1>9. \A l \in Keys : store'[l] = IF l = "head" THEN b ELSE IF l = "base" THEN id
                               ELSE IF l = "disk" THEN d ELSE IF l = "index" THEN ix
                               ELSE store[l]
  BY <1>8
<1>10. Fits("head", b) /\ Fits("base", id) /\ Fits("disk", d) /\ Fits("index", ix)
  BY <1>4, <1>7 DEF Fits, Branches, IdKeys, NameKeys
<1>11. StoreOK(store')
  <2>1. store' = [l \in Keys |-> store'[l]] BY <1>8, <1>9
  <2>2. \A l \in Keys : Fits(l, store'[l]) BY <1>1, <1>9, <1>10 DEF StoreOK
  <2> QED BY <2>1, <2>2 DEF StoreOK
<1>12. store'.head = b BY <1>9 DEF Keys
<1>13. \A l \in IdKeys \cup NameKeys : store'[l] = store[l]
  BY <1>9 DEF Keys, IdKeys, NameKeys
<1>14. ASSUME NEW s2, StoreOK(s2), s2.head = b,
              \A l \in IdKeys \cup NameKeys : s2[l] = store[l]
       PROVE  Steady(s2, Idle, home)
  BY <1>14, OtherStoreSteady
<1>15. store'.r_commit = store.r_commit BY <1>13 DEF IdKeys
<1>16. store'.disk = d /\ store'.index = ix /\ store'.script = store.script
  BY <1>9 DEF Keys
<1> QED BY <1>6, <1>11, <1>12, <1>13, <1>14, <1>15, <1>16, <1>a

LEMMA OthersCommitStep ==
    ASSUME Steady(store, proc, home), NEW b \in Branches, NEW f \in Files, OthersCommit(b, f)
    PROVE  /\ Steady(store', proc', home')
           /\ \E e \in [msg : Messages, tree : SUBSET Hunk] :
                 store' = Written(store, <<b, Append(store[b], e)>>)
<1> DEFINE S == [msg : Messages, tree : SUBSET Hunk]
           e == [msg |-> "other", tree |-> Tree(store[b]) \cup {<<"other", f>>}]
           id == Append(store[b], e)
           w == <<b, id>>
<1>1. proc' = Idle /\ home' = home /\ store' = Written(store, w)
  BY DEF OthersCommit, Written
<1>2. store[b] \in Commits BY StoreTypes DEF Branches, Steady
<1>3. store[b] \in Seq(S) /\ Tree(store[b]) \subseteq Hunk BY <1>2, TreeTypes
<1>4. "other" \in Messages /\ <<"other", f>> \in Hunk BY ReplayConstants DEF Hunk
<1>5. e \in S
  <2> DEFINE tr == Tree(store[b]) \cup {<<"other", f>>}
  <2>1. tr \in SUBSET Hunk BY <1>3, <1>4
  <2> HIDE DEF tr
  <2>2. [msg |-> "other", tree |-> tr] \in S BY <1>4, <2>1
  <2> QED BY <2>2 DEF tr
<1> HIDE DEF e, S
<1>6. id \in Seq(S) /\ id # <<>> BY <1>3, <1>5, AppendProperties
<1>7. id \in Commits BY <1>6 DEF Commits, NoId, S
<1> HIDE DEF id
<1>8. w \in Writes BY <1>7, WriteTypes
<1>9. w[1] \notin IdKeys \cup NameKeys \cup {"head"} BY DEF IdKeys, NameKeys, Branches
<1> HIDE DEF w
<1>10. Steady(Written(store, w), Idle, home) BY <1>8, <1>9, SideWrite
<1> QED BY <1>1, <1>5, <1>10 DEF w, id, S

-----------------------------------------------------------------------------
(***************************************************************************)
(* The work tree's branch exists, and abort returns home                   *)
(***************************************************************************)
LEMMA SteadyStart == ReplayInit => SteadyInv
<1> SUFFICES ASSUME ReplayInit PROVE Steady(store, proc, home)
  BY DEF SteadyInv
<1>1. PICK s \in Starts :
          store = [main |-> s.main, topic |-> s.topic,
                   r_newbase |-> NoName, r_branch |-> NoName,
                   r_tmp |-> NoId, r_commit |-> NoId,
                   h_branch |-> NoName, h_base |-> NoId,
                   h_tmp |-> NoId, h_commit |-> NoId, script |-> <<>>,
                   head |-> "main", base |-> s.main,
                   disk |-> [hunks |-> Tree(s.main), conf |-> {}],
                   index |-> [blob |-> Tree(s.main),
                              commit |-> [f \in Files |-> s.main]]]
  BY DEF ReplayInit
<1>2. s.main \in Commits /\ s.topic \in Commits BY ReplayConstants DEF Branches
<1>3. Tree(s.main) \in SUBSET Hunk BY <1>2, TreeTypes
<1>4. /\ [hunks |-> Tree(s.main), conf |-> {}] \in Disk
      /\ [blob |-> Tree(s.main), commit |-> [f \in Files |-> s.main]] \in Index
  BY <1>2, <1>3 DEF Disk, Index
<1>5. NoName \in Names /\ NoId \in Ids /\ <<>> \in Seq(Entry) BY DEF Names, Ids
<1>6. store = [k \in Keys |-> store[k]]
  BY <1>1 DEF Keys, Branches, IdKeys, NameKeys
<1>7. \A k \in Keys : Fits(k, store[k])
  <2>1. /\ Fits("main", store.main) /\ Fits("topic", store.topic) /\ Fits("base", store.base)
    BY <1>1, <1>2 DEF Fits, Branches, IdKeys, NameKeys
  <2>2. \A k \in IdKeys : Fits(k, store[k])
    BY <1>1, <1>5 DEF Fits, Branches, IdKeys, NameKeys
  <2>3. \A k \in NameKeys : Fits(k, store[k])
    BY <1>1, <1>5 DEF Fits, Branches, IdKeys, NameKeys
  <2>4. Fits("head", store.head) /\ Fits("script", store.script)
    BY <1>1, <1>5 DEF Fits, Branches, IdKeys, NameKeys
  <2>5. Fits("disk", store.disk) /\ Fits("index", store.index)
    BY <1>1, <1>4 DEF Fits, Branches, IdKeys, NameKeys
  <2> QED BY <2>1, <2>2, <2>3, <2>4, <2>5 DEF Keys, Branches
<1>8. StoreOK(store) BY <1>6, <1>7 DEF StoreOK
<1>9. store.head = "main" /\ proc = Idle /\ home = "main" BY <1>1 DEF ReplayInit
<1>10. RefsGuarded(<<>>, store, home) BY <1>9, NoPlan DEF RefsGuarded
<1> QED BY <1>8, <1>9, <1>10, IdleIsSteady DEF Branches

LEMMA SeenGrows == [Next]_vars => seen \subseteq seen'
  BY DEF Next, vars, RebaseCommand, HisteditCommand, Running, Failing, Environment,
         RebaseStart, RebaseContinue, RebaseAbort, HisteditStart, HisteditContinue,
         HisteditAbort, Write, Commit, Complete, RebaseStep, HisteditStep, ResolveBranch,
         Collect, RebaseNext, RebaseMerge, HisteditScript, HisteditNext, HisteditMerge,
         Kill, CollectFails, ScriptRejected, Resolve, Revert, GotCommit, Update,
         OthersCommit, history

LEMMA SteadyStep == SteadyInv /\ [Next]_vars => SteadyInv'
<1> SUFFICES ASSUME SteadyInv, [Next]_vars, "restart" \notin seen'
             PROVE  Steady(store', proc', home')
  BY DEF SteadyInv
<1>1. seen \subseteq seen' BY SeenGrows
<1>2. Steady(store, proc, home) BY <1>1 DEF SteadyInv
<1>3. CASE RebaseCommand
  BY <1>2, <1>3, RebaseStartStep, RebaseContinueStep, RebaseAbortStep DEF RebaseCommand
<1>4. CASE HisteditCommand
  BY <1>2, <1>4, HisteditStartStep, HisteditContinueStep, HisteditAbortStep DEF HisteditCommand
<1>5. CASE Running
  BY <1>2, <1>5, WriteStep, CommitStep, CompleteStep, ResolveBranchStep, CollectStep,
     RebaseNextStep, RebaseMergeStep, HisteditScriptStep, HisteditNextStep, HisteditMergeStep
     DEF Running, RebaseStep, HisteditStep
<1>6. CASE Failing BY <1>2, <1>6, KillStep, CollectFailsStep, ScriptRejectedStep DEF Failing
<1>7. CASE Environment
  BY <1>2, <1>7, ResolveStep, RevertStep, GotCommitStep, UpdateStep, OthersCommitStep
     DEF Environment
<1>8. CASE UNCHANGED vars BY <1>2, <1>8 DEF vars
<1> QED BY <1>3, <1>4, <1>5, <1>6, <1>7, <1>8 DEF Next

LEMMA AlwaysSteady == Spec => []SteadyInv
<1>1. ReplayInit => SteadyInv BY SteadyStart
<1>2. SteadyInv /\ [Next]_vars => SteadyInv' BY SteadyStep
<1> QED BY <1>1, <1>2, PTL DEF Spec

(* At every moment, also between two writes of a command that is killed    *)
(* there, the branch named by the work tree's head-ref file exists, unless *)
(* a rebase was started during a rebase (worktree.c:6471, 6520).           *)
THEOREM RewriteHeadExists == Spec => []HeadRefExists
<1>1. SteadyInv => HeadRefExists
  <2> SUFFICES ASSUME Steady(store, proc, home) PROVE store[store.head] # NoId
    BY DEF SteadyInv, HeadRefExists
  <2> QED BY HeadExists DEF Commits
<1> QED BY <1>1, AlwaysSteady, PTL

(* An abort that gets to its end has switched the work tree back to the    *)
(* branch it was on when the operation started (got.1:1451).               *)
THEOREM RewriteAbortReturns == Spec => AbortReturnsHome
<1>1. SteadyInv /\ [Next]_vars => [AbortEnds /\ "restart" \notin seen => store'.head = home]_vars
  <2> SUFFICES ASSUME SteadyInv, Next, AbortEnds, "restart" \notin seen
               PROVE  store'.head = home
    BY DEF vars
  <2> DEFINE q == proc.plan
  <2>1. Steady(store, proc, home) BY DEF SteadyInv
  <2>2. proc.at = "aborting" /\ Len(q) = 1 /\ proc' = Idle BY DEF AbortEnds
  <2>3. EndingOK(store, proc, home) /\ StoreOK(store) /\ q \in Seq(Writes)
    BY <2>1 DEF Steady, Process
  <2>4. q # <<>> /\ q[1][1] = "index" /\ WillBe(q, store, "head", {home})
    BY <2>2, <2>3 DEF EndingOK, Ending
  <2> HIDE DEF q
  <2>5. DOMAIN q = {1} BY <2>2, <2>3
  <2>6. store.head = home BY <2>4, <2>5 DEF WillBe
  <2>7. CASE store' = store BY <2>6, <2>7
  <2>8. CASE Write
    <3>1. store' = Written(store, Head(q)) BY <2>8 DEF Write, Do, Written, q
    <3>2. Head(q) = q[1] /\ q[1] \in Writes BY <2>3, <2>4, PlanTail
    <3>3. "head" \in Keys BY DEF Keys
    <3> QED BY <2>3, <2>4, <2>6, <3>1, <3>2, <3>3, WrittenIs
  <2>9. ~RebaseCommand /\ ~HisteditCommand /\ ~Environment
    BY <2>2, IdleIs DEF RebaseCommand, HisteditCommand, Environment, RebaseStart,
       RebaseContinue, RebaseAbort, HisteditStart, HisteditContinue, HisteditAbort,
       Resolve, Revert, GotCommit, Update, OthersCommit
  <2>10. Running => Write
    BY <2>2 DEF Running, Commit, Complete, RebaseStep, HisteditStep, ResolveBranch, Collect,
       RebaseNext, RebaseMerge, HisteditScript, HisteditNext, HisteditMerge, At
  <2>11. Failing => store' = store
    BY <2>2 DEF Failing, Kill, CollectFails, ScriptRejected, At
  <2> QED BY <2>7, <2>8, <2>9, <2>10, <2>11 DEF Next
<1> QED BY <1>1, AlwaysSteady, PTL DEF Spec, AbortReturnsHome

-----------------------------------------------------------------------------
(***************************************************************************)
(* A stopped operation can be continued or aborted: the invariant behind   *)
(* ConflictCanBeAborted, as long as no command was killed or has failed.   *)
(* While a rebase merges or commits, the commit's id is recorded; in all   *)
(* other phases no id is; and what is recorded when a rebase has stopped   *)
(* is on the branch that is rebased, so that the commits after it will be  *)
(* found.                                                                  *)
(***************************************************************************)
Smooth == seen \cap {"kill", "error", "restart"} = {}

Recording(p) == p.op = "rebase" /\ p.at \in {"merge", "commit"}
StoppedIn(st, p, t) == p = Idle /\ st.head = t

Rebasing(st, p) ==
    /\ WillBe(p.plan, st, "r_branch", {p.br})
    /\ \A i \in DOMAIN p.plan : p.plan[i][1] \notin Branches
    /\ p.at # "resolve" => st[p.br] = p.tip
    /\ p.at \in {"resolve", "collect"} => IsPrefix(p.from, st[p.br])
    /\ \A i \in DOMAIN p.list : IsPrefix(p.list[i].id, p.tip)
    /\ p.at = "resolve" => p.list = <<>>

RecordOK(st, p) ==
    /\ Recording(p) => WillBe(p.plan, st, "r_commit", {Head(p.list).id})
    /\ StoppedIn(st, p, "r_tmp") =>
          st.r_commit \in Commits /\ IsPrefix(st.r_commit, st[st.r_branch])
    /\ ~Recording(p) /\ ~StoppedIn(st, p, "r_tmp") =>
          WillBe(p.plan, st, "r_commit", {NoId})
    /\ StoppedIn(st, p, "h_tmp") => st.h_commit \in Commits
    /\ p.op = "histedit" /\ p.at \in {"merge", "commit"} =>
          WillBe(p.plan, st, "h_commit", Commits)

Resume(st, p) ==
    /\ RecordOK(st, p)
    /\ p.op = "rebase" /\ p.at \in Live => Rebasing(st, p)

ResumeInv == Smooth => Resume(store, proc)

(***************************************************************************)
(* Prefixes                                                                *)
(***************************************************************************)
(* s begins with x if the two agree on the positions of x.                 *)
LEMMA PrefixIs ==
    ASSUME NEW S, NEW x \in Seq(S), NEW s \in Seq(S)
    PROVE  IsPrefix(x, s) <=> /\ Len(x) <= Len(s)
                              /\ \A i \in 1..Len(x) : x[i] = s[i]
<1> DEFINE n == Len(x)
<1>1. n \in Nat /\ Len(s) \in Nat OBVIOUS
<1>2. ASSUME n <= Len(s)
      PROVE  SubSeq(x, 1, n) = SubSeq(s, 1, n) <=> \A i \in 1..n : x[i] = s[i]
  <2>1. (\A i \in 1..n : x[i] \in S) /\ (\A i \in 1..n : s[i] \in S) BY <1>1, <1>2
  <2>2. 1 \in Int /\ n \in Int BY <1>1
  <2>3. /\ SubSeq(x, 1, n) \in Seq(S) /\ SubSeq(s, 1, n) \in Seq(S)
        /\ Len(SubSeq(x, 1, n)) = IF 1 <= n THEN n - 1 + 1 ELSE 0
        /\ Len(SubSeq(s, 1, n)) = IF 1 <= n THEN n - 1 + 1 ELSE 0
        /\ \A i \in 1..(n - 1 + 1) : SubSeq(x, 1, n)[i] = x[1 + i - 1]
        /\ \A i \in 1..(n - 1 + 1) : SubSeq(s, 1, n)[i] = s[1 + i - 1]
    BY <2>1, <2>2, SubSeqProperties
  <2> HIDE DEF n
  <2>4. Len(SubSeq(x, 1, n)) = n /\ Len(SubSeq(s, 1, n)) = n BY <1>1, <2>3
  <2>5. ASSUME NEW i \in 1..n PROVE SubSeq(x, 1, n)[i] = x[i] /\ SubSeq(s, 1, n)[i] = s[i]
    <3>1. i \in 1..(n - 1 + 1) /\ 1 + i - 1 = i BY <1>1
    <3> QED BY <2>3, <3>1
  <2> DEFINE y == SubSeq(x, 1, n)
             t == SubSeq(s, 1, n)
  <2>6. y \in Seq(S) /\ t \in Seq(S) /\ Len(y) = n /\ Len(t) = n BY <2>3, <2>4
  <2>7. \A i \in 1..n : y[i] = x[i] /\ t[i] = s[i] BY <2>5
  <2> HIDE DEF y, t
  <2>8. (\A i \in 1..n : x[i] = s[i]) => y = t BY <2>6, <2>7, SeqEqual
  <2>9. y = t => \A i \in 1..n : x[i] = s[i] BY <2>7
  <2> QED BY <2>8, <2>9 DEF y, t
<1> QED BY <1>2 DEF IsPrefix

LEMMA PrefixGrows ==
    ASSUME NEW S, NEW x \in Seq(S), NEW s \in Seq(S), NEW e \in S, IsPrefix(x, s)
    PROVE  IsPrefix(x, Append(s, e))
<1> DEFINE t == Append(s, e)
<1>1. t \in Seq(S) /\ Len(t) = Len(s) + 1 /\ \A i \in 1..Len(s) : t[i] = s[i]
  BY AppendProperties
<1> HIDE DEF t
<1>2. Len(x) <= Len(s) /\ \A i \in 1..Len(x) : x[i] = s[i] BY PrefixIs
<1>3. Len(x) \in Nat /\ Len(s) \in Nat OBVIOUS
<1>4. Len(x) <= Len(t) /\ \A i \in 1..Len(x) : x[i] = t[i] BY <1>1, <1>2, <1>3
<1>5. IsPrefix(x, t) BY <1>1, <1>4, PrefixIs
<1> QED BY <1>5 DEF t

LEMMA PrefixOfTip ==
    ASSUME NEW tip \in Commits, NEW n \in 1..Len(tip)
    PROVE  IsPrefix(SubSeq(tip, 1, n), tip)
<1> DEFINE S == [msg : Messages, tree : SUBSET Hunk]
           q == SubSeq(tip, 1, n)
<1>1. tip \in Seq(S) /\ Len(tip) \in Nat BY TreeTypes
<1> HIDE DEF S
<1>2. \A i \in 1..n : tip[i] \in S BY <1>1
<1>3. 1 \in Int /\ n \in Int /\ 1 <= n BY <1>1
<1>4. /\ q \in Seq(S) /\ Len(q) = IF 1 <= n THEN n - 1 + 1 ELSE 0
      /\ \A i \in 1..(n - 1 + 1) : q[i] = tip[1 + i - 1]
  BY <1>2, <1>3, SubSeqProperties
<1> HIDE DEF q
<1>5. Len(q) = n BY <1>3, <1>4
<1>6. ASSUME NEW i \in 1..n PROVE q[i] = tip[i]
  <2>1. i \in 1..(n - 1 + 1) /\ 1 + i - 1 = i BY <1>3
  <2> QED BY <1>4, <2>1
<1>7. IsPrefix(q, tip) BY <1>1, <1>4, <1>5, <1>6, PrefixIs
<1> QED BY <1>7 DEF q

(***************************************************************************)
(* What the plans do to the records of rebase                              *)
(***************************************************************************)
Avoids(plan, K) == \A i \in DOMAIN plan : plan[i][1] \notin K

LEMMA AvoidedStays ==
    ASSUME NEW plan, NEW st, NEW K, NEW k \in K, NEW V, Avoids(plan, K), st[k] \in V
    PROVE  WillBe(plan, st, k, V)
  BY DEF Avoids, WillBe

LEMMA CommitRecord ==
    ASSUME NEW paths, NEW msg
    PROVE  /\ WillBe(RebaseCommitWrites("rebase", paths, msg), store, "r_commit", {NoId})
           /\ Avoids(RebaseCommitWrites("rebase", paths, msg), Branches)
           /\ Avoids(RebaseCommitWrites("rebase", paths, msg), {"r_branch"})
           /\ Avoids(RebaseCommitWrites("histedit", paths, msg), {"r_commit"})
<1> DEFINE id == NewCommit(Changed \cap paths, msg)
           ix == IndexAfterCommit(Changed \cap paths, id)
           a(k) == << <<k, NoId>> >>
           b(k, t) == << <<t, id>>, <<"base", id>>, <<k, NoId>>, <<"index", ix>> >>
<1>1. \A op \in Operations :
         LET q == RebaseCommitWrites(op, paths, msg)
         IN  q = a(CommitRef[op]) \/ q = b(CommitRef[op], TmpRef[op])
  BY DEF RebaseCommitWrites
<1> HIDE DEF id, ix
<1>2. /\ RebaseCommitWrites("rebase", paths, msg) = a("r_commit")
         \/ RebaseCommitWrites("rebase", paths, msg) = b("r_commit", "r_tmp")
      /\ RebaseCommitWrites("histedit", paths, msg) = a("h_commit")
         \/ RebaseCommitWrites("histedit", paths, msg) = b("h_commit", "h_tmp")
  BY <1>1, TmpRefs DEF Operations
<1>3. /\ WillBe(a("r_commit"), store, "r_commit", {NoId})
      /\ WillBe(b("r_commit", "r_tmp"), store, "r_commit", {NoId})
  <2>1. WillBe(a("r_commit"), store, "r_commit", {NoId}) BY DEF WillBe
  <2> DEFINE q == b("r_commit", "r_tmp")
  <2>2. DOMAIN q = 1..4 /\ q[1][1] = "r_tmp" /\ q[2][1] = "base" /\ q[3][1] = "r_commit"
        /\ q[3][2] = NoId /\ q[4][1] = "index"
    OBVIOUS
  <2> HIDE DEF q
  <2>3. \A i \in 1..4 : i = 1 \/ i = 2 \/ i = 3 \/ i = 4 OBVIOUS
  <2>4. WillBe(q, store, "r_commit", {NoId}) BY <2>2, <2>3 DEF WillBe
  <2> QED BY <2>1, <2>4 DEF q
<1>4. /\ Avoids(a("r_commit"), Branches) /\ Avoids(a("r_commit"), {"r_branch"})
      /\ Avoids(b("r_commit", "r_tmp"), Branches)
      /\ Avoids(b("r_commit", "r_tmp"), {"r_branch"})
      /\ Avoids(a("h_commit"), {"r_commit"}) /\ Avoids(b("h_commit", "h_tmp"), {"r_commit"})
  BY DEF Avoids, Branches
<1> HIDE DEF a, b
<1> QED BY <1>2, <1>3, <1>4

LEMMA StoreRecord ==
    ASSUME NEW id \in Commits
    PROVE  /\ store.r_commit \in {NoId, id} =>
                 WillBe(StoreCommitId("rebase", id), store, "r_commit", {id})
           /\ Avoids(StoreCommitId("rebase", id), Branches)
           /\ Avoids(StoreCommitId("rebase", id), {"r_branch"})
           /\ store.h_commit \in Ids =>
                 WillBe(StoreCommitId("histedit", id), store, "h_commit", Commits)
           /\ Avoids(StoreCommitId("histedit", id), {"r_commit"})
<1>1. /\ StoreCommitId("rebase", id)
           = IF store.r_commit = NoId THEN << <<"r_commit", id>> >> ELSE <<>>
      /\ StoreCommitId("histedit", id)
           = IF store.h_commit = NoId THEN << <<"h_commit", id>> >> ELSE <<>>
  BY TmpRefs DEF StoreCommitId
<1>2. /\ WillBe(<< <<"r_commit", id>> >>, store, "r_commit", {id})
      /\ WillBe(<< <<"h_commit", id>> >>, store, "h_commit", Commits)
  BY DEF WillBe
<1>3. /\ store.r_commit = id => WillBe(<<>>, store, "r_commit", {id})
      /\ store.h_commit \in Commits => WillBe(<<>>, store, "h_commit", Commits)
  BY DEF WillBe
<1>4. \A K : Avoids(<<>>, K) BY DEF Avoids
<1>5. /\ Avoids(<< <<"r_commit", id>> >>, Branches) /\ Avoids(<< <<"r_commit", id>> >>, {"r_branch"})
      /\ Avoids(<< <<"h_commit", id>> >>, {"r_commit"})
  BY DEF Avoids, Branches
<1>6. store.h_commit \in Ids => store.h_commit = NoId \/ store.h_commit \in Commits BY DEF Ids
<1> QED BY <1>1, <1>2, <1>3, <1>4, <1>5, <1>6

LEMMA SkipRecord ==
    ASSUME NEW id \in Commits
    PROVE  Avoids(SkipCommitWrites(id), {"r_commit"})
<1>1. StoreCommitId("histedit", id) = << <<"h_commit", id>> >>
      \/ StoreCommitId("histedit", id) = <<>>
  BY TmpRefs DEF StoreCommitId
<1>2. /\ SkipCommitWrites(id) = << <<"h_commit", id>>, <<"h_commit", NoId>> >>
         \/ SkipCommitWrites(id) = << <<"h_commit", NoId>> >>
  BY <1>1, OnePlusOne DEF SkipCommitWrites
<1> QED BY <1>2 DEF Avoids

LEMMA ForgetRecord ==
    ASSUME NEW plan, NEW op, NEW st, Forgets(plan, op),
           op = "rebase" \/ st.r_commit = NoId
    PROVE  WillBe(plan, st, "r_commit", {NoId})
  BY DEF Forgets, WillBe

(***************************************************************************)
(* Every step keeps the records                                            *)
(***************************************************************************)
LEMMA WriteResume ==
    ASSUME NEW st, NEW p, NEW hm, Steady(st, p, hm), Resume(st, p), p.plan # <<>>,
           NEW p2, p2 = IF p.at \in Ending /\ Len(p.plan) = 1 THEN Idle
                        ELSE [p EXCEPT !.plan = Tail(@)]
    PROVE  Resume(Written(st, Head(p.plan)), p2)
<1> DEFINE q == p.plan
           s2 == Written(st, Head(q))
<1>1. p \in Process /\ StoreOK(st) /\ q \in Seq(Writes) BY DEF Steady, Process
<1>2. p # Idle BY IdleIs
<1>3. p.at # "idle" /\ p.op \in Operations BY <1>2 DEF Steady, PhaseOK
<1>4. "r_commit" \in Keys /\ "h_commit" \in Keys /\ "r_branch" \in Keys /\ "head" \in Keys
      /\ Branches \subseteq Keys
  BY DEF Keys, IdKeys, NameKeys
<1>5. \A k \in Keys : \A V : WillBe(q, st, k, V) => WillBe(Tail(q), s2, k, V)
  BY <1>1, WillBeStep
<1>6. Recording(p) => WillBe(q, st, "r_commit", {Head(p.list).id})
  BY DEF Resume, RecordOK
<1>7. ~Recording(p) => WillBe(q, st, "r_commit", {NoId})
  BY <1>2 DEF Resume, RecordOK, StoppedIn
<1>8. CASE p.at \in Ending /\ Len(q) = 1
  <2>1. p2 = Idle /\ Tail(q) = <<>>
    <3> DEFINE r == Tail(q)
    <3>1. r \in Seq(Writes) /\ Len(r) = 0 BY <1>1, <1>8, PlanTail
    <3> HIDE DEF r
    <3>2. r = <<>> BY <3>1
    <3>3. p2 = Idle BY <1>8
    <3> QED BY <3>2, <3>3 DEF r
  <2>2. WillBe(q, st, "head", Branches \cup {hm}) /\ hm \in Branches
    <3>1. WillBe(q, st, "head", Branches) \/ WillBe(q, st, "head", {hm})
      BY <1>8 DEF Steady, EndingOK, Ending
    <3> QED BY <3>1 DEF WillBe, Steady
  <2>3. s2.head \in Branches
    <3>1. WillBe(<<>>, s2, "head", Branches \cup {hm}) BY <1>4, <1>5, <2>1, <2>2
    <3> QED BY <2>2, <3>1 DEF WillBe
  <2>4. s2.head # "r_tmp" /\ s2.head # "h_tmp" BY <2>3 DEF Branches
  <2>5. WillBe(q, st, "r_commit", {NoId}) BY <1>7, <1>8 DEF Recording, Ending
  <2>6. WillBe(<<>>, s2, "r_commit", {NoId}) BY <1>4, <1>5, <2>1, <2>5
  <2>7. ~Recording(Idle) /\ Idle.op = "none" BY IdleIs DEF Recording
  <2> HIDE DEF s2
  <2>8. RecordOK(s2, Idle) BY <2>4, <2>6, <2>7, IdleIs DEF RecordOK, StoppedIn
  <2> QED BY <2>1, <2>7, <2>8 DEF Resume, s2
<1>9. CASE ~(p.at \in Ending /\ Len(q) = 1)
  <2>1. p2 = [p EXCEPT !.plan = Tail(q)] BY <1>9
  <2>2. /\ p2.op = p.op /\ p2.at = p.at /\ p2.br = p.br /\ p2.from = p.from
        /\ p2.tip = p.tip /\ p2.list = p.list /\ p2.plan = Tail(q)
    BY <1>1, <2>1 DEF Process
  <2>3. p2 # Idle BY <1>3, <2>2, IdleIs
  <2>4. Recording(p2) <=> Recording(p) BY <2>2 DEF Recording
  <2>5. Recording(p) => WillBe(Tail(q), s2, "r_commit", {Head(p.list).id})
    BY <1>4, <1>5, <1>6
  <2>6. ~Recording(p) => WillBe(Tail(q), s2, "r_commit", {NoId}) BY <1>4, <1>5, <1>7
  <2>7. p.op = "histedit" /\ p.at \in {"merge", "commit"} =>
          WillBe(Tail(q), s2, "h_commit", Commits)
    BY <1>4, <1>5 DEF Resume, RecordOK
  <2>8. RecordOK(s2, p2) BY <2>2, <2>3, <2>4, <2>5, <2>6, <2>7 DEF RecordOK, StoppedIn
  <2>9. ASSUME p.op = "rebase", p.at \in Live PROVE Rebasing(s2, p2)
    <3>1. Rebasing(st, p) BY <2>9 DEF Resume
    <3>2. WillBe(Tail(q), s2, "r_branch", {p.br}) BY <1>4, <1>5, <3>1 DEF Rebasing
    <3>3. /\ Head(q) = q[1] /\ 1 \in DOMAIN q /\ q[1] \in Writes
          /\ \A i \in DOMAIN Tail(q) : i + 1 \in DOMAIN q /\ Tail(q)[i] = q[i + 1]
      BY <1>1, PlanTail
    <3>4. \A i \in DOMAIN q : q[i][1] \notin Branches BY <3>1 DEF Rebasing
    <3>5. \A i \in DOMAIN Tail(q) : Tail(q)[i][1] \notin Branches BY <3>3, <3>4
    <3>6. p.br \in Branches BY <2>9 DEF Steady, PhaseOK
    <3>7. s2[p.br] = st[p.br]
      <4>1. q[1][1] # p.br /\ p.br \in Keys BY <1>4, <3>3, <3>4, <3>6
      <4>2. \A k \in Keys : s2[k] = IF k = q[1][1] THEN q[1][2] ELSE st[k]
        BY <1>1, <3>3, WrittenIs
      <4> QED BY <4>1, <4>2
    <3> HIDE DEF q, s2
    <3> QED BY <2>2, <3>1, <3>2, <3>5, <3>7 DEF Rebasing
  <2> QED BY <2>2, <2>8, <2>9 DEF Resume
<1> QED BY <1>8, <1>9

(* The records while no command runs.                                      *)
LEMMA IdleResume ==
    ASSUME NEW st
    PROVE  Resume(st, Idle) <=>
              /\ st.head = "r_tmp" => st.r_commit \in Commits
                                      /\ IsPrefix(st.r_commit, st[st.r_branch])
              /\ st.head # "r_tmp" => st.r_commit = NoId
              /\ st.head = "h_tmp" => st.h_commit \in Commits
<1>1. ~Recording(Idle) /\ Idle.op = "none" /\ Idle.plan = <<>> BY IdleIs DEF Recording
<1>2. WillBe(<<>>, st, "r_commit", {NoId}) <=> st.r_commit = NoId BY DEF WillBe
<1> QED BY <1>1, <1>2 DEF Resume, RecordOK, StoppedIn

(* The records while a command of histedit runs.                           *)
LEMMA HisteditResume ==
    ASSUME NEW st, NEW p, p.op = "histedit", p.at # "idle"
    PROVE  Resume(st, p) <=>
              /\ WillBe(p.plan, st, "r_commit", {NoId})
              /\ p.at \in {"merge", "commit"} => WillBe(p.plan, st, "h_commit", Commits)
<1>1. ~Recording(p) /\ p # Idle BY IdleIs DEF Recording
<1> QED BY <1>1 DEF Resume, RecordOK, StoppedIn

LEMMA RebaseResume ==
    ASSUME NEW st, NEW p, p.op = "rebase", p.at # "idle"
    PROVE  Resume(st, p) <=>
              /\ p.at \in {"merge", "commit"} => WillBe(p.plan, st, "r_commit", {Head(p.list).id})
              /\ p.at \notin {"merge", "commit"} => WillBe(p.plan, st, "r_commit", {NoId})
              /\ p.at \in Live => Rebasing(st, p)
<1>1. p # Idle BY IdleIs
<1> QED BY <1>1 DEF Resume, RecordOK, StoppedIn, Recording

LEMMA DiskKeeps ==
    ASSUME NEW st, StoreOK(st), NEW d \in Disk
    PROVE  \A k \in Keys \ {"disk"} : [st EXCEPT !.disk = d][k] = st[k]
  BY DEF StoreOK

(* Files are merged or edited: the records are as before.                  *)
SameRefs(st, s2) ==
    /\ s2.head = st.head /\ s2.r_commit = st.r_commit /\ s2.h_commit = st.h_commit
    /\ s2.r_branch = st.r_branch /\ s2.main = st.main /\ s2.topic = st.topic

LEMMA DiskRefs ==
    ASSUME NEW st, StoreOK(st), NEW d \in Disk
    PROVE  SameRefs(st, [st EXCEPT !.disk = d])
  BY DiskKeeps DEF SameRefs, Keys, IdKeys, NameKeys, Branches

LEMMA SameRefsIdle ==
    ASSUME NEW st, NEW s2, SameRefs(st, s2), Resume(st, Idle),
           st.head = "r_tmp" => st.r_branch \in Branches
    PROVE  Resume(s2, Idle)
<1>1. st.head = "r_tmp" => s2[s2.r_branch] = st[st.r_branch] BY DEF SameRefs, Branches
<1> QED BY <1>1, IdleResume DEF SameRefs

(* A command that goes on, and one that stops.                             *)
LEMMA HisteditRecords ==
    ASSUME proc'.op = "histedit", proc'.at # "idle",
           WillBe(proc'.plan, store', "r_commit", {NoId}),
           proc'.at \in {"merge", "commit"} => WillBe(proc'.plan, store', "h_commit", Commits)
    PROVE  Resume(store', proc')
<1>1. ASSUME NEW st, NEW p, p.op = "histedit", p.at # "idle",
             WillBe(p.plan, st, "r_commit", {NoId}),
             p.at \in {"merge", "commit"} => WillBe(p.plan, st, "h_commit", Commits)
      PROVE  Resume(st, p)
  BY <1>1, HisteditResume
<1> QED BY <1>1

LEMMA RebaseRecords ==
    ASSUME proc'.op = "rebase", proc'.at # "idle",
           proc'.at \in {"merge", "commit"} =>
              WillBe(proc'.plan, store', "r_commit", {Head(proc'.list).id}),
           proc'.at \notin {"merge", "commit"} =>
              WillBe(proc'.plan, store', "r_commit", {NoId}),
           proc'.at \in Live => Rebasing(store', proc')
    PROVE  Resume(store', proc')
<1>1. ASSUME NEW st, NEW p, p.op = "rebase", p.at # "idle",
             p.at \in {"merge", "commit"} => WillBe(p.plan, st, "r_commit", {Head(p.list).id}),
             p.at \notin {"merge", "commit"} => WillBe(p.plan, st, "r_commit", {NoId}),
             p.at \in Live => Rebasing(st, p)
      PROVE  Resume(st, p)
  BY <1>1, RebaseResume
<1> QED BY <1>1

(* What is recorded in the phases of the two commands.                     *)
LEMMA RebaseHas ==
    ASSUME Resume(store, proc), proc.op = "rebase", proc.at \in Live, proc.plan = <<>>
    PROVE  /\ proc.at \in {"merge", "commit"} => store.r_commit = Head(proc.list).id
           /\ proc.at \notin {"merge", "commit"} => store.r_commit = NoId
           /\ store.r_branch = proc.br /\ Rebasing(store, proc)
<1>1. proc.at # "idle" BY DEF Live
<1>2. \A k, v : WillBe(<<>>, store, k, {v}) => store[k] = v BY DEF WillBe
<1>3. /\ proc.at \in {"merge", "commit"} => WillBe(<<>>, store, "r_commit", {Head(proc.list).id})
      /\ proc.at \notin {"merge", "commit"} => WillBe(<<>>, store, "r_commit", {NoId})
      /\ Rebasing(store, proc)
  BY <1>1, RebaseResume
<1>4. WillBe(<<>>, store, "r_branch", {proc.br}) BY <1>3 DEF Rebasing
<1> QED BY <1>2, <1>3, <1>4

LEMMA HisteditHas ==
    ASSUME Resume(store, proc), proc.op = "histedit", proc.at # "idle", proc.plan = <<>>
    PROVE  /\ store.r_commit = NoId
           /\ proc.at \in {"merge", "commit"} => store.h_commit \in Commits
<1>1. \A k, V : WillBe(<<>>, store, k, V) => store[k] \in V BY DEF WillBe
<1>2. /\ WillBe(<<>>, store, "r_commit", {NoId})
      /\ proc.at \in {"merge", "commit"} => WillBe(<<>>, store, "h_commit", Commits)
  BY HisteditResume
<1> QED BY <1>1, <1>2

(* A rebase that stops while the commit it merges is recorded.             *)
LEMMA RebaseStops ==
    ASSUME Steady(store, proc, home), Resume(store, proc), proc.op = "rebase",
           proc.at \in {"merge", "commit"}, proc.plan = <<>>
    PROVE  Resume(store, Idle) /\ store.head = "r_tmp" /\ store.r_branch \in Branches
<1>1. proc.at \in Live BY DEF Live
<1>2. store.head = "r_tmp" /\ proc.br \in Branches BY <1>1, LiveIsInPlace, TmpRefs
<1>3. proc.list # <<>> /\ proc.list \in Seq(Entry) BY DEF Steady, PhaseOK, Process
<1>4. Head(proc.list) = proc.list[1] /\ 1 \in DOMAIN proc.list BY <1>3
<1>5. Head(proc.list).id \in Commits BY <1>3, FirstEntry
<1>6. store.r_commit = Head(proc.list).id /\ store.r_branch = proc.br /\ Rebasing(store, proc)
  BY <1>1, RebaseHas
<1>7. IsPrefix(Head(proc.list).id, proc.tip) BY <1>4, <1>6 DEF Rebasing
<1>8. store[proc.br] = proc.tip BY <1>6 DEF Rebasing
<1> QED BY <1>2, <1>5, <1>6, <1>7, <1>8, IdleResume

LEMMA HisteditStops ==
    ASSUME Steady(store, proc, home), Resume(store, proc), proc.op = "histedit",
           proc.at \in {"merge", "commit"}, proc.plan = <<>>
    PROVE  Resume(store, Idle) /\ store.head = "h_tmp"
<1>1. proc.at \in Live /\ proc.at # "idle" BY DEF Live
<1>2. store.head = "h_tmp" BY <1>1, LiveIsInPlace, TmpRefs
<1>3. store.r_commit = NoId /\ store.h_commit \in Commits BY <1>1, HisteditHas
<1> QED BY <1>2, <1>3, IdleResume

LEMMA WriteRecords ==
    ASSUME Steady(store, proc, home), Resume(store, proc), Write
    PROVE  Resume(store', proc')
<1>1. /\ proc.plan # <<>>
      /\ store' = Written(store, Head(proc.plan))
      /\ proc' = IF proc.at \in Ending /\ Len(proc.plan) = 1
                 THEN Idle ELSE [proc EXCEPT !.plan = Tail(@)]
  BY DEF Write, Do, Written, Ending
<1>2. ASSUME NEW p2, p2 = IF proc.at \in Ending /\ Len(proc.plan) = 1
                          THEN Idle ELSE [proc EXCEPT !.plan = Tail(@)]
      PROVE  Resume(Written(store, Head(proc.plan)), p2)
  BY <1>1, <1>2, WriteResume
<1>3. Resume(Written(store, Head(proc.plan)), proc') BY <1>1, <1>2
<1> QED BY <1>1, <1>3

LEMMA CommitRecords ==
    ASSUME Steady(store, proc, home), Resume(store, proc), Commit
    PROVE  Resume(store', proc')
<1> DEFINE pl == RebaseCommitWrites(proc.op, proc.merged, Last(Head(proc.list).id).msg)
           p2 == [proc EXCEPT !.plan = pl, !.at = "next", !.list = Tail(@), !.merged = {}]
<1>1. /\ proc.at = "commit" /\ proc.plan = <<>> /\ store' = store
      /\ proc' = Idle \/ proc' = p2
  BY DEF Commit, At, history
<1>2. proc \in Process /\ proc.list # <<>> BY <1>1 DEF Steady, PhaseOK
<1>3. proc.op \in Operations BY <1>1, LiveIsInPlace DEF Live
<1>4. proc.op = "rebase" \/ proc.op = "histedit" BY <1>3 DEF Operations
<1>5. CASE proc' = Idle
  <2>1. Resume(store, Idle) BY <1>1, <1>4, RebaseStops, HisteditStops
  <2> QED BY <1>1, <1>5, <2>1
<1>6. CASE proc' = p2
  <2>1. /\ proc'.at = "next" /\ proc'.op = proc.op /\ proc'.br = proc.br /\ proc'.plan = pl
        /\ proc'.tip = proc.tip /\ proc'.list = Tail(proc.list)
    BY <1>2, <1>6 DEF Process
  <2>2. CASE proc.op = "rebase"
    <3>1. WillBe(pl, store, "r_commit", {NoId}) /\ Avoids(pl, Branches) /\ Avoids(pl, {"r_branch"})
      BY <2>2, CommitRecord
    <3> HIDE DEF pl
    <3>2. Rebasing(store, proc) /\ store.r_branch = proc.br
      BY <1>1, <2>2, RebaseHas DEF Live
    <3>3. WillBe(pl, store, "r_branch", {proc.br}) BY <3>1, <3>2, AvoidedStays
    <3>4. proc.list \in Seq(Entry) BY <1>2 DEF Process
    <3>5. \A i \in DOMAIN Tail(proc.list) :
            i + 1 \in DOMAIN proc.list /\ Tail(proc.list)[i] = proc.list[i + 1]
      BY <1>2, <3>4
    <3>6. \A i \in DOMAIN Tail(proc.list) : IsPrefix(Tail(proc.list)[i].id, proc.tip)
      BY <3>2, <3>5 DEF Rebasing
    <3>7. store[proc.br] = proc.tip BY <1>1, <3>2 DEF Rebasing
    <3>8. \A i \in DOMAIN pl : pl[i][1] \notin Branches BY <3>1 DEF Avoids
    <3>9. Rebasing(store', proc') BY <1>1, <2>1, <3>3, <3>6, <3>7, <3>8 DEF Rebasing
    <3> QED BY <1>1, <2>1, <2>2, <3>1, <3>9, RebaseRecords
  <2>3. CASE proc.op = "histedit"
    <3>1. Avoids(pl, {"r_commit"}) BY <2>3, CommitRecord
    <3> HIDE DEF pl
    <3>2. store.r_commit = NoId BY <1>1, <2>3, HisteditHas
    <3>3. WillBe(pl, store, "r_commit", {NoId}) BY <3>1, <3>2, AvoidedStays
    <3> QED BY <1>1, <2>1, <2>3, <3>3, HisteditRecords
  <2> QED BY <1>4, <2>2, <2>3
<1> QED BY <1>1, <1>5, <1>6

LEMMA CompleteRecords ==
    ASSUME Steady(store, proc, home), Resume(store, proc), Complete
    PROVE  Resume(store', proc')
<1> DEFINE pl == CompleteWrites(proc.op, proc.br)
<1>1. /\ proc.at = "next" /\ proc.plan = <<>> /\ store' = store
      /\ proc' = [proc EXCEPT !.plan = pl, !.at = "completing"]
  BY DEF Complete, At, history
<1>2. proc \in Process /\ StoreOK(store) BY DEF Steady
<1>3. proc.op \in Operations /\ store.head = TmpRef[proc.op] /\ proc.br \in Branches
  BY <1>1, LiveIsInPlace DEF Live
<1>4. store[TmpRef[proc.op]] \in Commits BY <1>3, HeadExists
<1>5. Forgets(pl, proc.op) BY <1>2, <1>3, <1>4, CompletePlan
<1> HIDE DEF pl
<1>6. proc.op = "rebase" \/ proc.op = "histedit" BY <1>3 DEF Operations
<1>7. store.r_commit = NoId BY <1>1, <1>6, RebaseHas, HisteditHas DEF Live
<1>8. WillBe(pl, store, "r_commit", {NoId}) BY <1>5, <1>7, ForgetRecord
<1>9. proc'.at = "completing" /\ proc'.op = proc.op /\ proc'.plan = pl
  BY <1>1, <1>2 DEF Process
<1>10. proc'.at \notin Live BY <1>9 DEF Live
<1> QED BY <1>1, <1>6, <1>8, <1>9, <1>10, RebaseRecords, HisteditRecords

LEMMA ResolveBranchRecords ==
    ASSUME Steady(store, proc, home), Resume(store, proc), ResolveBranch
    PROVE  Resume(store', proc')
<1>1. /\ proc.at = "resolve" /\ proc.plan = <<>> /\ store' = store
      /\ proc' = [proc EXCEPT !.at = "collect", !.tip = store[proc.br]]
  BY DEF ResolveBranch, At, history
<1>2. proc \in Process /\ proc.op = "rebase" BY <1>1 DEF Steady, PhaseOK
<1>3. store.r_commit = NoId /\ Rebasing(store, proc) BY <1>1, <1>2, RebaseHas DEF Live
<1>4. /\ proc'.at = "collect" /\ proc'.op = "rebase" /\ proc'.br = proc.br
      /\ proc'.plan = <<>> /\ proc'.tip = store[proc.br] /\ proc'.from = proc.from
      /\ proc'.list = proc.list
  BY <1>1, <1>2 DEF Process
<1>5. proc.list = <<>> BY <1>1, <1>3 DEF Rebasing
<1>6. WillBe(<<>>, store, "r_commit", {NoId}) BY <1>3 DEF WillBe
<1>7. Rebasing(store', proc') BY <1>1, <1>3, <1>4, <1>5 DEF Rebasing
<1> QED BY <1>1, <1>4, <1>6, <1>7, RebaseRecords

LEMMA CollectRecords ==
    ASSUME Steady(store, proc, home), Resume(store, proc), Collect
    PROVE  Resume(store', proc')
<1> DEFINE pl == AbortWrites("rebase", store.r_newbase, store[store.r_newbase])
           ls == CommitsAfter(proc.from, proc.tip)
           p1 == [proc EXCEPT !.at = "aborting", !.plan = pl]
           p2 == [proc EXCEPT !.at = "next", !.list = ls]
<1>1. /\ proc.at = "collect" /\ proc.plan = <<>> /\ store' = store
      /\ proc' = p1 \/ proc' = p2 \/ ~IsPrefix(proc.from, proc.tip)
  BY DEF Collect, At, history
<1>2. proc \in Process /\ StoreOK(store) /\ proc.op = "rebase" /\ home \in Branches
  BY <1>1 DEF Steady, PhaseOK
<1>3. proc.op \in Operations /\ store.head = TmpRef[proc.op] /\ proc.br \in Branches
  BY <1>1, LiveIsInPlace DEF Live
<1>4. store.r_commit = NoId /\ Rebasing(store, proc) BY <1>1, <1>2, RebaseHas DEF Live
<1>5. IsPrefix(proc.from, proc.tip) /\ store[proc.br] = proc.tip
  BY <1>1, <1>4 DEF Rebasing
<1>6. CASE proc' = p1
  <2>1. store.r_newbase = home BY <1>2, <1>3, TmpRefs, InPlace
  <2>2. store[store.r_newbase] \in Commits BY <1>2, <2>1, StoreTypes DEF Branches
  <2>3. Forgets(pl, "rebase") BY <1>2, <1>3, <2>1, <2>2, AbortPlan
  <2> HIDE DEF pl
  <2>4. WillBe(pl, store, "r_commit", {NoId}) BY <2>3, ForgetRecord
  <2>5. proc'.at = "aborting" /\ proc'.op = "rebase" /\ proc'.plan = pl
    BY <1>2, <1>6 DEF Process
  <2>6. proc'.at \notin Live BY <2>5 DEF Live
  <2> QED BY <1>1, <2>4, <2>5, <2>6, RebaseRecords
<1>7. CASE proc' = p2
  <2>1. proc.from \in Ids /\ proc.tip \in Commits
    BY <1>2, <1>3, <1>5, StoreTypes DEF Process, Branches
  <2>2. /\ DOMAIN ls = 1..(Len(proc.tip) - Len(proc.from))
        /\ \A i \in 1..(Len(proc.tip) - Len(proc.from)) :
              /\ Len(proc.from) + i \in 1..Len(proc.tip)
              /\ ls[i].id = SubSeq(proc.tip, 1, Len(proc.from) + i)
    BY <2>1, CommitsAfterIs DEF Ids
  <2> HIDE DEF ls
  <2>3. \A i \in DOMAIN ls : IsPrefix(ls[i].id, proc.tip) BY <2>1, <2>2, PrefixOfTip
  <2>4. /\ proc'.at = "next" /\ proc'.op = "rebase" /\ proc'.br = proc.br
        /\ proc'.plan = <<>> /\ proc'.tip = proc.tip /\ proc'.list = ls
    BY <1>1, <1>2, <1>7 DEF Process
  <2>5. WillBe(<<>>, store, "r_commit", {NoId}) BY <1>4 DEF WillBe
  <2>6. Rebasing(store', proc') BY <1>1, <1>4, <1>5, <2>3, <2>4 DEF Rebasing
  <2> QED BY <1>1, <2>4, <2>5, <2>6, RebaseRecords
<1> QED BY <1>1, <1>5, <1>6, <1>7

LEMMA RebaseNextRecords ==
    ASSUME Steady(store, proc, home), Resume(store, proc), RebaseNext
    PROVE  Resume(store', proc')
<1> DEFINE id == Head(proc.list).id
           pl == StoreCommitId("rebase", id)
<1>1. /\ proc.at = "next" /\ proc.plan = <<>> /\ store' = store
      /\ proc.op = "rebase" /\ proc.list # <<>>
      /\ store.r_commit \in {NoId, id} => proc' = [proc EXCEPT !.plan = pl, !.at = "merge"]
  BY DEF RebaseNext, At, history
<1>2. proc \in Process BY <1>1 DEF Steady
<1>3. store.r_commit = NoId /\ Rebasing(store, proc) /\ store.r_branch = proc.br
  BY <1>1, <1>2, RebaseHas DEF Live
<1>4. id \in Commits BY <1>1, FirstEntry
<1>5. /\ WillBe(pl, store, "r_commit", {id}) /\ Avoids(pl, Branches)
      /\ Avoids(pl, {"r_branch"})
  BY <1>3, <1>4, StoreRecord
<1> HIDE DEF pl
<1>6. /\ proc'.at = "merge" /\ proc'.op = "rebase" /\ proc'.br = proc.br
      /\ proc'.plan = pl /\ proc'.tip = proc.tip /\ proc'.list = proc.list
  BY <1>1, <1>2, <1>3 DEF Process
<1>7. WillBe(pl, store, "r_branch", {proc.br}) BY <1>3, <1>5, AvoidedStays
<1>8. \A i \in DOMAIN pl : pl[i][1] \notin Branches BY <1>5 DEF Avoids
<1>9. Rebasing(store', proc') BY <1>1, <1>3, <1>6, <1>7, <1>8 DEF Rebasing
<1> QED BY <1>1, <1>5, <1>6, <1>9, RebaseRecords

LEMMA RebaseMergeRecords ==
    ASSUME Steady(store, proc, home), Resume(store, proc), RebaseMerge
    PROVE  Resume(store', proc')
<1> DEFINE id == Head(proc.list).id
           p2 == [proc EXCEPT !.at = "commit", !.merged = TouchedBy(id)]
<1>1. PICK c \in Conflicts(id, TouchedBy(id)) :
         /\ proc.at = "merge" /\ proc.plan = <<>>
         /\ proc.op = "rebase"
         /\ store' = [store EXCEPT !.disk = MergeFiles(id, TouchedBy(id), c)]
         /\ proc' = p2 \/ proc' = Idle
  BY DEF RebaseMerge, At, history
<1>2. proc \in Process /\ StoreOK(store) /\ proc.list # <<>>
  BY <1>1 DEF Steady, PhaseOK
<1>3. id \in Commits BY <1>2, FirstEntry
<1>4. c \in SUBSET Files BY DEF Conflicts, TouchedBy
<1> DEFINE d == MergeFiles(id, TouchedBy(id), c)
<1>5. d \in Disk BY <1>2, <1>3, <1>4, MergeIsDisk
<1>6. store' = [store EXCEPT !.disk = d] BY <1>1
<1> HIDE DEF d
<1>7. SameRefs(store, [store EXCEPT !.disk = d]) BY <1>2, <1>5, DiskRefs
<1>8. SameRefs(store, store') BY <1>6, <1>7
<1>9. Resume(store, Idle) /\ store.head = "r_tmp" /\ store.r_branch \in Branches
  BY <1>1, RebaseStops
<1>10. CASE proc' = Idle
  <2>1. Resume([store EXCEPT !.disk = d], Idle) BY <1>7, <1>9, SameRefsIdle
  <2> QED BY <1>6, <1>10, <2>1
<1>11. CASE proc' = p2
  <2>1. /\ proc'.at = "commit" /\ proc'.op = "rebase" /\ proc'.br = proc.br
        /\ proc'.plan = <<>> /\ proc'.tip = proc.tip /\ proc'.list = proc.list
    BY <1>1, <1>2, <1>11 DEF Process
  <2>2. store.r_commit = id /\ store.r_branch = proc.br /\ Rebasing(store, proc)
    BY <1>1, RebaseHas DEF Live
  <2>3. WillBe(<<>>, store', "r_commit", {id}) BY <1>8, <2>2 DEF WillBe, SameRefs
  <2>4. proc.br \in Branches BY <1>9, <2>2
  <2>5. store'[proc.br] = store[proc.br] BY <1>8, <2>4 DEF SameRefs, Branches
  <2>6. WillBe(<<>>, store', "r_branch", {proc.br}) BY <1>8, <2>2 DEF WillBe, SameRefs
  <2>7. Rebasing(store', proc') BY <1>1, <2>1, <2>2, <2>5, <2>6 DEF Rebasing
  <2> QED BY <2>1, <2>3, <2>7, RebaseRecords
<1> QED BY <1>1, <1>10, <1>11

LEMMA RebaseAbortRecords ==
    ASSUME Steady(store, proc, home), Resume(store, proc), RebaseAbort
    PROVE  Resume(store', proc')
<1> DEFINE pl == AbortWrites("rebase", store.r_newbase, store[store.r_newbase])
<1>1. /\ proc = Idle /\ store.head = "r_tmp" /\ store' = store
      /\ proc' = [Idle EXCEPT !.op = "rebase", !.at = "aborting", !.plan = pl]
  BY TmpRefs DEF RebaseAbort, RebaseResumable, InProgress, history
<1>2. StoreOK(store) /\ home \in Branches BY DEF Steady
<1>3. store.r_newbase = home BY <1>1, InPlace
<1>4. store[store.r_newbase] \in Commits BY <1>2, <1>3, StoreTypes DEF Branches
<1>5. Forgets(pl, "rebase") BY <1>2, <1>3, <1>4, AbortPlan DEF Operations
<1> HIDE DEF pl
<1>6. WillBe(pl, store, "r_commit", {NoId}) BY <1>5, ForgetRecord
<1>7. proc'.at = "aborting" /\ proc'.op = "rebase" /\ proc'.plan = pl
  BY <1>1, IdleIs DEF Process
<1>8. proc'.at \notin Live BY <1>7 DEF Live
<1> QED BY <1>1, <1>6, <1>7, <1>8, RebaseRecords

LEMMA RebaseContinueRecords ==
    ASSUME Steady(store, proc, home), Resume(store, proc), RebaseContinue
    PROVE  Resume(store', proc')
<1> DEFINE pl == RebaseCommitWrites("rebase", Files, Last(store.r_commit).msg)
<1>1. /\ proc = Idle /\ store.head = "r_tmp" /\ store' = store
      /\ proc' = [Idle EXCEPT !.op = "rebase", !.at = "resolve", !.br = store.r_branch,
                              !.from = store.r_commit, !.plan = pl]
  BY TmpRefs DEF RebaseContinue, RebaseResumable, InProgress, history
<1>2. IsPrefix(store.r_commit, store[store.r_branch]) BY <1>1, IdleResume
<1>3. WillBe(pl, store, "r_commit", {NoId}) /\ Avoids(pl, Branches) /\ Avoids(pl, {"r_branch"})
  BY CommitRecord
<1> HIDE DEF pl
<1>4. /\ proc'.at = "resolve" /\ proc'.op = "rebase" /\ proc'.br = store.r_branch
      /\ proc'.plan = pl /\ proc'.from = store.r_commit /\ proc'.list = <<>>
  BY <1>1, IdleIs DEF Process
<1>5. WillBe(pl, store, "r_branch", {store.r_branch}) BY <1>3, AvoidedStays
<1>6. \A i \in DOMAIN pl : pl[i][1] \notin Branches BY <1>3 DEF Avoids
<1>7. Rebasing(store', proc') BY <1>1, <1>2, <1>4, <1>5, <1>6 DEF Rebasing
<1> QED BY <1>1, <1>3, <1>4, <1>7, RebaseRecords

LEMMA RebaseStartRecords ==
    ASSUME Steady(store, proc, home), Resume(store, proc), NEW b \in Branches,
           RebaseStart(b), "restart" \notin seen'
    PROVE  Resume(store', proc')
<1> DEFINE fr == LongestCommonPrefix({store.base, store[b]})
           pl == << <<"r_newbase", store.head>>, <<"r_branch", b>>,
                    <<"r_tmp", store.base>>, <<"head", "r_tmp">> >>
<1>1. /\ proc = Idle /\ store' = store
      /\ proc' = [Idle EXCEPT !.op = "rebase", !.at = "collect", !.br = b,
                              !.from = fr, !.tip = store[b], !.plan = pl]
  BY DEF RebaseStart
<1>2. store.head # "r_tmp" BY TmpRefs DEF RebaseStart, InProgress
<1>3. StoreOK(store) BY DEF Steady
<1>4. store.base \in Commits /\ store[b] \in Commits BY <1>3, StoreTypes DEF Branches
<1>5. IsPrefix(fr, store[b]) BY <1>4, CommonPrefix
<1>6. store.r_commit = NoId BY <1>1, <1>2, IdleResume
<1>7. /\ DOMAIN pl = 1..4 /\ pl[1][1] = "r_newbase" /\ pl[2][1] = "r_branch"
      /\ pl[2][2] = b /\ pl[3][1] = "r_tmp" /\ pl[4][1] = "head"
  OBVIOUS
<1> HIDE DEF fr, pl
<1>8. \A i \in 1..4 : i = 1 \/ i = 2 \/ i = 3 \/ i = 4 OBVIOUS
<1>9. WillBe(pl, store, "r_commit", {NoId}) BY <1>6, <1>7, <1>8 DEF WillBe
<1>10. WillBe(pl, store, "r_branch", {b}) BY <1>7, <1>8 DEF WillBe
<1>11. \A i \in DOMAIN pl : pl[i][1] \notin Branches BY <1>7, <1>8 DEF Branches
<1>12. /\ proc'.at = "collect" /\ proc'.op = "rebase" /\ proc'.br = b /\ proc'.plan = pl
       /\ proc'.from = fr /\ proc'.tip = store[b] /\ proc'.list = <<>>
  BY <1>1, IdleIs DEF Process
<1>13. Rebasing(store', proc') BY <1>1, <1>5, <1>10, <1>11, <1>12 DEF Rebasing
<1> QED BY <1>1, <1>9, <1>12, <1>13, RebaseRecords

LEMMA HisteditStartRecords ==
    ASSUME Steady(store, proc, home), Resume(store, proc), HisteditStart
    PROVE  Resume(store', proc')
<1> DEFINE ls == CommitsAfter(store.base, store[store.head])
           pl == << <<"h_branch", store.head>>, <<"h_base", store.base>>,
                    <<"h_tmp", store.base>>, <<"head", "h_tmp">> >>
<1>1. /\ proc = Idle /\ store' = store /\ store.head \in Branches
      /\ proc' = [Idle EXCEPT !.op = "histedit", !.at = "script", !.br = store.head,
                              !.list = ls, !.plan = pl]
  BY DEF HisteditStart
<1>2. store.head # "r_tmp" BY <1>1 DEF Branches
<1>3. store.r_commit = NoId BY <1>1, <1>2, IdleResume
<1>4. Avoids(pl, {"r_commit"}) BY DEF Avoids
<1> HIDE DEF ls, pl
<1>5. WillBe(pl, store, "r_commit", {NoId}) BY <1>3, <1>4, AvoidedStays
<1>6. proc'.at = "script" /\ proc'.op = "histedit" /\ proc'.plan = pl
  BY <1>1, IdleIs DEF Process
<1> QED BY <1>1, <1>5, <1>6, HisteditRecords

LEMMA HisteditScriptRecords ==
    ASSUME Steady(store, proc, home), Resume(store, proc), HisteditScript
    PROVE  Resume(store', proc')
<1> DEFINE pl == AbortWrites("histedit", store.h_branch, store.h_base)
           p1 == [proc EXCEPT !.plan = pl, !.at = "aborting"]
           p2(s) == [proc EXCEPT !.plan = << <<"script", s>> >>, !.at = "next", !.list = s]
<1>1. /\ proc.at = "script" /\ proc.plan = <<>> /\ store' = store
      /\ proc' = p1 \/ \E s \in Scripts(proc.list) : proc' = p2(s)
  BY DEF HisteditScript, At
<1>2. /\ proc \in Process /\ StoreOK(store) /\ proc.op = "histedit"
      /\ home \in Branches
  BY <1>1 DEF Steady, PhaseOK
<1>3. store.head = "h_tmp"
  <2>1. store.head = TmpRef[proc.op] BY <1>1, LiveIsInPlace DEF Live
  <2> QED BY <1>2, <2>1, TmpRefs
<1>4. store.r_commit = NoId BY <1>1, <1>2, HisteditHas
<1>5. CASE proc' = p1
  <2>1. store.h_branch = home /\ store.h_base \in Commits BY <1>3, InPlace
  <2>2. Forgets(pl, "histedit") BY <1>2, <2>1, AbortPlan DEF Operations
  <2> HIDE DEF pl
  <2>3. WillBe(pl, store, "r_commit", {NoId}) BY <1>4, <2>2, ForgetRecord
  <2>4. proc'.at = "aborting" /\ proc'.op = "histedit" /\ proc'.plan = pl
    BY <1>2, <1>5 DEF Process
  <2> QED BY <1>1, <2>3, <2>4, HisteditRecords
<1>6. ASSUME NEW s \in Scripts(proc.list), proc' = p2(s) PROVE Resume(store', proc')
  <2> DEFINE q == << <<"script", s>> >>
  <2>1. Avoids(q, {"r_commit"}) BY DEF Avoids
  <2> HIDE DEF q
  <2>2. proc' = [proc EXCEPT !.plan = q, !.at = "next", !.list = s] BY <1>6 DEF q
  <2>3. WillBe(q, store, "r_commit", {NoId}) BY <1>4, <2>1, AvoidedStays
  <2>4. proc'.at = "next" /\ proc'.op = "histedit" /\ proc'.plan = q
    BY <1>2, <2>2 DEF Process
  <2> QED BY <1>1, <2>3, <2>4, HisteditRecords
<1> QED BY <1>1, <1>5, <1>6

LEMMA HisteditAbortRecords ==
    ASSUME Steady(store, proc, home), Resume(store, proc), HisteditAbort
    PROVE  Resume(store', proc')
<1> DEFINE pl == AbortWrites("histedit", store.h_branch, store.h_base)
<1>1. /\ proc = Idle /\ store.head = "h_tmp" /\ store' = store
      /\ proc' = [Idle EXCEPT !.op = "histedit", !.at = "aborting", !.plan = pl]
  BY TmpRefs DEF HisteditAbort, HisteditResumable, InProgress, history
<1>2. StoreOK(store) /\ home \in Branches BY DEF Steady
<1>3. store.h_branch = home /\ store.h_base \in Commits BY <1>1, InPlace
<1>4. store.r_commit = NoId BY <1>1, IdleResume
<1>5. Forgets(pl, "histedit") BY <1>2, <1>3, AbortPlan DEF Operations
<1> HIDE DEF pl
<1>6. WillBe(pl, store, "r_commit", {NoId}) BY <1>4, <1>5, ForgetRecord
<1>7. proc'.at = "aborting" /\ proc'.op = "histedit" /\ proc'.plan = pl
  BY <1>1, IdleIs DEF Process
<1> QED BY <1>1, <1>6, <1>7, HisteditRecords

LEMMA HisteditContinueRecords ==
    ASSUME Steady(store, proc, home), Resume(store, proc), HisteditContinue
    PROVE  Resume(store', proc')
<1> DEFINE p3 == RebaseCommitWrites("histedit", Files, Last(store.h_commit).msg)
           p2 == SkipCommitWrites(store.h_commit)
           Plans == {p2, p3, <<>>}
           ls(i) == SubSeq(store.script, i + 1, Len(store.script))
<1>1. PICK i \in DOMAIN store.script : \E pl \in Plans :
         /\ proc = Idle /\ store.head = "h_tmp" /\ store' = store
         /\ store.h_commit # NoId
         /\ proc' = [Idle EXCEPT !.op = "histedit", !.at = "next",
                        !.br = store.h_branch, !.list = ls(i), !.plan = pl]
  BY TmpRefs, Zenon DEF HisteditContinue, HisteditResumable, InProgress
<1>2. StoreOK(store) BY DEF Steady
<1>3. store.h_commit \in Commits BY <1>1, <1>2, StoreTypes DEF Ids
<1>4. store.r_commit = NoId BY <1>1, IdleResume
<1>5. Avoids(p3, {"r_commit"}) BY CommitRecord
<1>6. Avoids(p2, {"r_commit"}) BY <1>3, SkipRecord
<1>7. Avoids(<<>>, {"r_commit"}) BY DEF Avoids
<1> HIDE DEF p2, p3, ls
<1>8. PICK pl \in Plans :
        proc' = [Idle EXCEPT !.op = "histedit", !.at = "next",
                        !.br = store.h_branch, !.list = ls(i), !.plan = pl]
  BY <1>1
<1>9. Avoids(pl, {"r_commit"}) BY <1>5, <1>6, <1>7
<1>10. WillBe(pl, store, "r_commit", {NoId}) BY <1>4, <1>9, AvoidedStays
<1>11. proc'.at = "next" /\ proc'.op = "histedit" /\ proc'.plan = pl
  BY <1>8, IdleIs DEF Process
<1> QED BY <1>1, <1>10, <1>11, HisteditRecords

LEMMA HisteditNextRecords ==
    ASSUME Steady(store, proc, home), Resume(store, proc), HisteditNext
    PROVE  Resume(store', proc')
<1> DEFINE id == Head(proc.list).id
           q1 == SkipCommitWrites(id)
           q2 == StoreCommitId("histedit", id)
           p1 == [proc EXCEPT !.plan = q1, !.list = Tail(@)]
           p2 == [proc EXCEPT !.plan = q2, !.at = "merge"]
<1>1. /\ proc.at = "next" /\ proc.plan = <<>> /\ store' = store
      /\ proc.op = "histedit" /\ proc.list # <<>>
      /\ proc' = p1 \/ proc' = p2
  BY DEF HisteditNext, At, history
<1>2. proc \in Process /\ StoreOK(store) BY <1>1 DEF Steady
<1>3. id \in Commits BY <1>1, FirstEntry
<1>4. store.r_commit = NoId /\ store.h_commit \in Ids BY <1>1, <1>2, HisteditHas, StoreTypes
<1>5. /\ Avoids(q1, {"r_commit"}) /\ Avoids(q2, {"r_commit"})
      /\ WillBe(q2, store, "h_commit", Commits)
  BY <1>3, <1>4, SkipRecord, StoreRecord
<1> HIDE DEF q1, q2
<1>6. WillBe(q1, store, "r_commit", {NoId}) /\ WillBe(q2, store, "r_commit", {NoId})
  BY <1>4, <1>5, AvoidedStays
<1>7. CASE proc' = p1
  <2>1. proc'.at = "next" /\ proc'.op = "histedit" /\ proc'.plan = q1
    BY <1>1, <1>2, <1>7 DEF Process
  <2> QED BY <1>1, <1>6, <2>1, HisteditRecords
<1>8. CASE proc' = p2
  <2>1. proc'.at = "merge" /\ proc'.op = "histedit" /\ proc'.plan = q2
    BY <1>1, <1>2, <1>8 DEF Process
  <2> QED BY <1>1, <1>5, <1>6, <2>1, HisteditRecords
<1> QED BY <1>1, <1>7, <1>8

LEMMA HisteditMergeRecords ==
    ASSUME Steady(store, proc, home), Resume(store, proc), HisteditMerge
    PROVE  Resume(store', proc')
<1> DEFINE id == Head(proc.list).id
           mg == proc.merged \cup TouchedBy(id)
           q1 == SkipCommitWrites(id)
           p1 == [proc EXCEPT !.plan = q1, !.at = "next", !.list = Tail(@), !.merged = mg]
           p2 == [proc EXCEPT !.at = "commit", !.merged = mg]
<1>1. PICK c \in Conflicts(id, TouchedBy(id)) :
         /\ proc.at = "merge" /\ proc.plan = <<>>
         /\ proc.op = "histedit"
         /\ store' = [store EXCEPT !.disk = MergeFiles(id, TouchedBy(id), c)]
         /\ proc' = p1 \/ proc' = p2 \/ proc' = Idle
  BY DEF HisteditMerge, At, history
<1>2. proc \in Process /\ StoreOK(store) /\ proc.list # <<>>
  BY <1>1 DEF Steady, PhaseOK
<1>3. id \in Commits BY <1>2, FirstEntry
<1>4. Avoids(q1, {"r_commit"}) BY <1>3, SkipRecord
<1>5. c \in SUBSET Files BY DEF Conflicts, TouchedBy
<1> DEFINE d == MergeFiles(id, TouchedBy(id), c)
<1>6. d \in Disk BY <1>2, <1>3, <1>5, MergeIsDisk
<1>7. store' = [store EXCEPT !.disk = d] BY <1>1
<1> HIDE DEF d, id, q1, mg
<1>8. SameRefs(store, [store EXCEPT !.disk = d]) BY <1>2, <1>6, DiskRefs
<1>9. SameRefs(store, store') BY <1>7, <1>8
<1>10. Resume(store, Idle) /\ store.head = "h_tmp" BY <1>1, HisteditStops
<1>11. store.r_commit = NoId /\ store.h_commit \in Commits BY <1>1, HisteditHas
<1>12. store'.r_commit = NoId /\ store'.h_commit \in Commits BY <1>9, <1>11 DEF SameRefs
<1>13. CASE proc' = Idle
  <2>1. Resume([store EXCEPT !.disk = d], Idle) BY <1>8, <1>10, SameRefsIdle
  <2> QED BY <1>7, <1>13, <2>1
<1>14. CASE proc' = p1
  <2>1. proc'.at = "next" /\ proc'.op = "histedit" /\ proc'.plan = q1
    BY <1>1, <1>2, <1>14 DEF Process
  <2>2. WillBe(q1, store', "r_commit", {NoId}) BY <1>4, <1>12 DEF Avoids, WillBe
  <2> QED BY <2>1, <2>2, HisteditRecords
<1>15. CASE proc' = p2
  <2>1. proc'.at = "commit" /\ proc'.op = "histedit" /\ proc'.plan = <<>>
    BY <1>1, <1>2, <1>15 DEF Process
  <2>2. WillBe(<<>>, store', "r_commit", {NoId}) /\ WillBe(<<>>, store', "h_commit", Commits)
    BY <1>12 DEF WillBe
  <2> QED BY <2>1, <2>2, HisteditRecords
<1> QED BY <1>1, <1>13, <1>14, <1>15

LEMMA ResolveRecords ==
    ASSUME Steady(store, proc, home), Resume(store, proc), NEW f, NEW keep, Resolve(f, keep)
    PROVE  Resume(store', proc')
<1>1. store.disk \in Disk /\ StoreOK(store) BY StoreTypes DEF Steady
<1>2. proc = Idle /\ proc' = Idle
      /\ \E gone : store' = [store EXCEPT !.disk = [hunks |-> store.disk.hunks \ gone,
                                                    conf |-> store.disk.conf \ {f}]]
  BY DEF Resolve
<1>3. PICK gone : store' = [store EXCEPT !.disk = [hunks |-> store.disk.hunks \ gone,
                                                   conf |-> store.disk.conf \ {f}]]
  BY <1>2
<1> DEFINE d == [hunks |-> store.disk.hunks \ gone, conf |-> store.disk.conf \ {f}]
<1>4. d \in Disk BY <1>1 DEF Disk
<1>5. store' = [store EXCEPT !.disk = d] BY <1>3
<1> HIDE DEF d
<1>6. Resume([store EXCEPT !.disk = d], Idle)
  BY <1>1, <1>2, <1>4, DiskRefs, SameRefsIdle, InPlace
<1> QED BY <1>2, <1>5, <1>6

LEMMA RevertRecords ==
    ASSUME Steady(store, proc, home), Resume(store, proc), Revert
    PROVE  Resume(store', proc')
<1> DEFINE d == [hunks |-> store.index.blob, conf |-> {}]
<1>1. store.index \in Index /\ StoreOK(store) BY StoreTypes DEF Steady
<1>2. d \in Disk BY <1>1 DEF Disk, Index
<1>3. proc = Idle /\ proc' = Idle /\ store' = [store EXCEPT !.disk = d] BY DEF Revert
<1> HIDE DEF d
<1>4. Resume([store EXCEPT !.disk = d], Idle)
  BY <1>1, <1>2, <1>3, DiskRefs, SameRefsIdle, InPlace
<1> QED BY <1>3, <1>4

LEMMA GotCommitRecords ==
    ASSUME Steady(store, proc, home), Resume(store, proc), GotCommit
    PROVE  Resume(store', proc')
<1>1. proc = Idle /\ proc' = Idle /\ store.head # "r_tmp"
  BY TmpRefs DEF GotCommit, InProgress
<1>2. /\ store'.head = store.head /\ store'.r_commit = store.r_commit
      /\ store'.h_commit = store.h_commit
  BY GotCommitStep
<1>3. /\ store.r_commit = NoId
      /\ store.head = "h_tmp" => store.h_commit \in Commits
  BY <1>1, IdleResume
<1>4. ASSUME NEW s2, s2.head # "r_tmp", s2.r_commit = NoId,
             s2.head = "h_tmp" => s2.h_commit \in Commits
      PROVE  Resume(s2, Idle)
  BY <1>4, IdleResume
<1> QED BY <1>1, <1>2, <1>3, <1>4

LEMMA UpdateRecords ==
    ASSUME Steady(store, proc, home), Resume(store, proc), NEW b \in Branches, NEW n,
           Update(b, n)
    PROVE  Resume(store', proc')
<1>1. proc = Idle /\ proc' = Idle /\ store.head # "r_tmp"
  BY TmpRefs DEF Update, InProgress
<1>2. store'.head = b /\ store'.r_commit = store.r_commit BY UpdateStep
<1>3. store.r_commit = NoId BY <1>1, IdleResume
<1>4. b # "r_tmp" /\ b # "h_tmp" BY DEF Branches
<1>5. ASSUME NEW s2, s2.head # "r_tmp", s2.r_commit = NoId, s2.head # "h_tmp"
      PROVE  Resume(s2, Idle)
  BY <1>5, IdleResume
<1> QED BY <1>1, <1>2, <1>3, <1>4, <1>5

(* A branch that grows still begins with the commit that is recorded.      *)
LEMMA OthersCommitRecords ==
    ASSUME Steady(store, proc, home), Resume(store, proc), NEW b \in Branches,
           NEW f \in Files, OthersCommit(b, f)
    PROVE  Resume(store', proc')
<1> DEFINE S == [msg : Messages, tree : SUBSET Hunk]
<1>1. proc = Idle /\ proc' = Idle BY DEF OthersCommit
<1>2. PICK e \in S : store' = Written(store, <<b, Append(store[b], e)>>)
  BY OthersCommitStep
<1> DEFINE w == <<b, Append(store[b], e)>>
           s2 == Written(store, w)
<1>3. StoreOK(store) BY DEF Steady
<1>4. store[b] \in Seq(S) BY <1>3, StoreTypes, TreeTypes DEF Branches
<1> HIDE DEF S
<1>5. Append(store[b], e) \in Seq(S) /\ Append(store[b], e) # <<>>
  BY <1>4, AppendProperties
<1>6. Append(store[b], e) \in Commits BY <1>5 DEF Commits, NoId, S
<1>7. w \in Writes /\ w[1] = b /\ w[2] = Append(store[b], e) BY <1>6, WriteTypes
<1> HIDE DEF w
<1>8. \A k \in Keys : s2[k] = IF k = w[1] THEN w[2] ELSE store[k] BY <1>3, <1>7, WrittenIs
<1> HIDE DEF s2
<1>9. \A k \in {"head", "r_commit", "h_commit", "r_branch"} : k \in Keys /\ k # b
  BY DEF Keys, IdKeys, NameKeys, Branches
<1>10. /\ s2.head = store.head /\ s2.r_commit = store.r_commit
       /\ s2.h_commit = store.h_commit /\ s2.r_branch = store.r_branch
  BY <1>7, <1>8, <1>9
<1>11. ASSUME store.head = "r_tmp"
       PROVE  store.r_commit \in Commits /\ IsPrefix(store.r_commit, s2[store.r_branch])
  <2>1. store.r_branch \in Branches BY <1>11, InPlace
  <2>2. store.r_commit \in Commits /\ IsPrefix(store.r_commit, store[store.r_branch])
    BY <1>1, <1>11, IdleResume
  <2>3. Branches \subseteq Keys BY DEF Keys
  <2>4. CASE store.r_branch = b
    <3>1. s2[b] = Append(store[b], e) BY <1>7, <1>8, <2>3
    <3>2. store.r_commit \in Seq(S) BY <2>2, TreeTypes DEF S
    <3>3. IsPrefix(store.r_commit, Append(store[b], e)) BY <1>4, <2>2, <2>4, <3>2, PrefixGrows
    <3> QED BY <2>2, <2>4, <3>1, <3>3
  <2>5. CASE store.r_branch # b
    <3>1. s2[store.r_branch] = store[store.r_branch] BY <1>7, <1>8, <2>1, <2>3, <2>5
    <3> QED BY <2>2, <3>1
  <2> QED BY <2>4, <2>5
<1>12. /\ store.head # "r_tmp" => store.r_commit = NoId
       /\ store.head = "h_tmp" => store.h_commit \in Commits
  BY <1>1, IdleResume
<1>13. Resume(s2, Idle) BY <1>10, <1>11, <1>12, IdleResume
<1> QED BY <1>1, <1>2, <1>13 DEF s2, w

-----------------------------------------------------------------------------
LEMMA ResumeStart == ReplayInit => ResumeInv
<1> SUFFICES ASSUME ReplayInit PROVE Resume(store, proc)
  BY DEF ResumeInv
<1>1. store.head = "main" /\ store.r_commit = NoId /\ proc = Idle BY DEF ReplayInit
<1> QED BY <1>1, IdleResume

LEMMA ResumeStep == SteadyInv /\ ResumeInv /\ [Next]_vars => ResumeInv'
<1> SUFFICES ASSUME SteadyInv, ResumeInv, [Next]_vars, Smooth'
             PROVE  Resume(store', proc')
  BY DEF ResumeInv
<1>1. seen \subseteq seen' BY SeenGrows
<1>2. Smooth /\ "restart" \notin seen /\ "restart" \notin seen' /\ "kill" \notin seen'
      /\ "error" \notin seen'
  BY <1>1 DEF Smooth
<1>3. Steady(store, proc, home) /\ Resume(store, proc) BY <1>2 DEF SteadyInv, ResumeInv
<1>4. CASE RebaseCommand
  BY <1>2, <1>3, <1>4, RebaseStartRecords, RebaseContinueRecords, RebaseAbortRecords
     DEF RebaseCommand
<1>5. CASE HisteditCommand
  BY <1>3, <1>5, HisteditStartRecords, HisteditContinueRecords, HisteditAbortRecords
     DEF HisteditCommand
<1>6. CASE Running
  BY <1>3, <1>6, WriteRecords, CommitRecords, CompleteRecords, ResolveBranchRecords,
     CollectRecords, RebaseNextRecords, RebaseMergeRecords, HisteditScriptRecords,
     HisteditNextRecords, HisteditMergeRecords
     DEF Running, RebaseStep, HisteditStep
<1>7. ~Failing BY <1>2 DEF Failing, Kill, CollectFails, ScriptRejected
<1>8. CASE Environment
  BY <1>3, <1>8, ResolveRecords, RevertRecords, GotCommitRecords, UpdateRecords,
     OthersCommitRecords
     DEF Environment
<1>9. CASE UNCHANGED vars BY <1>3, <1>9 DEF vars
<1> QED BY <1>4, <1>5, <1>6, <1>7, <1>8, <1>9 DEF Next

LEMMA AlwaysResumable == Spec => []ResumeInv
<1>1. ReplayInit => ResumeInv BY ResumeStart
<1>2. SteadyInv /\ ResumeInv /\ [Next]_vars => ResumeInv' BY ResumeStep
<1> QED BY <1>1, <1>2, AlwaysSteady, PTL DEF Spec

(* A rebase or histedit that a conflict or an `edit' has stopped has all   *)
(* the references that -c and -a insist on (worktree.c:5957, 6762),        *)
(* whatever others commit and the user does in between.                    *)
THEOREM RewriteCanBeAborted == Spec => []ConflictCanBeAborted
<1>1. SteadyInv /\ ResumeInv => ConflictCanBeAborted
  <2> SUFFICES ASSUME SteadyInv, ResumeInv, Smooth, proc = Idle
               PROVE  /\ InProgress("rebase") => RebaseResumable
                      /\ InProgress("histedit") => HisteditResumable
    BY DEF ConflictCanBeAborted, StoppedCanBeAborted, Smooth
  <2>1. Steady(store, proc, home) /\ Resume(store, Idle) /\ home \in Branches
    BY DEF SteadyInv, ResumeInv, Smooth, Steady
  <2>2. ASSUME InProgress("rebase") PROVE RebaseResumable
    <3>1. store.head = "r_tmp" BY <2>2, TmpRefs DEF InProgress
    <3>2. /\ store.r_tmp \in Commits /\ store.r_newbase \in Branches
          /\ store.r_branch \in Branches
      BY <2>1, <3>1, InPlace
    <3>3. store.r_commit \in Commits BY <2>1, <3>1, IdleResume
    <3>4. store.r_branch # NoName /\ store.r_newbase # NoName BY <3>2, NoNameIsNone
    <3> QED BY <2>2, <3>2, <3>3, <3>4 DEF RebaseResumable, Commits
  <2>3. ASSUME InProgress("histedit") PROVE HisteditResumable
    <3>1. store.head = "h_tmp" BY <2>3, TmpRefs DEF InProgress
    <3>2. store.h_tmp \in Commits /\ store.h_branch \in Branches /\ store.h_base \in Commits
      BY <2>1, <3>1, InPlace
    <3>3. store.h_commit \in Commits BY <2>1, <3>1, IdleResume
    <3>4. store.h_branch # NoName BY <3>2, NoNameIsNone
    <3> QED BY <2>3, <3>2, <3>3, <3>4 DEF HisteditResumable, Commits
  <2> QED BY <2>2, <2>3
<1> QED BY <1>1, AlwaysSteady, AlwaysResumable, PTL

-----------------------------------------------------------------------------
(***************************************************************************)
(* Nothing is left behind: the invariant behind NothingLeftBehind.  While  *)
(* a command replays commits, the index agrees with the files or will do   *)
(* so once the plan is done, except for what has been merged and is about  *)
(* to be committed: by this commit or, after a `fold', by a later one.     *)
(***************************************************************************)
Calm == seen \cap {"kill", "restart", "fold resumed", "fold unused"} = {}

ChangedIn(st) ==
    {f \in Files : In(st.disk.hunks, f) # In(st.index.blob, f)} \cup st.disk.conf

(* The indexes that show no change of the files d.                         *)
Agreeing(d) ==
    {ix \in Index : d.conf = {} /\ \A f \in Files : In(d.hunks, f) = In(ix.blob, f)}

Pending(plan, st) ==
    Avoids(plan, {"disk"}) /\ WillBe(plan, st, "index", Agreeing(st.disk))

(* Merged files that a commit further down the script will take.           *)
Uses(e) == e.cmd \in {"pick", "edit"}
Folding(st, p) ==
    /\ p.op = "histedit" /\ p.at \in {"next", "merge"}
    /\ Avoids(p.plan, {"disk", "index"})
    /\ ChangedIn(st) \subseteq p.merged
    /\ \E j \in DOMAIN p.list : Uses(p.list[j])

(* The last write of an abort is an index of the files installed before.   *)
Restoring(plan, st) ==
    LET n == Len(plan)
        d == [hunks |-> plan[n][2].blob, conf |-> {}]
    IN  IF n = 1 THEN st.disk = d ELSE plan[n - 1] = <<"disk", d>>

AllUsed(list) ==
    \A i \in DOMAIN list : list[i].cmd = "fold" =>
        \E j \in (i + 1)..Len(list) : Uses(list[j])

TidyScript(st, p) ==
    /\ p.op = "histedit" /\ p.at \in {"next", "merge", "commit"} => AllUsed(p.list)
    /\ WillBe(p.plan, st, "script", {s \in Seq(Entry) : AllUsed(s)})

TidyFiles(st, p) ==
    /\ p = Idle /\ st.head \in Branches => st.index \in Agreeing(st.disk)
    /\ p.at = "aborting" => Restoring(p.plan, st)
    /\ p.at = "completing" => Pending(p.plan, st)
    /\ p.at \in Live => st.disk.conf = {}
    /\ p.at \in Live \ {"commit"} => Pending(p.plan, st) \/ Folding(st, p)
    /\ p.at = "commit" => ChangedIn(st) \subseteq p.merged

TidyInv == Calm => TidyScript(store, proc) /\ TidyFiles(store, proc)

(***************************************************************************)
(* Files and index                                                         *)
(***************************************************************************)
LEMMA AgreeIs ==
    ASSUME NEW st, StoreOK(st)
    PROVE  st.index \in Agreeing(st.disk) <=> ChangedIn(st) = {}
<1>1. st.index \in Index BY StoreTypes
<1> QED BY <1>1 DEF Agreeing, ChangedIn

LEMMA PendingNow ==
    ASSUME NEW st
    PROVE  Pending(<<>>, st) <=> st.index \in Agreeing(st.disk)
  BY DEF Pending, Avoids, WillBe

LEMMA AgreeStays ==
    ASSUME NEW st, NEW plan, Avoids(plan, {"disk", "index"}), st.index \in Agreeing(st.disk)
    PROVE  Pending(plan, st)
  BY DEF Pending, Avoids, WillBe

LEMMA ChangedIsNow == Changed = ChangedIn(store)
  BY DEF Changed, ChangedIn

(* The index of a commit of all changes agrees with the files.             *)
LEMMA CommitAgrees ==
    ASSUME StoreOK(store), store.disk.conf = {}, NEW ct, Changed \subseteq ct,
           NEW id \in Commits
    PROVE  IndexAfterCommit(ct, id) \in Agreeing(store.disk)
<1> DEFINE ix == IndexAfterCommit(ct, id)
           old == store.index.blob
           new == store.disk.hunks
<1>1. ix \in Index BY IndexAfterCommitIs
<1>2. ix.blob = (old \ Within(old, ct)) \cup Within(new, ct) BY DEF IndexAfterCommit
<1> HIDE DEF ix
<1>3. ASSUME NEW f \in Files PROVE In(new, f) = In(ix.blob, f)
  <2>1. CASE f \in ct
    <3>1. ASSUME NEW h, h[2] = f PROVE h \in ix.blob <=> h \in new
      BY <1>2, <2>1, <3>1 DEF Within
    <3> QED BY <3>1 DEF In
  <2>2. CASE f \notin ct
    <3>1. ASSUME NEW h, h[2] = f PROVE h \in ix.blob <=> h \in old
      BY <1>2, <2>2, <3>1 DEF Within
    <3>2. In(ix.blob, f) = In(old, f) BY <3>1 DEF In
    <3>3. In(new, f) = In(old, f) BY <2>2 DEF Changed
    <3> QED BY <3>2, <3>3
  <2> QED BY <2>1, <2>2
<1>4. ix \in Agreeing(store.disk) BY <1>1, <1>3 DEF Agreeing
<1> QED BY <1>4 DEF ix

LEMMA CommitPending ==
    ASSUME StoreOK(store), store[store.head] \in Commits, store.disk.conf = {},
           NEW op \in Operations, NEW paths, Changed \subseteq paths, NEW msg \in Messages
    PROVE  /\ Pending(RebaseCommitWrites(op, paths, msg), store)
           /\ Avoids(RebaseCommitWrites(op, paths, msg), {"script"})
<1> DEFINE ct == Changed \cap paths
           id == NewCommit(ct, msg)
           k == CommitRef[op]
           t == TmpRef[op]
           ix == IndexAfterCommit(ct, id)
           V == Agreeing(store.disk)
<1>1. id \in Commits BY NewCommitIs
<1>2. ct = Changed OBVIOUS
<1>3. ix \in V BY <1>1, <1>2, CommitAgrees
<1>4. /\ k \in {"r_commit", "h_commit"} /\ t \in {"r_tmp", "h_tmp"}
  BY TmpRefs DEF Operations
<1>5. RebaseCommitWrites(op, paths, msg) =
        IF ct = {} THEN << <<k, NoId>> >>
        ELSE << <<t, id>>, <<"base", id>>, <<k, NoId>>, <<"index", ix>> >>
  BY DEF RebaseCommitWrites
<1>6. CASE ct = {}
  <2>1. store.index \in V BY <1>2, <1>6, AgreeIs, ChangedIsNow
  <2> DEFINE q == << <<k, NoId>> >>
  <2>2. Avoids(q, {"disk", "index"}) /\ Avoids(q, {"script"}) BY <1>4 DEF Avoids
  <2> HIDE DEF q
  <2>3. Pending(q, store) BY <2>1, <2>2, AgreeStays
  <2> QED BY <1>5, <1>6, <2>2, <2>3 DEF q
<1>7. CASE ct # {}
  <2> HIDE DEF id, k, t, ix, ct, V
  <2> DEFINE q == << <<t, id>>, <<"base", id>>, <<k, NoId>>, <<"index", ix>> >>
  <2>1. /\ DOMAIN q = 1..4 /\ q[1][1] = t /\ q[2][1] = "base" /\ q[3][1] = k
        /\ q[4][1] = "index" /\ q[4][2] = ix
    OBVIOUS
  <2> HIDE DEF q
  <2>2. \A i \in 1..4 : i = 1 \/ i = 2 \/ i = 3 \/ i = 4 OBVIOUS
  <2>3. Avoids(q, {"disk"}) /\ Avoids(q, {"script"}) BY <1>4, <2>1, <2>2 DEF Avoids
  <2>4. WillBe(q, store, "index", V) BY <1>3, <1>4, <2>1, <2>2 DEF WillBe
  <2>5. Pending(q, store) BY <2>3, <2>4 DEF Pending, V
  <2> QED BY <1>5, <1>7, <2>3, <2>5 DEF q
<1> QED BY <1>6, <1>7

(* A merge without conflicts changes the files of the commit only.         *)
LEMMA MergeChanges ==
    ASSUME StoreOK(store), NEW id \in Commits, NEW fs \in SUBSET Files, NEW s2,
           s2.disk = MergeFiles(id, fs, {}), s2.index = store.index
    PROVE  /\ ChangedIn(s2) \subseteq Changed \cup fs
           /\ s2.disk.conf = store.disk.conf
<1> DEFINE old == store.disk.hunks
           new == s2.disk.hunks
           from == Tree(Front(id))
           to == Tree(id)
<1>1. new = (old \ Within(from \ to, fs)) \cup Within(to \ from, fs)
  BY DEF MergeFiles
<1>2. s2.disk.conf = store.disk.conf BY DEF MergeFiles
<1> HIDE DEF new, old, from, to
<1>3. ASSUME NEW f \in Files, f \notin fs PROVE In(new, f) = In(old, f)
  <2>1. ASSUME NEW h, h[2] = f PROVE h \in new <=> h \in old
    BY <1>1, <1>3, <2>1 DEF Within
  <2> QED BY <2>1 DEF In
<1>4. ASSUME NEW f \in ChangedIn(s2), f \notin fs PROVE f \in Changed
  <2>1. CASE f \in s2.disk.conf BY <1>2, <2>1 DEF Changed
  <2>2. CASE f \in Files /\ In(new, f) # In(s2.index.blob, f)
    BY <1>3, <1>4, <2>2 DEF Changed, old
  <2> QED BY <2>1, <2>2 DEF ChangedIn, new
<1> QED BY <1>2, <1>4

LEMMA StoreAvoids ==
    ASSUME NEW op \in Operations, NEW id \in Commits
    PROVE  /\ Avoids(StoreCommitId(op, id), {"disk", "index"})
           /\ Avoids(StoreCommitId(op, id), {"script"})
<1>1. CommitRef[op] \in {"r_commit", "h_commit"} BY TmpRefs DEF Operations
<1>2. StoreCommitId(op, id) = << <<CommitRef[op], id>> >> \/ StoreCommitId(op, id) = <<>>
  BY DEF StoreCommitId
<1> QED BY <1>1, <1>2 DEF Avoids

LEMMA SkipAvoids ==
    ASSUME NEW id \in Commits
    PROVE  /\ Avoids(SkipCommitWrites(id), {"disk", "index"})
           /\ Avoids(SkipCommitWrites(id), {"script"})
<1>1. StoreCommitId("histedit", id) = << <<"h_commit", id>> >>
      \/ StoreCommitId("histedit", id) = <<>>
  BY TmpRefs DEF StoreCommitId
<1>2. /\ SkipCommitWrites(id) = << <<"h_commit", id>>, <<"h_commit", NoId>> >>
         \/ SkipCommitWrites(id) = << <<"h_commit", NoId>> >>
  BY <1>1, OnePlusOne DEF SkipCommitWrites
<1> QED BY <1>2 DEF Avoids

LEMMA LeaveAvoids ==
    ASSUME NEW plan, NEW b, NEW m, Leaves(plan, b, m)
    PROVE  Avoids(plan, {"script"})
  BY DEF Leaves, Avoids

LEMMA AbortRestores ==
    ASSUME StoreOK(store), NEW op \in Operations, NEW b \in Branches, NEW id \in Commits, NEW st
    PROVE  Restoring(AbortWrites(op, b, id), st)
<1> DEFINE q == AbortWrites(op, b, id)
<1>1. /\ Len(q) = 9 /\ q[8] = <<"disk", [hunks |-> CheckedOut(id), conf |-> {}]>>
      /\ q[9][2].blob = CheckedOut(id)
  BY AbortPlan
<1> HIDE DEF q
<1>2. Len(q) # 1 /\ Len(q) - 1 = 8 BY <1>1
<1>3. Restoring(q, st) BY <1>1, <1>2 DEF Restoring
<1> QED BY <1>3 DEF q

(***************************************************************************)
(* Scripts in which every folded commit is used                            *)
(***************************************************************************)
LEMMA RestIsUsed ==
    ASSUME NEW s \in Seq(Entry), AllUsed(s), NEW k \in 1..Len(s), NEW r \in Seq(Entry),
           Len(r) = Len(s) - k, \A j \in 1..(Len(s) - k) : r[j] = s[k + j]
    PROVE  AllUsed(r)
<1> SUFFICES ASSUME NEW i \in DOMAIN r, r[i].cmd = "fold"
             PROVE  \E j \in (i + 1)..Len(r) : Uses(r[j])
  BY DEF AllUsed
<1>1. Len(s) \in Nat /\ k \in Nat /\ i \in 1..(Len(s) - k) /\ i \in Nat OBVIOUS
<1>2. r[i] = s[k + i] /\ k + i \in DOMAIN s BY <1>1
<1>3. PICK m \in DOMAIN s : m = k + i BY <1>2
<1>4. \E j \in (m + 1)..Len(s) : Uses(s[j]) BY <1>2, <1>3 DEF AllUsed
<1>5. PICK j \in (m + 1)..Len(s) : Uses(s[j]) BY <1>4
<1>6. j - k \in (i + 1)..Len(r) /\ j - k \in 1..(Len(s) - k) /\ k + (j - k) = j
  BY <1>1, <1>3, <1>5
<1>7. r[j - k] = s[j] BY <1>6
<1> QED BY <1>5, <1>6, <1>7

LEMMA TailIsUsed ==
    ASSUME NEW s \in Seq(Entry), s # <<>>, AllUsed(s)
    PROVE  AllUsed(Tail(s))
<1> DEFINE r == Tail(s)
<1>1. /\ r \in Seq(Entry) /\ Len(r) = Len(s) - 1
      /\ \A i \in 1..Len(r) : r[i] = s[i + 1]
  BY HeadTailProperties
<1> HIDE DEF r
<1>2. Len(s) \in Nat /\ 1 \in 1..Len(s) OBVIOUS
<1>3. \A j \in 1..(Len(s) - 1) : r[j] = s[1 + j] BY <1>1, <1>2
<1>4. AllUsed(r) BY <1>1, <1>2, <1>3, RestIsUsed
<1> QED BY <1>4 DEF r

(* After an entry that takes nothing there is still one that does.         *)
LEMMA TailUses ==
    ASSUME NEW s \in Seq(Entry), s # <<>>, ~Uses(Head(s)),
           \E j \in DOMAIN s : Uses(s[j])
    PROVE  \E j \in DOMAIN Tail(s) : Uses(Tail(s)[j])
<1>1. /\ Tail(s) \in Seq(Entry) /\ Len(Tail(s)) = Len(s) - 1 /\ Len(s) \in Nat
      /\ \A i \in 1..Len(Tail(s)) : Tail(s)[i] = s[i + 1]
      /\ Head(s) = s[1]
  BY HeadTailProperties
<1>2. PICK j \in DOMAIN s : Uses(s[j]) OBVIOUS
<1>3. j # 1 BY <1>1, <1>2
<1>4. j - 1 \in 1..Len(Tail(s)) /\ (j - 1) + 1 = j BY <1>1, <1>3
<1>5. Tail(s)[j - 1] = s[j] BY <1>1, <1>4
<1>6. j - 1 \in DOMAIN Tail(s) BY <1>1, <1>4
<1> QED BY <1>2, <1>5, <1>6

LEMMA FoldIsUsed ==
    ASSUME NEW s \in Seq(Entry), s # <<>>, AllUsed(s), Head(s).cmd = "fold"
    PROVE  \E j \in DOMAIN Tail(s) : Uses(Tail(s)[j])
<1>1. Head(s) = s[1] /\ 1 \in DOMAIN s /\ Len(s) \in Nat OBVIOUS
<1>2. \E j \in (1 + 1)..Len(s) : Uses(s[j]) BY <1>1 DEF AllUsed
<1>3. \E j \in DOMAIN s : Uses(s[j]) BY <1>1, <1>2
<1>4. ~Uses(Head(s)) BY DEF Uses
<1> QED BY <1>3, <1>4, TailUses

(***************************************************************************)
(* Every step keeps the files tidy                                         *)
(***************************************************************************)
Tidy(st, p) == TidyScript(st, p) /\ TidyFiles(st, p)

LEMMA AvoidsStep ==
    ASSUME NEW st, StoreOK(st), NEW q \in Seq(Writes), q # <<>>, NEW K, K \subseteq Keys,
           Avoids(q, K)
    PROVE  /\ Avoids(Tail(q), K)
           /\ \A k \in K : Written(st, Head(q))[k] = st[k]
<1>1. /\ Head(q) = q[1] /\ 1 \in DOMAIN q /\ q[1] \in Writes
      /\ \A i \in DOMAIN Tail(q) : i + 1 \in DOMAIN q /\ Tail(q)[i] = q[i + 1]
  BY PlanTail
<1>2. Avoids(Tail(q), K) BY <1>1 DEF Avoids
<1>3. q[1][1] \notin K BY <1>1 DEF Avoids
<1>4. \A k \in Keys : Written(st, q[1])[k] = IF k = q[1][1] THEN q[1][2] ELSE st[k]
  BY <1>1, WrittenIs
<1> QED BY <1>1, <1>2, <1>3, <1>4

LEMMA PendingStep ==
    ASSUME NEW st, StoreOK(st), NEW q \in Seq(Writes), q # <<>>, Pending(q, st)
    PROVE  /\ Pending(Tail(q), Written(st, Head(q)))
           /\ Written(st, Head(q)).disk = st.disk
<1> DEFINE s2 == Written(st, Head(q))
           V == Agreeing(st.disk)
<1>1. Avoids(q, {"disk"}) /\ WillBe(q, st, "index", V) BY DEF Pending
<1>2. "disk" \in Keys /\ "index" \in Keys BY DEF Keys
<1>3. Avoids(Tail(q), {"disk"}) /\ s2.disk = st.disk BY <1>1, <1>2, AvoidsStep
<1>4. WillBe(Tail(q), s2, "index", V) BY <1>1, <1>2, WillBeStep
<1> HIDE DEF s2
<1>5. Pending(Tail(q), s2) BY <1>3, <1>4 DEF Pending
<1> QED BY <1>3, <1>5 DEF s2

LEMMA RestoringStep ==
    ASSUME NEW st, StoreOK(st), NEW q \in Seq(Writes), Len(q) > 1, Restoring(q, st)
    PROVE  Restoring(Tail(q), Written(st, Head(q)))
<1> DEFINE s2 == Written(st, Head(q))
           r == Tail(q)
           n == Len(q)
           d == [hunks |-> q[n][2].blob, conf |-> {}]
<1>a. q # <<>> OBVIOUS
<1>b. n \in Nat OBVIOUS
<1>d. \A x \in Nat : x > 1 => x # 1 OBVIOUS
<1>c. n # 1 BY <1>b, <1>d, Zenon
<1>1. q # <<>> /\ n \in Nat /\ n # 1 BY <1>a, <1>b, <1>c
<1>2. /\ r \in Seq(Writes) /\ Len(r) = n - 1 /\ Head(q) = q[1] /\ q[1] \in Writes
      /\ DOMAIN r = 1..(n - 1)
      /\ \A i \in DOMAIN r : r[i] = q[i + 1]
  BY <1>1, PlanTail
<1>3. q[n - 1] = <<"disk", d>> BY <1>1 DEF Restoring
<1> HIDE DEF r, n, d
<1>4. n - 1 \in DOMAIN r /\ (n - 1) + 1 = n BY <1>1, <1>2 DEF n
<1>5. r[n - 1] = q[n] BY <1>2, <1>4
<1>6. d = [hunks |-> r[Len(r)][2].blob, conf |-> {}] BY <1>2, <1>5 DEF d
<1>7. CASE n = 2
  <2>1. q[1] = <<"disk", d>> BY <1>3, <1>7
  <2>2. q[1][1] = "disk" /\ q[1][2] = d BY <2>1
  <2>3. "disk" \in Keys BY DEF Keys
  <2>4. s2.disk = d
    <3>1. \A k \in Keys : Written(st, q[1])[k] = IF k = q[1][1] THEN q[1][2] ELSE st[k]
      BY <1>2, WrittenIs
    <3> QED BY <1>2, <2>2, <2>3, <3>1
  <2>5. Len(r) = 1 BY <1>2, <1>7
  <2> HIDE DEF s2
  <2>6. Restoring(r, s2) BY <1>6, <2>4, <2>5 DEF Restoring
  <2> QED BY <2>6 DEF r, s2
<1>8. CASE n # 2
  <2>1. n - 2 \in DOMAIN r /\ (n - 2) + 1 = n - 1 /\ Len(r) - 1 = n - 2 /\ Len(r) # 1
    BY <1>1, <1>2, <1>8 DEF n
  <2>2. r[n - 2] = q[n - 1] BY <1>2, <2>1
  <2>3. r[Len(r) - 1] = <<"disk", d>> BY <1>3, <2>1, <2>2
  <2> HIDE DEF s2
  <2>4. Restoring(r, s2) BY <1>6, <2>1, <2>3 DEF Restoring
  <2> QED BY <2>4 DEF r, s2
<1> QED BY <1>7, <1>8

LEMMA TidyWrite ==
    ASSUME NEW st, NEW p, NEW hm, Steady(st, p, hm), Tidy(st, p), p.plan # <<>>,
           NEW p2, p2 = IF p.at \in Ending /\ Len(p.plan) = 1 THEN Idle
                        ELSE [p EXCEPT !.plan = Tail(@)]
    PROVE  Tidy(Written(st, Head(p.plan)), p2)
<1> DEFINE q == p.plan
           s2 == Written(st, Head(q))
           U == {s \in Seq(Entry) : AllUsed(s)}
<1>1. p \in Process /\ StoreOK(st) /\ q \in Seq(Writes) BY DEF Steady, Process
<1>2. p # Idle BY IdleIs
<1>3. p.at # "idle" /\ p.op \in Operations BY <1>2 DEF Steady, PhaseOK
<1>4. {"disk", "index", "script"} \subseteq Keys BY DEF Keys
<1>5. WillBe(Tail(q), s2, "script", U)
  <2>1. WillBe(q, st, "script", U) BY DEF Tidy, TidyScript
  <2> QED BY <1>1, <1>4, <2>1, WillBeStep
<1>6. CASE p.at \in Ending /\ Len(q) = 1
  <2>1. p2 = Idle /\ Tail(q) = <<>>
    <3> DEFINE r == Tail(q)
    <3>1. r \in Seq(Writes) /\ Len(r) = 0 BY <1>1, <1>6, PlanTail
    <3> HIDE DEF r
    <3>2. r = <<>> BY <3>1
    <3>3. p2 = Idle BY <1>6
    <3> QED BY <3>2, <3>3 DEF r
  <2>2. s2.index \in Agreeing(s2.disk)
    <3>1. CASE p.at = "completing"
      <4>1. Pending(q, st) BY <3>1 DEF Tidy, TidyFiles
      <4>2. Pending(<<>>, s2) BY <1>1, <2>1, <4>1, PendingStep
      <4> QED BY <4>2, PendingNow
    <3>2. CASE p.at = "aborting"
      <4>1. Restoring(q, st) BY <3>2 DEF Tidy, TidyFiles
      <4>2. q[1][1] = "index" BY <1>6 DEF Steady, EndingOK
      <4>3. q[1] \in Writes /\ Head(q) = q[1] BY <1>1, PlanTail
      <4>4. \A k \in Keys : Written(st, q[1])[k] = IF k = q[1][1] THEN q[1][2] ELSE st[k]
        BY <1>1, <4>3, WrittenIs
      <4>5. s2.index = q[1][2] /\ s2.disk = st.disk BY <1>4, <4>2, <4>3, <4>4
      <4>6. s2.index \in Index BY <4>2, <4>3, <4>5, WriteFits DEF Fits
      <4>7. st.disk = [hunks |-> s2.index.blob, conf |-> {}]
        BY <1>6, <4>1, <4>5 DEF Restoring
      <4> HIDE DEF s2
      <4> QED BY <4>5, <4>6, <4>7 DEF Agreeing
    <3> QED BY <1>6, <3>1, <3>2 DEF Ending
  <2> HIDE DEF s2
  <2>3. TidyScript(s2, Idle) BY <1>5, <2>1, IdleIs DEF TidyScript
  <2>4. TidyFiles(s2, Idle) BY <2>2, IdleIs DEF TidyFiles, Live
  <2> QED BY <2>1, <2>3, <2>4 DEF Tidy, s2
<1>7. CASE ~(p.at \in Ending /\ Len(q) = 1)
  <2>1. p2 = [p EXCEPT !.plan = Tail(q)] BY <1>7
  <2>2. /\ p2.op = p.op /\ p2.at = p.at /\ p2.merged = p.merged /\ p2.list = p.list
        /\ p2.plan = Tail(q)
    BY <1>1, <2>1 DEF Process
  <2>3. p2 # Idle BY <1>3, <2>2, IdleIs
  <2>4. TidyScript(s2, p2) BY <1>5, <2>2 DEF Tidy, TidyScript
  <2>5. ASSUME p.at = "aborting" PROVE Restoring(p2.plan, s2)
    <3>a. Len(q) # 1 BY <1>7, <2>5 DEF Ending
    <3>b. Len(q) \in Nat /\ 1 \in DOMAIN q /\ DOMAIN q = 1..Len(q) BY <1>1, PlanTail
    <3>c. \A x \in Nat : x # 1 /\ 1 \in 1..x => x > 1 OBVIOUS
    <3>d. 1 \in 1..Len(q) BY <3>b
    <3>1. Len(q) > 1 BY <3>a, <3>b, <3>c, <3>d, Zenon
    <3>2. Restoring(q, st) BY <2>5 DEF Tidy, TidyFiles
    <3> QED BY <1>1, <2>2, <3>1, <3>2, RestoringStep
  <2>6. ASSUME Pending(q, st) PROVE Pending(p2.plan, s2) /\ s2.disk = st.disk
    BY <1>1, <2>2, <2>6, PendingStep
  <2>7. ASSUME Folding(st, p) PROVE Folding(s2, p2) /\ s2.disk = st.disk
    <3>1. Avoids(q, {"disk", "index"}) BY <2>7 DEF Folding
    <3>2. /\ Avoids(Tail(q), {"disk", "index"})
          /\ \A k \in {"disk", "index"} : s2[k] = st[k]
      BY <1>1, <1>4, <3>1, AvoidsStep
    <3>3. s2.disk = st.disk /\ s2.index = st.index BY <3>2
    <3> HIDE DEF s2
    <3>4. ChangedIn(s2) = ChangedIn(st) BY <3>3 DEF ChangedIn
    <3> QED BY <2>2, <2>7, <3>2, <3>3, <3>4 DEF Folding
  <2>8. p.at # "commit" BY DEF Steady, PhaseOK
  <2>9. ASSUME p.at \in Live
        PROVE  s2.disk.conf = {} /\ (Pending(p2.plan, s2) \/ Folding(s2, p2))
    <3>1. st.disk.conf = {} /\ (Pending(q, st) \/ Folding(st, p))
      BY <2>8, <2>9 DEF Tidy, TidyFiles
    <3> QED BY <2>6, <2>7, <3>1
  <2>10. p.at = "completing" => Pending(p2.plan, s2) BY <2>6 DEF Tidy, TidyFiles
  <2> HIDE DEF s2
  <2>11. TidyFiles(s2, p2) BY <2>2, <2>3, <2>5, <2>8, <2>9, <2>10 DEF TidyFiles
  <2> QED BY <2>4, <2>11 DEF Tidy, s2
<1> QED BY <1>6, <1>7

Used == {s \in Seq(Entry) : AllUsed(s)}

LEMMA ScriptNow ==
    ASSUME NEW st, NEW p, Tidy(st, p), p.plan = <<>>
    PROVE  st.script \in Used
<1>1. WillBe(<<>>, st, "script", Used) BY DEF Tidy, TidyScript, Used
<1> QED BY <1>1 DEF WillBe

(* A command that has stopped in the middle of an operation.               *)
LEMMA TidyStopped ==
    ASSUME NEW st, st.head \notin Branches, st.script \in Used
    PROVE  Tidy(st, Idle)
<1>1. TidyFiles(st, Idle) BY IdleIs DEF TidyFiles, Live
<1>2. WillBe(<<>>, st, "script", Used) BY DEF WillBe
<1>3. TidyScript(st, Idle) BY <1>2, IdleIs DEF TidyScript, Used
<1> QED BY <1>1, <1>3 DEF Tidy

(* No command runs and no operation is in progress.                        *)
LEMMA TidyAtRest ==
    ASSUME NEW st, st.index \in Agreeing(st.disk), st.script \in Used
    PROVE  Tidy(st, Idle)
<1>1. TidyFiles(st, Idle) BY IdleIs DEF TidyFiles, Live
<1>2. WillBe(<<>>, st, "script", Used) BY DEF WillBe
<1>3. TidyScript(st, Idle) BY <1>2, IdleIs DEF TidyScript, Used
<1> QED BY <1>1, <1>3 DEF Tidy

LEMMA TidyGoesOn ==
    ASSUME NEW st, st.script \in Used, NEW p, Avoids(p.plan, {"script"}),
           p.at \in Live \ {"commit"},
           p.op = "histedit" /\ p.at \in {"next", "merge"} => AllUsed(p.list),
           st.disk.conf = {}, Pending(p.plan, st) \/ Folding(st, p)
    PROVE  Tidy(st, p)
<1>1. p # Idle BY IdleIs DEF Live
<1>2. TidyFiles(st, p) BY <1>1 DEF TidyFiles, Live
<1>3. WillBe(p.plan, st, "script", Used) BY AvoidedStays DEF WillBe, Avoids
<1>4. TidyScript(st, p) BY <1>3 DEF TidyScript, Used
<1> QED BY <1>2, <1>4 DEF Tidy

LEMMA TidyToCommit ==
    ASSUME NEW st, st.script \in Used, NEW p, p.plan = <<>>, p.at = "commit",
           p.op = "histedit" => AllUsed(p.list),
           st.disk.conf = {}, ChangedIn(st) \subseteq p.merged
    PROVE  Tidy(st, p)
<1>1. p # Idle BY IdleIs
<1>2. TidyFiles(st, p) BY <1>1 DEF TidyFiles, Live
<1>3. WillBe(<<>>, st, "script", Used) BY DEF WillBe
<1>4. TidyScript(st, p) BY <1>3 DEF TidyScript, Used
<1> QED BY <1>2, <1>4 DEF Tidy

LEMMA TidyEnds ==
    ASSUME NEW st, st.script \in Used, NEW p, p.at \in Ending,
           NEW b, NEW m, Leaves(p.plan, b, m),
           p.at = "completing" => Pending(p.plan, st),
           p.at = "aborting" => Restoring(p.plan, st)
    PROVE  Tidy(st, p)
<1>1. p # Idle /\ p.at \notin Live BY IdleIs DEF Ending, Live
<1>2. TidyFiles(st, p) BY <1>1 DEF TidyFiles, Live
<1>3. Avoids(p.plan, {"script"}) BY LeaveAvoids
<1>4. WillBe(p.plan, st, "script", Used) BY <1>3 DEF WillBe, Avoids
<1>5. TidyScript(st, p) BY <1>1, <1>4 DEF TidyScript, Used, Live
<1> QED BY <1>2, <1>5 DEF Tidy

(* Before the next commit is merged.                                       *)
LEMMA TidyNow ==
    ASSUME NEW st, StoreOK(st), NEW p, Tidy(st, p), p.plan = <<>>,
           p.at \in Live \ {"commit"}
    PROVE  /\ st.disk.conf = {}
           /\ \/ ChangedIn(st) = {} /\ st.index \in Agreeing(st.disk)
              \/ Folding(st, p)
<1>1. st.disk.conf = {} /\ (Pending(<<>>, st) \/ Folding(st, p))
  BY DEF Tidy, TidyFiles
<1>2. Pending(<<>>, st) => st.index \in Agreeing(st.disk) BY PendingNow
<1> QED BY <1>1, <1>2, AgreeIs

LEMMA WriteTidy ==
    ASSUME Steady(store, proc, home), Tidy(store, proc), Write
    PROVE  Tidy(store', proc')
<1>1. /\ proc.plan # <<>>
      /\ store' = Written(store, Head(proc.plan))
      /\ proc' = IF proc.at \in Ending /\ Len(proc.plan) = 1
                 THEN Idle ELSE [proc EXCEPT !.plan = Tail(@)]
  BY DEF Write, Do, Written, Ending, history
<1>2. ASSUME NEW p2, p2 = IF proc.at \in Ending /\ Len(proc.plan) = 1
                          THEN Idle ELSE [proc EXCEPT !.plan = Tail(@)]
      PROVE  Tidy(Written(store, Head(proc.plan)), p2)
  BY <1>1, <1>2, TidyWrite
<1>3. Tidy(Written(store, Head(proc.plan)), proc') BY <1>1, <1>2
<1> QED BY <1>1, <1>3

(* A live command is not on a branch.                                      *)
LEMMA TmpIsNoBranch ==
    ASSUME NEW op \in Operations, NEW st, st.head = TmpRef[op]
    PROVE  st.head \notin Branches
  BY TmpRefs DEF Operations, Branches

LEMMA CommitTidy ==
    ASSUME Steady(store, proc, home), Tidy(store, proc), Commit
    PROVE  Tidy(store', proc')
<1> DEFINE pl == RebaseCommitWrites(proc.op, proc.merged, Last(Head(proc.list).id).msg)
           p2 == [proc EXCEPT !.plan = pl, !.at = "next", !.list = Tail(@), !.merged = {}]
<1>1. /\ proc.at = "commit" /\ proc.plan = <<>> /\ store' = store
      /\ proc' = Idle \/ proc' = p2
  BY DEF Commit, At, history
<1>2. proc \in Process /\ StoreOK(store) /\ proc.list # <<>>
  BY <1>1 DEF Steady, PhaseOK
<1>3. proc.op \in Operations /\ store.head = TmpRef[proc.op]
  BY <1>1, LiveIsInPlace DEF Live
<1>4. Last(Head(proc.list).id).msg \in Messages /\ proc.list \in Seq(Entry)
  BY <1>2, FirstEntry DEF Process
<1>5. store.script \in Used /\ store[store.head] \in Commits BY <1>1, ScriptNow, HeadExists
<1>6. store.disk.conf = {} /\ ChangedIn(store) \subseteq proc.merged
      /\ (proc.op = "histedit" => AllUsed(proc.list))
  BY <1>1 DEF Tidy, TidyFiles, TidyScript, Live
<1>7. Changed \subseteq proc.merged BY <1>6, ChangedIsNow
<1>8. Pending(pl, store) /\ Avoids(pl, {"script"})
  BY <1>2, <1>3, <1>4, <1>5, <1>6, <1>7, CommitPending
<1> HIDE DEF pl
<1>9. p2.plan = pl /\ p2.at = "next" /\ p2.op = proc.op /\ p2.list = Tail(proc.list)
  BY <1>2 DEF Process
<1>10. proc.op = "histedit" => AllUsed(p2.list) BY <1>2, <1>4, <1>6, <1>9, TailIsUsed
<1>11. Tidy(store, Idle) BY <1>3, <1>5, TidyStopped, TmpIsNoBranch
<1> HIDE DEF p2
<1>12. Tidy(store, p2) BY <1>5, <1>6, <1>8, <1>9, <1>10, TidyGoesOn DEF Live
<1> QED BY <1>1, <1>11, <1>12

LEMMA CompleteTidy ==
    ASSUME Steady(store, proc, home), Tidy(store, proc), Complete
    PROVE  Tidy(store', proc')
<1> DEFINE pl == CompleteWrites(proc.op, proc.br)
           p2 == [proc EXCEPT !.plan = pl, !.at = "completing"]
<1>1. /\ proc.at = "next" /\ proc.plan = <<>> /\ proc.list = <<>> /\ store' = store
      /\ proc' = p2
  BY DEF Complete, At, history
<1>2. proc \in Process /\ StoreOK(store) BY DEF Steady
<1>3. proc.op \in Operations /\ store.head = TmpRef[proc.op] /\ proc.br \in Branches
  BY <1>1, LiveIsInPlace DEF Live
<1>4. store[TmpRef[proc.op]] \in Commits BY <1>3, HeadExists
<1>5. /\ Leaves(pl, proc.br, 2)
      /\ \A i \in DOMAIN pl : /\ pl[i][1] # "disk"
                              /\ pl[i][1] = "index" => pl[i][2].blob = store.index.blob
  BY <1>2, <1>3, <1>4, CompletePlan
<1> HIDE DEF pl
<1>6. pl \in Seq(Writes) BY <1>5 DEF Leaves
<1>7. p2.plan = pl /\ p2.at = "completing" BY <1>2 DEF Process
<1>8. ~Folding(store, proc) BY <1>1 DEF Folding
<1>9. store.index \in Agreeing(store.disk) BY <1>1, <1>2, <1>8, TidyNow DEF Live
<1>10. ASSUME NEW i \in DOMAIN pl, pl[i][1] = "index" PROVE pl[i][2] \in Agreeing(store.disk)
  <2>1. pl[i] \in Writes BY <1>6
  <2>2. pl[i][2] \in Index BY <1>10, <2>1, WriteFits DEF Fits
  <2>3. pl[i][2].blob = store.index.blob BY <1>5, <1>10
  <2> QED BY <1>9, <2>2, <2>3 DEF Agreeing
<1>11. Pending(pl, store) BY <1>5, <1>9, <1>10 DEF Pending, Avoids, WillBe
<1>12. store.script \in Used BY <1>1, ScriptNow
<1> HIDE DEF p2
<1>13. Tidy(store, p2) BY <1>5, <1>7, <1>11, <1>12, TidyEnds DEF Ending
<1> QED BY <1>1, <1>13

(* While a rebase waits for its next step, there are no changes.           *)
LEMMA RebaseIsClean ==
    ASSUME Steady(store, proc, home), Tidy(store, proc), proc.op = "rebase",
           proc.plan = <<>>, proc.at \in Live \ {"commit"}
    PROVE  /\ store.disk.conf = {} /\ ChangedIn(store) = {}
           /\ store.index \in Agreeing(store.disk)
<1>1. StoreOK(store) BY DEF Steady
<1>2. ~Folding(store, proc) BY DEF Folding
<1> QED BY <1>1, <1>2, TidyNow

LEMMA ResolveBranchTidy ==
    ASSUME Steady(store, proc, home), Tidy(store, proc), ResolveBranch
    PROVE  Tidy(store', proc')
<1> DEFINE p2 == [proc EXCEPT !.at = "collect", !.tip = store[proc.br]]
<1>1. /\ proc.at = "resolve" /\ proc.plan = <<>> /\ store' = store /\ proc' = p2
  BY DEF ResolveBranch, At, history
<1>2. proc \in Process /\ proc.op = "rebase" BY <1>1 DEF Steady, PhaseOK
<1>3. store.disk.conf = {} /\ store.index \in Agreeing(store.disk)
  BY <1>1, <1>2, RebaseIsClean DEF Live
<1>4. p2.at = "collect" /\ p2.op = "rebase" /\ p2.plan = <<>> BY <1>1, <1>2 DEF Process
<1> HIDE DEF p2
<1>5. Avoids(<<>>, {"script"}) /\ Pending(<<>>, store) BY <1>3, PendingNow DEF Avoids
<1>6. store.script \in Used BY <1>1, ScriptNow
<1>7. Tidy(store, p2) BY <1>3, <1>4, <1>5, <1>6, TidyGoesOn DEF Live
<1> QED BY <1>1, <1>7

LEMMA CollectTidy ==
    ASSUME Steady(store, proc, home), Tidy(store, proc), Collect
    PROVE  Tidy(store', proc')
<1> DEFINE pl == AbortWrites("rebase", store.r_newbase, store[store.r_newbase])
           ls == CommitsAfter(proc.from, proc.tip)
           p1 == [proc EXCEPT !.at = "aborting", !.plan = pl]
           p2 == [proc EXCEPT !.at = "next", !.list = ls]
<1>1. /\ proc.at = "collect" /\ proc.plan = <<>> /\ store' = store
      /\ proc' = p1 \/ proc' = p2 \/ proc' = Idle
  BY DEF Collect, At, history
<1>2. proc \in Process /\ StoreOK(store) /\ proc.op = "rebase" /\ home \in Branches
  BY <1>1 DEF Steady, PhaseOK
<1>3. proc.op \in Operations /\ store.head = TmpRef[proc.op] /\ proc.br \in Branches
  BY <1>1, LiveIsInPlace DEF Live
<1>4. store.disk.conf = {} /\ store.index \in Agreeing(store.disk)
  BY <1>1, <1>2, RebaseIsClean DEF Live
<1>5. store.script \in Used BY <1>1, ScriptNow
<1>6. Tidy(store, p1)
  <2>1. store.r_newbase = home BY <1>2, <1>3, TmpRefs, InPlace
  <2>2. store[store.r_newbase] \in Commits BY <1>2, <2>1, StoreTypes DEF Branches
  <2>3. Leaves(pl, home, 1) BY <1>2, <1>3, <2>1, <2>2, AbortPlan
  <2>4. Restoring(pl, store) BY <1>2, <1>3, <2>1, <2>2, AbortRestores
  <2> HIDE DEF pl
  <2>5. p1.at = "aborting" /\ p1.plan = pl BY <1>2 DEF Process
  <2> HIDE DEF p1
  <2> QED BY <1>5, <2>3, <2>4, <2>5, TidyEnds DEF Ending
<1>7. Tidy(store, p2)
  <2> HIDE DEF ls
  <2>1. p2.at = "next" /\ p2.op = "rebase" /\ p2.plan = <<>> BY <1>1, <1>2 DEF Process
  <2>2. Avoids(<<>>, {"script"}) /\ Pending(<<>>, store) BY <1>4, PendingNow DEF Avoids
  <2> HIDE DEF p2
  <2> QED BY <1>4, <1>5, <2>1, <2>2, TidyGoesOn DEF Live
<1>8. Tidy(store, Idle) BY <1>3, <1>5, TidyStopped, TmpIsNoBranch
<1> QED BY <1>1, <1>6, <1>7, <1>8

LEMMA RebaseNextTidy ==
    ASSUME Steady(store, proc, home), Tidy(store, proc), RebaseNext
    PROVE  Tidy(store', proc')
<1> DEFINE id == Head(proc.list).id
           pl == StoreCommitId("rebase", id)
           p2 == [proc EXCEPT !.plan = pl, !.at = "merge"]
<1>1. /\ proc.at = "next" /\ proc.plan = <<>> /\ store' = store
      /\ proc.op = "rebase" /\ proc.list # <<>>
      /\ proc' = p2 \/ proc' = Idle
  BY DEF RebaseNext, At, history
<1>2. proc \in Process BY <1>1 DEF Steady
<1>3. proc.op \in Operations /\ store.head = TmpRef[proc.op]
  BY <1>1, LiveIsInPlace DEF Live
<1>4. id \in Commits BY <1>1, FirstEntry
<1>5. store.disk.conf = {} /\ store.index \in Agreeing(store.disk)
  BY <1>1, <1>2, RebaseIsClean DEF Live
<1>6. store.script \in Used BY <1>1, ScriptNow
<1>7. Avoids(pl, {"script"}) /\ Avoids(pl, {"disk", "index"})
  BY <1>4, StoreAvoids DEF Operations
<1> HIDE DEF pl
<1>8. Pending(pl, store) BY <1>5, <1>7, AgreeStays
<1>9. p2.at = "merge" /\ p2.op = "rebase" /\ p2.plan = pl BY <1>1, <1>2 DEF Process
<1> HIDE DEF p2
<1>10. Tidy(store, p2) BY <1>5, <1>6, <1>7, <1>8, <1>9, TidyGoesOn DEF Live
<1>11. Tidy(store, Idle) BY <1>3, <1>6, TidyStopped, TmpIsNoBranch
<1> QED BY <1>1, <1>10, <1>11

LEMMA DiskKeepsRest ==
    ASSUME NEW st, StoreOK(st), NEW d \in Disk
    PROVE  LET s2 == [st EXCEPT !.disk = d]
           IN  /\ StoreOK(s2) /\ s2.disk = d /\ s2.index = st.index
               /\ s2.script = st.script /\ s2.head = st.head
<1> DEFINE w == <<"disk", d>>
<1>1. w \in Writes /\ w[1] = "disk" /\ w[2] = d BY DEF Writes
<1>2. [st EXCEPT !.disk = d] = Written(st, w) BY DEF Written
<1> HIDE DEF w
<1>3. /\ StoreOK(Written(st, w))
      /\ \A k \in Keys : Written(st, w)[k] = IF k = w[1] THEN w[2] ELSE st[k]
  BY <1>1, WrittenIs
<1>4. {"disk", "index", "script", "head"} \subseteq Keys BY DEF Keys
<1> QED BY <1>1, <1>2, <1>3, <1>4

LEMMA RebaseMergeTidy ==
    ASSUME Steady(store, proc, home), Tidy(store, proc), RebaseMerge
    PROVE  Tidy(store', proc')
<1> DEFINE id == Head(proc.list).id
           fs == TouchedBy(id)
           p2 == [proc EXCEPT !.at = "commit", !.merged = fs]
<1>1. PICK c \in Conflicts(id, fs) :
         /\ proc.at = "merge" /\ proc.plan = <<>>
         /\ proc.op = "rebase"
         /\ store' = [store EXCEPT !.disk = MergeFiles(id, fs, c)]
         /\ proc' = IF c # {} THEN Idle ELSE p2
  BY DEF RebaseMerge, At, history
<1>2. proc \in Process /\ StoreOK(store) /\ proc.list # <<>>
  BY <1>1 DEF Steady, PhaseOK
<1>3. proc.op \in Operations /\ store.head = TmpRef[proc.op]
  BY <1>1, LiveIsInPlace DEF Live
<1>4. id \in Commits /\ fs \in SUBSET Files BY <1>2, FirstEntry DEF TouchedBy
<1>5. store.disk.conf = {} /\ ChangedIn(store) = {}
  BY <1>1, <1>2, RebaseIsClean DEF Live
<1>6. store.script \in Used BY <1>1, ScriptNow
<1> HIDE DEF id, fs
<1>7. c \in SUBSET Files BY <1>4 DEF Conflicts
<1> DEFINE d == MergeFiles(id, fs, c)
           s2 == [store EXCEPT !.disk = d]
<1>8. d \in Disk BY <1>2, <1>4, <1>7, MergeIsDisk
<1>9. store' = s2 BY <1>1
<1>10. /\ s2.disk = d /\ s2.index = store.index /\ s2.script = store.script
       /\ s2.head = store.head
  <2> HIDE DEF d
  <2> QED BY <1>2, <1>8, DiskKeepsRest
<1> HIDE DEF s2
<1>11. CASE c # {}
  <2>1. Tidy(s2, Idle) BY <1>3, <1>6, <1>10, TidyStopped, TmpIsNoBranch
  <2> QED BY <1>1, <1>9, <1>11, <2>1
<1>12. CASE c = {}
  <2>1. ChangedIn(s2) \subseteq Changed \cup fs /\ s2.disk.conf = store.disk.conf
    BY <1>2, <1>4, <1>10, <1>12, MergeChanges
  <2>2. ChangedIn(s2) \subseteq fs /\ s2.disk.conf = {} BY <1>5, <2>1, ChangedIsNow
  <2>3. p2.at = "commit" /\ p2.plan = <<>> /\ p2.op = "rebase" /\ p2.merged = fs
    BY <1>1, <1>2 DEF Process
  <2> HIDE DEF p2
  <2>4. Tidy(s2, p2) BY <1>6, <1>10, <2>2, <2>3, TidyToCommit
  <2> QED BY <1>1, <1>9, <1>12, <2>4
<1> QED BY <1>11, <1>12

LEMMA RebaseAbortTidy ==
    ASSUME Steady(store, proc, home), Tidy(store, proc), RebaseAbort
    PROVE  Tidy(store', proc')
<1> DEFINE pl == AbortWrites("rebase", store.r_newbase, store[store.r_newbase])
           p2 == [Idle EXCEPT !.op = "rebase", !.at = "aborting", !.plan = pl]
<1>1. proc = Idle /\ store.head = "r_tmp" /\ store' = store /\ proc' = p2
  BY TmpRefs DEF RebaseAbort, RebaseResumable, InProgress, history
<1>2. StoreOK(store) /\ home \in Branches BY DEF Steady
<1>3. store.r_newbase = home BY <1>1, InPlace
<1>4. store[store.r_newbase] \in Commits BY <1>2, <1>3, StoreTypes DEF Branches
<1>5. Leaves(pl, home, 1) BY <1>2, <1>3, <1>4, AbortPlan DEF Operations
<1>6. Restoring(pl, store) BY <1>2, <1>3, <1>4, AbortRestores DEF Operations
<1> HIDE DEF pl
<1>7. p2.at = "aborting" /\ p2.plan = pl BY IdleIs DEF Process
<1>8. store.script \in Used BY <1>1, IdleIs, ScriptNow
<1> HIDE DEF p2
<1>9. Tidy(store, p2) BY <1>5, <1>6, <1>7, <1>8, TidyEnds DEF Ending
<1> QED BY <1>1, <1>9

LEMMA RebaseContinueTidy ==
    ASSUME Steady(store, proc, home), Tidy(store, proc), RebaseContinue
    PROVE  Tidy(store', proc')
<1> DEFINE pl == RebaseCommitWrites("rebase", Files, Last(store.r_commit).msg)
           p2 == [Idle EXCEPT !.op = "rebase", !.at = "resolve", !.br = store.r_branch,
                              !.from = store.r_commit, !.plan = pl]
<1>1. /\ proc = Idle /\ store.head = "r_tmp" /\ store' = store
      /\ store.r_commit # NoId /\ store.disk.conf = {} /\ proc' = p2
  BY TmpRefs DEF RebaseContinue, RebaseResumable, InProgress, history
<1>2. StoreOK(store) BY DEF Steady
<1>3. store.r_commit \in Commits BY <1>1, <1>2, StoreTypes DEF Ids
<1>4. Last(store.r_commit).msg \in Messages BY <1>3, TreeTypes
<1>5. store[store.head] \in Commits BY HeadExists
<1>6. Changed \subseteq Files BY <1>1 DEF Changed
<1>7. Pending(pl, store) /\ Avoids(pl, {"script"})
  BY <1>1, <1>2, <1>4, <1>5, <1>6, CommitPending DEF Operations
<1> HIDE DEF pl
<1>8. p2.at = "resolve" /\ p2.op = "rebase" /\ p2.plan = pl BY IdleIs DEF Process
<1>9. store.script \in Used BY <1>1, IdleIs, ScriptNow
<1> HIDE DEF p2
<1>10. Tidy(store, p2) BY <1>1, <1>7, <1>8, <1>9, TidyGoesOn DEF Live
<1> QED BY <1>1, <1>10

(* An operation starts in a work tree without changes.                     *)
LEMMA StartsClean ==
    ASSUME StoreOK(store), CheckRebaseOk, store.script \in Used, NEW p,
           p.at \in {"collect", "script"}, Avoids(p.plan, {"disk", "index"}),
           Avoids(p.plan, {"script"})
    PROVE  Tidy(store, p)
<1>1. ChangedIn(store) = {} BY ChangedIsNow DEF CheckRebaseOk
<1>2. store.disk.conf = {} BY <1>1 DEF ChangedIn
<1>3. store.index \in Agreeing(store.disk) BY <1>1, AgreeIs
<1>4. Pending(p.plan, store) BY <1>3, AgreeStays
<1> QED BY <1>2, <1>4, TidyGoesOn DEF Live

LEMMA RebaseStartTidy ==
    ASSUME Steady(store, proc, home), Tidy(store, proc), NEW b \in Branches, RebaseStart(b)
    PROVE  Tidy(store', proc')
<1> DEFINE fr == LongestCommonPrefix({store.base, store[b]})
           pl == << <<"r_newbase", store.head>>, <<"r_branch", b>>,
                    <<"r_tmp", store.base>>, <<"head", "r_tmp">> >>
           p2 == [Idle EXCEPT !.op = "rebase", !.at = "collect", !.br = b,
                              !.from = fr, !.tip = store[b], !.plan = pl]
<1>1. proc = Idle /\ store' = store /\ CheckRebaseOk /\ proc' = p2 BY DEF RebaseStart
<1>2. StoreOK(store) BY DEF Steady
<1>3. Avoids(pl, {"disk", "index"}) /\ Avoids(pl, {"script"}) BY DEF Avoids
<1> HIDE DEF fr, pl
<1>4. p2.at = "collect" /\ p2.plan = pl BY IdleIs DEF Process
<1>5. store.script \in Used BY <1>1, IdleIs, ScriptNow
<1> HIDE DEF p2
<1>6. Tidy(store, p2) BY <1>1, <1>2, <1>3, <1>4, <1>5, StartsClean
<1> QED BY <1>1, <1>6

LEMMA HisteditStartTidy ==
    ASSUME Steady(store, proc, home), Tidy(store, proc), HisteditStart
    PROVE  Tidy(store', proc')
<1> DEFINE ls == CommitsAfter(store.base, store[store.head])
           pl == << <<"h_branch", store.head>>, <<"h_base", store.base>>,
                    <<"h_tmp", store.base>>, <<"head", "h_tmp">> >>
           p2 == [Idle EXCEPT !.op = "histedit", !.at = "script", !.br = store.head,
                              !.list = ls, !.plan = pl]
<1>1. proc = Idle /\ store' = store /\ CheckRebaseOk /\ proc' = p2 BY DEF HisteditStart
<1>2. StoreOK(store) BY DEF Steady
<1>3. Avoids(pl, {"disk", "index"}) /\ Avoids(pl, {"script"}) BY DEF Avoids
<1> HIDE DEF ls, pl
<1>4. p2.at = "script" /\ p2.plan = pl BY IdleIs DEF Process
<1>5. store.script \in Used BY <1>1, IdleIs, ScriptNow
<1> HIDE DEF p2
<1>6. Tidy(store, p2) BY <1>1, <1>2, <1>3, <1>4, <1>5, StartsClean
<1> QED BY <1>1, <1>6

(* A script without unused folds, as the user may write it.                *)
LEMMA UsedScript ==
    ASSUME NEW ls \in Seq(Entry), NEW s \in Scripts(ls), ~FoldUnused(s)
    PROVE  s \in Used
<1>1. s \in Seq(Entry) /\ DOMAIN s = DOMAIN ls BY ScriptsAre
<1>2. \A j \in DOMAIN s : s[j].cmd \in {"pick", "edit", "fold", "drop"}
  BY <1>1, ReplayConstants DEF Scripts
<1>3. ASSUME NEW i \in DOMAIN s, s[i].cmd = "fold"
      PROVE  \E j \in (i + 1)..Len(s) : Uses(s[j])
  <2>1. PICK j \in (i + 1)..Len(s) : s[j].cmd \notin {"fold", "drop"}
    BY <1>3 DEF FoldUnused
  <2>2. j \in DOMAIN s BY <1>1
  <2>3. Uses(s[j]) BY <1>2, <2>1, <2>2 DEF Uses
  <2> QED BY <2>1, <2>3
<1>4. AllUsed(s) BY <1>3 DEF AllUsed
<1> QED BY <1>1, <1>4 DEF Used

LEMMA HisteditScriptTidy ==
    ASSUME Steady(store, proc, home), Tidy(store, proc), HisteditScript, Calm'
    PROVE  Tidy(store', proc')
<1> DEFINE pl == AbortWrites("histedit", store.h_branch, store.h_base)
           p1 == [proc EXCEPT !.plan = pl, !.at = "aborting"]
           q(s) == << <<"script", s>> >>
           p2(s) == [proc EXCEPT !.plan = q(s), !.at = "next", !.list = s]
<1>1. /\ proc.at = "script" /\ proc.plan = <<>> /\ store' = store
      /\ proc' = p1 \/ \E s \in Scripts(proc.list) : ~FoldUnused(s) /\ proc' = p2(s)
  BY DEF HisteditScript, At, Calm
<1>2. /\ proc \in Process /\ StoreOK(store) /\ proc.op = "histedit"
      /\ home \in Branches
  BY <1>1 DEF Steady, PhaseOK
<1>3. proc.op \in Operations /\ store.head = TmpRef[proc.op]
  BY <1>1, LiveIsInPlace DEF Live
<1>4. store.script \in Used BY <1>1, ScriptNow
<1>5. ~Folding(store, proc) BY <1>1 DEF Folding
<1>6. store.disk.conf = {} /\ store.index \in Agreeing(store.disk)
  BY <1>1, <1>2, <1>5, TidyNow DEF Live
<1>7. CASE proc' = p1
  <2>1. store.h_branch = home /\ store.h_base \in Commits
    BY <1>2, <1>3, TmpRefs, InPlace
  <2>2. Leaves(pl, home, 1) BY <1>2, <1>3, <2>1, AbortPlan
  <2>3. Restoring(pl, store) BY <1>2, <1>3, <2>1, AbortRestores
  <2> HIDE DEF pl
  <2>4. p1.at = "aborting" /\ p1.plan = pl BY <1>2 DEF Process
  <2> HIDE DEF p1
  <2>5. Tidy(store, p1) BY <1>4, <2>2, <2>3, <2>4, TidyEnds DEF Ending
  <2> QED BY <1>1, <1>7, <2>5
<1>8. ASSUME NEW s \in Scripts(proc.list), ~FoldUnused(s), proc' = p2(s)
      PROVE  Tidy(store', proc')
  <2>1. s \in Used BY <1>2, <1>8, UsedScript DEF Process
  <2>2. WillBe(q(s), store, "script", Used) BY <2>1 DEF WillBe
  <2>3. Avoids(q(s), {"disk", "index"}) BY DEF Avoids
  <2> DEFINE p3 == p2(s)
             q3 == q(s)
  <2> HIDE DEF q
  <2>4. p3.plan = q3 /\ p3.at = "next" /\ p3.list = s BY <1>2 DEF Process
  <2> HIDE DEF p3
  <2>5. Pending(q3, store) BY <1>6, <2>3, AgreeStays
  <2>6. TidyScript(store, p3) BY <2>1, <2>2, <2>4 DEF TidyScript, Used
  <2>7. p3 # Idle BY <2>4, IdleIs
  <2>8. TidyFiles(store, p3) BY <1>6, <2>4, <2>5, <2>7 DEF TidyFiles, Live
  <2> QED BY <1>1, <1>8, <2>6, <2>8 DEF Tidy, p3
<1> QED BY <1>1, <1>7, <1>8

LEMMA HisteditAbortTidy ==
    ASSUME Steady(store, proc, home), Tidy(store, proc), HisteditAbort
    PROVE  Tidy(store', proc')
<1> DEFINE pl == AbortWrites("histedit", store.h_branch, store.h_base)
           p2 == [Idle EXCEPT !.op = "histedit", !.at = "aborting", !.plan = pl]
<1>1. proc = Idle /\ store.head = "h_tmp" /\ store' = store /\ proc' = p2
  BY TmpRefs DEF HisteditAbort, HisteditResumable, InProgress, history
<1>2. StoreOK(store) /\ home \in Branches BY DEF Steady
<1>3. store.h_branch = home /\ store.h_base \in Commits BY <1>1, InPlace
<1>4. Leaves(pl, home, 1) BY <1>2, <1>3, AbortPlan DEF Operations
<1>5. Restoring(pl, store) BY <1>2, <1>3, AbortRestores DEF Operations
<1> HIDE DEF pl
<1>6. p2.at = "aborting" /\ p2.plan = pl BY IdleIs DEF Process
<1>7. store.script \in Used BY <1>1, IdleIs, ScriptNow
<1> HIDE DEF p2
<1>8. Tidy(store, p2) BY <1>4, <1>5, <1>6, <1>7, TidyEnds DEF Ending
<1> QED BY <1>1, <1>8

LEMMA HisteditContinueTidy ==
    ASSUME Steady(store, proc, home), Tidy(store, proc), HisteditContinue, Calm'
    PROVE  Tidy(store', proc')
<1> DEFINE p3 == RebaseCommitWrites("histedit", Files, Last(store.h_commit).msg)
           pl == IF Changed = {} THEN <<>> ELSE p3
           ls(i) == SubSeq(store.script, i + 1, Len(store.script))
           p2(i) == [Idle EXCEPT !.op = "histedit", !.at = "next", !.br = store.h_branch,
                                 !.list = ls(i), !.plan = pl]
<1>1. PICK i \in DOMAIN store.script :
         /\ proc = Idle /\ store.head = "h_tmp" /\ store' = store
         /\ store.h_commit # NoId /\ store.disk.conf = {} /\ proc' = p2(i)
  <2>1. /\ proc = Idle /\ store.head = "h_tmp" /\ store' = store /\ store.h_commit # NoId
    BY TmpRefs DEF HisteditContinue, HisteditResumable, InProgress
  <2>2. PICK i \in DOMAIN store.script :
           LET fold == store.script[i].cmd \in {"drop", "fold"}
           IN  /\ ~fold => store.disk.conf = {}
               /\ proc' = [Idle EXCEPT
                     !.op = "histedit", !.at = "next", !.br = store.h_branch,
                     !.list = SubSeq(store.script, i + 1, Len(store.script)),
                     !.plan = IF fold THEN SkipCommitWrites(store.h_commit)
                              ELSE IF Changed = {} THEN <<>>
                              ELSE RebaseCommitWrites("histedit", Files,
                                       Last(store.h_commit).msg)]
               /\ seen' = seen \cup (IF fold THEN {"fold resumed"}
                                      ELSE IF Changed = {}
                                      THEN {"stale commit ref"} ELSE {})
    BY DEF HisteditContinue
  <2>3. store.script[i].cmd \notin {"drop", "fold"} BY <2>2 DEF Calm
  <2>4. store.disk.conf = {} /\ proc' = p2(i) BY <2>2, <2>3
  <2> QED BY <2>1, <2>4
<1>2. StoreOK(store) BY DEF Steady
<1>3. store.h_commit \in Commits BY <1>1, <1>2, StoreTypes DEF Ids
<1>4. Last(store.h_commit).msg \in Messages BY <1>3, TreeTypes
<1>5. store[store.head] \in Commits BY HeadExists
<1>6. Changed \subseteq Files BY <1>1 DEF Changed
<1>7. Pending(pl, store) /\ Avoids(pl, {"script"})
  <2>1. CASE Changed = {}
    <3>1. Pending(<<>>, store) BY <1>2, <2>1, PendingNow, AgreeIs, ChangedIsNow
    <3>2. Avoids(<<>>, {"script"}) BY DEF Avoids
    <3> QED BY <2>1, <3>1, <3>2
  <2>2. CASE Changed # {}
    <3>1. Pending(p3, store) /\ Avoids(p3, {"script"})
      BY <1>1, <1>2, <1>4, <1>5, <1>6, CommitPending DEF Operations
    <3> QED BY <2>2, <3>1
  <2> QED BY <2>1, <2>2
<1>8. store.script \in Used BY <1>1, IdleIs, ScriptNow
<1>9. AllUsed(ls(i))
  <2>1. store.script \in Seq(Entry) /\ AllUsed(store.script) BY <1>8 DEF Used
  <2>2. /\ ls(i) \in Seq(Entry) /\ Len(ls(i)) = Len(store.script) - i
        /\ \A j \in 1..(Len(store.script) - i) : ls(i)[j] = store.script[i + j]
    BY <2>1, RestOfScript
  <2>3. i \in 1..Len(store.script) BY <2>1
  <2> HIDE DEF ls
  <2> QED BY <2>1, <2>2, <2>3, RestIsUsed
<1> DEFINE l2 == ls(i)
           p4 == p2(i)
<1> HIDE DEF pl, ls
<1>10. p4.at = "next" /\ p4.op = "histedit" /\ p4.plan = pl /\ p4.list = ls(i)
  BY IdleIs DEF Process
<1> HIDE DEF p4
<1>11. Tidy(store, p4) BY <1>1, <1>7, <1>8, <1>9, <1>10, TidyGoesOn DEF Live
<1> QED BY <1>1, <1>11 DEF p4

(* What a histedit that goes on without touching the files keeps.          *)
LEMMA KeepsFolding ==
    ASSUME StoreOK(store), Tidy(store, proc), proc.plan = <<>>, proc.op = "histedit",
           proc.at \in {"next", "merge"}, NEW p, p.op = "histedit",
           p.at \in {"next", "merge"}, p.merged = proc.merged,
           Avoids(p.plan, {"disk", "index"}), Avoids(p.plan, {"script"}), AllUsed(p.list),
           (\E j \in DOMAIN proc.list : Uses(proc.list[j]))
             => (\E j \in DOMAIN p.list : Uses(p.list[j]))
    PROVE  Tidy(store, p)
<1>1. /\ store.disk.conf = {}
      /\ store.index \in Agreeing(store.disk) \/ Folding(store, proc)
  BY TidyNow DEF Live
<1>2. Pending(p.plan, store) \/ Folding(store, p)
  <2>1. CASE store.index \in Agreeing(store.disk) BY <2>1, AgreeStays
  <2>2. CASE Folding(store, proc) BY <2>2 DEF Folding
  <2> QED BY <1>1, <2>1, <2>2
<1>3. store.script \in Used BY ScriptNow
<1> QED BY <1>1, <1>2, <1>3, TidyGoesOn DEF Live

LEMMA HisteditNextTidy ==
    ASSUME Steady(store, proc, home), Tidy(store, proc), HisteditNext
    PROVE  Tidy(store', proc')
<1> DEFINE id == Head(proc.list).id
           q1 == SkipCommitWrites(id)
           q2 == StoreCommitId("histedit", id)
           p1 == [proc EXCEPT !.plan = q1, !.list = Tail(@)]
           p2 == [proc EXCEPT !.plan = q2, !.at = "merge"]
<1>1. /\ proc.at = "next" /\ proc.plan = <<>> /\ store' = store
      /\ proc.op = "histedit" /\ proc.list # <<>>
      /\ (Head(proc.list).cmd = "drop" /\ proc' = p1) \/ proc' = p2
  BY DEF HisteditNext, At, history
<1>2. proc \in Process /\ StoreOK(store) BY <1>1 DEF Steady
<1>3. id \in Commits /\ proc.list \in Seq(Entry) BY <1>1, <1>2, FirstEntry DEF Process
<1>4. /\ Avoids(q1, {"disk", "index"}) /\ Avoids(q1, {"script"})
      /\ Avoids(q2, {"disk", "index"}) /\ Avoids(q2, {"script"})
  BY <1>3, SkipAvoids, StoreAvoids DEF Operations
<1>5. AllUsed(proc.list) BY <1>1 DEF Tidy, TidyScript
<1> HIDE DEF q1, q2
<1>6. ASSUME Head(proc.list).cmd = "drop" PROVE Tidy(store, p1)
  <2>1. /\ p1.at = "next" /\ p1.op = "histedit" /\ p1.plan = q1
        /\ p1.list = Tail(proc.list) /\ p1.merged = proc.merged
    BY <1>1, <1>2 DEF Process
  <2>2. AllUsed(Tail(proc.list)) BY <1>1, <1>3, <1>5, TailIsUsed
  <2>3. ~Uses(Head(proc.list)) BY <1>6 DEF Uses
  <2>4. (\E j \in DOMAIN proc.list : Uses(proc.list[j]))
          => \E j \in DOMAIN Tail(proc.list) : Uses(Tail(proc.list)[j])
    BY <1>1, <1>3, <2>3, TailUses
  <2> HIDE DEF p1
  <2> QED BY <1>1, <1>2, <1>4, <2>1, <2>2, <2>4, KeepsFolding
<1>7. Tidy(store, p2)
  <2>1. /\ p2.at = "merge" /\ p2.op = "histedit" /\ p2.plan = q2
        /\ p2.list = proc.list /\ p2.merged = proc.merged
    BY <1>1, <1>2 DEF Process
  <2> HIDE DEF p2
  <2> QED BY <1>1, <1>2, <1>4, <1>5, <2>1, KeepsFolding
<1> QED BY <1>1, <1>6, <1>7

LEMMA HisteditMergeTidy ==
    ASSUME Steady(store, proc, home), Tidy(store, proc), HisteditMerge
    PROVE  Tidy(store', proc')
<1> DEFINE e == Head(proc.list)
           id == e.id
           fs == TouchedBy(id)
           mg == proc.merged \cup fs
           q1 == SkipCommitWrites(id)
           p1 == [proc EXCEPT !.plan = q1, !.at = "next", !.list = Tail(@), !.merged = mg]
           p2 == [proc EXCEPT !.at = "commit", !.merged = mg]
<1>1. PICK c \in Conflicts(id, fs) :
         /\ proc.at = "merge" /\ proc.plan = <<>> /\ proc.op = "histedit"
         /\ store' = [store EXCEPT !.disk = MergeFiles(id, fs, c)]
         /\ proc' = IF c # {} \/ e.cmd = "edit" THEN Idle
                    ELSE IF e.cmd = "fold" THEN p1 ELSE p2
  BY DEF HisteditMerge, At, history
<1>2. proc \in Process /\ StoreOK(store) /\ proc.list # <<>>
  BY <1>1 DEF Steady, PhaseOK
<1>3. proc.op \in Operations /\ store.head = TmpRef[proc.op]
  BY <1>1, LiveIsInPlace DEF Live
<1>4. id \in Commits /\ fs \in SUBSET Files /\ proc.list \in Seq(Entry)
  BY <1>2, FirstEntry DEF TouchedBy, Process
<1>5. store.disk.conf = {} /\ (ChangedIn(store) = {} \/ Folding(store, proc))
  BY <1>1, <1>2, TidyNow DEF Live
<1>6. Changed \subseteq proc.merged BY <1>5, ChangedIsNow DEF Folding
<1>7. store.script \in Used /\ AllUsed(proc.list)
  BY <1>1, ScriptNow DEF Tidy, TidyScript
<1>8. Avoids(q1, {"disk", "index"}) /\ Avoids(q1, {"script"}) BY <1>4, SkipAvoids
<1>9. e.cmd = "fold" => /\ AllUsed(Tail(proc.list))
                        /\ \E j \in DOMAIN Tail(proc.list) : Uses(Tail(proc.list)[j])
  BY <1>2, <1>4, <1>7, TailIsUsed, FoldIsUsed
<1> HIDE DEF id, fs, q1, e
<1>10. c \in SUBSET Files BY <1>4 DEF Conflicts
<1> DEFINE d == MergeFiles(id, fs, c)
           s2 == [store EXCEPT !.disk = d]
<1>11. d \in Disk BY <1>2, <1>4, <1>10, MergeIsDisk
<1>12. store' = s2 BY <1>1
<1>13. /\ s2.disk = d /\ s2.index = store.index /\ s2.script = store.script
       /\ s2.head = store.head
  <2> HIDE DEF d
  <2> QED BY <1>2, <1>11, DiskKeepsRest
<1> HIDE DEF s2
<1>14. CASE c # {} \/ e.cmd = "edit"
  <2>1. Tidy(s2, Idle) BY <1>3, <1>7, <1>13, TidyStopped, TmpIsNoBranch
  <2> QED BY <1>1, <1>12, <1>14, <2>1
<1>15. CASE c = {} /\ e.cmd # "edit"
  <2>1. ChangedIn(s2) \subseteq Changed \cup fs /\ s2.disk.conf = store.disk.conf
    BY <1>2, <1>4, <1>13, <1>15, MergeChanges
  <2>2. ChangedIn(s2) \subseteq mg /\ s2.disk.conf = {} BY <1>5, <1>6, <2>1
  <2> HIDE DEF mg
  <2>3. CASE e.cmd = "fold"
    <3>1. /\ p1.at = "next" /\ p1.plan = q1 /\ p1.op = "histedit" /\ p1.merged = mg
          /\ p1.list = Tail(proc.list)
      BY <1>1, <1>2 DEF Process
    <3> HIDE DEF p1
    <3>2. Folding(s2, p1) BY <1>8, <1>9, <2>2, <2>3, <3>1 DEF Folding
    <3>3. Tidy(s2, p1)
      BY <1>7, <1>8, <1>9, <1>13, <2>2, <2>3, <3>1, <3>2, TidyGoesOn DEF Live
    <3> QED BY <1>1, <1>12, <1>15, <2>3, <3>3
  <2>4. CASE e.cmd # "fold"
    <3>1. /\ p2.at = "commit" /\ p2.plan = <<>> /\ p2.op = "histedit" /\ p2.merged = mg
          /\ p2.list = proc.list
      BY <1>1, <1>2 DEF Process
    <3> HIDE DEF p2
    <3>2. Tidy(s2, p2) BY <1>7, <1>13, <2>2, <3>1, TidyToCommit
    <3> QED BY <1>1, <1>12, <1>15, <2>4, <3>2
  <2> QED BY <2>3, <2>4
<1> QED BY <1>14, <1>15

(***************************************************************************)
(* Errors, the user and other people                                       *)
(***************************************************************************)
LEMMA CollectFailsTidy ==
    ASSUME Steady(store, proc, home), Tidy(store, proc), CollectFails
    PROVE  Tidy(store', proc')
<1>1. proc.at = "collect" /\ proc.plan = <<>> /\ store' = store /\ proc' = Idle
  BY DEF CollectFails, At
<1>2. proc.op \in Operations /\ store.head = TmpRef[proc.op]
  BY <1>1, LiveIsInPlace DEF Live
<1>3. store.script \in Used BY <1>1, ScriptNow
<1>4. Tidy(store, Idle) BY <1>2, <1>3, TidyStopped, TmpIsNoBranch
<1> QED BY <1>1, <1>4

LEMMA ScriptRejectedTidy ==
    ASSUME Steady(store, proc, home), Tidy(store, proc), ScriptRejected
    PROVE  Tidy(store', proc')
<1> DEFINE w == <<"script", <<>> >>
           s2 == Written(store, w)
<1>1. /\ proc.at = "script" /\ proc.plan = <<>> /\ proc' = Idle /\ store' = s2
  BY DEF ScriptRejected, At, Written
<1>2. proc.op \in Operations /\ store.head = TmpRef[proc.op]
  BY <1>1, LiveIsInPlace DEF Live
<1>3. <<>> \in Seq(Entry) OBVIOUS
<1>4. w \in Writes /\ w[1] = "script" /\ w[2] = <<>> BY <1>3, WriteTypes
<1> HIDE DEF w
<1>5. \A k \in Keys : s2[k] = IF k = w[1] THEN w[2] ELSE store[k]
  BY <1>4, WrittenIs DEF Steady
<1> HIDE DEF s2
<1>6. s2.script = <<>> /\ s2.head = store.head BY <1>4, <1>5 DEF Keys
<1>7. <<>> \in Used BY <1>3 DEF Used, AllUsed
<1>8. Tidy(s2, Idle) BY <1>2, <1>6, <1>7, TidyStopped, TmpIsNoBranch
<1> QED BY <1>1, <1>8

(* Local changes exist only while an operation is in progress.             *)
LEMMA ChangesAreElsewhere ==
    ASSUME Steady(store, proc, home), Tidy(store, proc), proc = Idle, Changed # {}
    PROVE  store.head \notin Branches /\ store.script \in Used
<1>1. StoreOK(store) BY DEF Steady
<1>2. ChangedIn(store) # {} BY ChangedIsNow
<1>3. store.index \notin Agreeing(store.disk) BY <1>1, <1>2, AgreeIs
<1>4. store.head \notin Branches BY <1>3 DEF Tidy, TidyFiles
<1> QED BY <1>4, IdleIs, ScriptNow

LEMMA ResolveTidy ==
    ASSUME Steady(store, proc, home), Tidy(store, proc), NEW f, NEW keep, Resolve(f, keep)
    PROVE  Tidy(store', proc')
<1>1. store.disk \in Disk /\ StoreOK(store) BY StoreTypes DEF Steady
<1>2. proc = Idle /\ proc' = Idle /\ f \in store.disk.conf
      /\ \E gone : store' = [store EXCEPT !.disk = [hunks |-> store.disk.hunks \ gone,
                                                    conf |-> store.disk.conf \ {f}]]
  BY DEF Resolve
<1>3. PICK gone : store' = [store EXCEPT !.disk = [hunks |-> store.disk.hunks \ gone,
                                                   conf |-> store.disk.conf \ {f}]]
  BY <1>2
<1> DEFINE d == [hunks |-> store.disk.hunks \ gone, conf |-> store.disk.conf \ {f}]
           s2 == [store EXCEPT !.disk = d]
<1>4. d \in Disk BY <1>1 DEF Disk
<1>5. store' = s2 BY <1>3
<1>6. Changed # {} BY <1>2 DEF Changed
<1>7. store.head \notin Branches /\ store.script \in Used BY <1>2, <1>6, ChangesAreElsewhere
<1> HIDE DEF d
<1>8. s2.head = store.head /\ s2.script = store.script BY <1>1, <1>4, DiskKeepsRest
<1> HIDE DEF s2
<1>9. Tidy(s2, Idle) BY <1>7, <1>8, TidyStopped
<1> QED BY <1>2, <1>5, <1>9

LEMMA RevertTidy ==
    ASSUME Steady(store, proc, home), Tidy(store, proc), Revert
    PROVE  Tidy(store', proc')
<1> DEFINE d == [hunks |-> store.index.blob, conf |-> {}]
           s2 == [store EXCEPT !.disk = d]
<1>1. store.index \in Index /\ StoreOK(store) BY StoreTypes DEF Steady
<1>2. d \in Disk BY <1>1 DEF Disk, Index
<1>3. proc = Idle /\ proc' = Idle /\ Changed # {} /\ store' = s2 BY DEF Revert
<1>4. store.head \notin Branches /\ store.script \in Used BY <1>3, ChangesAreElsewhere
<1> HIDE DEF d
<1>5. s2.head = store.head /\ s2.script = store.script BY <1>1, <1>2, DiskKeepsRest
<1> HIDE DEF s2
<1>6. Tidy(s2, Idle) BY <1>4, <1>5, TidyStopped
<1> QED BY <1>3, <1>6

LEMMA GotCommitTidy ==
    ASSUME Steady(store, proc, home), Tidy(store, proc), GotCommit
    PROVE  Tidy(store', proc')
<1>1. proc = Idle /\ proc' = Idle /\ Changed # {} BY DEF GotCommit
<1>2. store.head \notin Branches /\ store.script \in Used BY <1>1, ChangesAreElsewhere
<1>3. store'.head = store.head /\ store'.script = store.script BY GotCommitStep
<1>4. ASSUME NEW s2, s2.head \notin Branches, s2.script \in Used PROVE Tidy(s2, Idle)
  BY <1>4, TidyStopped
<1> QED BY <1>1, <1>2, <1>3, <1>4

LEMMA UpdateTidy ==
    ASSUME Steady(store, proc, home), Tidy(store, proc), NEW b \in Branches, NEW n,
           Update(b, n)
    PROVE  Tidy(store', proc')
<1>1. proc = Idle /\ proc' = Idle /\ Changed = {} BY DEF Update
<1>2. store.disk.conf = {} BY <1>1 DEF Changed
<1>3. store.script \in Used BY <1>1, IdleIs, ScriptNow
<1>4. /\ Steady(store', proc', home') /\ store'.script = store.script
      /\ store'.disk.hunks = store'.index.blob /\ store'.disk.conf = {}
  BY <1>2, UpdateStep
<1>5. ASSUME NEW s2, NEW p2, NEW hm, Steady(s2, p2, hm), s2.disk.hunks = s2.index.blob,
             s2.disk.conf = {}, s2.script \in Used
      PROVE  Tidy(s2, Idle)
  <2>1. s2.index \in Index BY <1>5, StoreTypes DEF Steady
  <2>2. s2.index \in Agreeing(s2.disk) BY <1>5, <2>1 DEF Agreeing
  <2> QED BY <1>5, <2>2, TidyAtRest
<1>6. Tidy(store', Idle) BY <1>3, <1>4, <1>5
<1> QED BY <1>1, <1>6

LEMMA OthersCommitTidy ==
    ASSUME Steady(store, proc, home), Tidy(store, proc), NEW b \in Branches,
           NEW f \in Files, OthersCommit(b, f)
    PROVE  Tidy(store', proc')
<1> DEFINE S == [msg : Messages, tree : SUBSET Hunk]
<1>1. proc = Idle /\ proc' = Idle /\ store.head \in Tmps
  BY TmpRefs DEF OthersCommit, InProgress, Tmps
<1>2. PICK e \in S : store' = Written(store, <<b, Append(store[b], e)>>)
  BY OthersCommitStep
<1> DEFINE w == <<b, Append(store[b], e)>>
           s2 == Written(store, w)
<1>3. StoreOK(store) BY DEF Steady
<1>4. store[b] \in Seq(S) BY <1>3, StoreTypes, TreeTypes DEF Branches
<1> HIDE DEF S
<1>5. Append(store[b], e) \in Seq(S) /\ Append(store[b], e) # <<>>
  BY <1>4, AppendProperties
<1>6. Append(store[b], e) \in Commits BY <1>5 DEF Commits, NoId, S
<1>7. w \in Writes /\ w[1] = b BY <1>6, WriteTypes
<1> HIDE DEF w
<1>8. \A k \in Keys : s2[k] = IF k = w[1] THEN w[2] ELSE store[k] BY <1>3, <1>7, WrittenIs
<1> HIDE DEF s2
<1>9. s2.head = store.head /\ s2.script = store.script BY <1>7, <1>8 DEF Keys, Branches
<1>10. store.head \notin Branches BY <1>1 DEF Tmps, Branches
<1>11. store.script \in Used BY <1>1, IdleIs, ScriptNow
<1>12. Tidy(s2, Idle) BY <1>9, <1>10, <1>11, TidyStopped
<1> QED BY <1>1, <1>2, <1>12 DEF s2, w

-----------------------------------------------------------------------------
LEMMA TidyStart == ReplayInit => TidyInv
<1> SUFFICES ASSUME ReplayInit PROVE Tidy(store, proc)
  BY DEF TidyInv, Tidy
<1>1. SteadyInv /\ seen = {} BY SteadyStart DEF ReplayInit
<1>2. StoreOK(store) BY <1>1 DEF SteadyInv, Steady
<1>3. /\ store.disk.conf = {} /\ store.disk.hunks = store.index.blob
      /\ store.script = <<>> /\ proc = Idle
  BY DEF ReplayInit
<1>4. store.index \in Index BY <1>2, StoreTypes
<1>5. store.index \in Agreeing(store.disk) BY <1>3, <1>4 DEF Agreeing
<1>6. <<>> \in Seq(Entry) OBVIOUS
<1>7. <<>> \in Used BY <1>6 DEF Used, AllUsed
<1> QED BY <1>3, <1>5, <1>7, TidyAtRest

LEMMA TidyStep == SteadyInv /\ TidyInv /\ [Next]_vars => TidyInv'
<1> SUFFICES ASSUME SteadyInv, TidyInv, [Next]_vars, Calm'
             PROVE  Tidy(store', proc')
  BY DEF TidyInv, Tidy
<1>1. seen \subseteq seen' BY SeenGrows
<1>2. Calm /\ "restart" \notin seen /\ "kill" \notin seen'
  BY <1>1 DEF Calm
<1>3. Steady(store, proc, home) /\ Tidy(store, proc)
  BY <1>2 DEF SteadyInv, TidyInv, Tidy
<1>4. CASE RebaseCommand
  BY <1>3, <1>4, RebaseStartTidy, RebaseContinueTidy, RebaseAbortTidy DEF RebaseCommand
<1>5. CASE HisteditCommand
  BY <1>3, <1>5, HisteditStartTidy, HisteditContinueTidy, HisteditAbortTidy
     DEF HisteditCommand
<1>6. CASE Running
  BY <1>3, <1>6, WriteTidy, CommitTidy, CompleteTidy, ResolveBranchTidy, CollectTidy,
     RebaseNextTidy, RebaseMergeTidy, HisteditScriptTidy, HisteditNextTidy,
     HisteditMergeTidy
     DEF Running, RebaseStep, HisteditStep
<1>7. CASE Failing
  <2>1. ~Kill BY <1>2 DEF Kill
  <2> QED BY <1>3, <1>7, <2>1, CollectFailsTidy, ScriptRejectedTidy DEF Failing
<1>8. CASE Environment
  BY <1>3, <1>8, ResolveTidy, RevertTidy, GotCommitTidy, UpdateTidy, OthersCommitTidy
     DEF Environment
<1>9. CASE UNCHANGED vars BY <1>3, <1>9 DEF vars
<1> QED BY <1>4, <1>5, <1>6, <1>7, <1>8, <1>9 DEF Next

LEMMA AlwaysTidy == Spec => []TidyInv
<1>1. ReplayInit => TidyInv BY TidyStart
<1>2. SteadyInv /\ TidyInv /\ [Next]_vars => TidyInv' BY TidyStep
<1> QED BY <1>1, <1>2, AlwaysSteady, PTL DEF Spec

(* A rebase or histedit that is over, completed or aborted, after any      *)
(* number of conflicts and continuations, has left no local change in the  *)
(* work tree (worktree.c:6471, 6520): what it has merged was committed or  *)
(* undone.  This is without a kill, a rebase started within a rebase, and  *)
(* a `fold' that nothing takes up.                                         *)
THEOREM RewriteLeavesNothing == Spec => []NothingLeftBehind
<1>1. SteadyInv /\ TidyInv => NothingLeftBehind
  <2> SUFFICES ASSUME SteadyInv, TidyInv, Calm, proc = Idle, store.head \in Branches
               PROVE  Changed = {}
    BY DEF NothingLeftBehind, Calm
  <2>1. StoreOK(store) BY DEF SteadyInv, Calm, Steady
  <2>2. store.index \in Agreeing(store.disk) BY DEF TidyInv, TidyFiles
  <2> QED BY <2>1, <2>2, AgreeIs, ChangedIsNow
<1> QED BY <1>1, AlwaysSteady, AlwaysTidy, PTL
=============================================================================
