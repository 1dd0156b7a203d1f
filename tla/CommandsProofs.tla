--------------------------- MODULE CommandsProofs ---------------------------
(* Proofs about Commands, for any number of processes, branches, commits and  *)
(* commands, on platforms with and without O_EXLOCK.                          *)
(*                                                                            *)
(* What a process may rely on at a step was established by an earlier step of *)
(* its command and has not been undone since.  So the invariant says, of each *)
(* thing that steps rely on (an open work tree, the exclusive lock, the index *)
(* as it is on disk, ...), that it is there or that the step which provides   *)
(* it is still to come, before all steps that rely on it.  Two facts about    *)
(* the commands carry this through: which steps come before which, and that   *)
(* no step takes back what a later one relies on.                             *)
EXTENDS Commands, SequenceTheorems, TLAPS

StepName ==
    {"Ancestry", "AfterCommit", "CheckNew", "Checkout", "Close", "Collect", "DeleteRef",
     "Forwards", "Import", "InitTree", "LockArg", "LockEx", "LockHead", "LockSh", "MergeOk",
     "MoveHead", "NotCurrent", "Open", "Read", "ReadIndex", "RebaseOk", "Resolve",
     "ResolveArg", "ResolveBoth", "ResolveHead", "Schedule", "SetBase", "Stamp",
     "SwitchHead", "Sync", "Unlock", "UnlockRefs", "Unschedule", "WriteHead", "WriteRef"}

(* Every step of T in s comes after one of A.                                 *)
After(s, T, A) == \A i \in DOMAIN s : s[i] \in T => \E j \in 1..(i - 1) : s[j] \in A
NoneOf(s, T) == After(s, T, {})

(* Steps that change the index or may end with a Sync; that need the work     *)
(* tree open; that need the branch as it was opened and locked, and that end  *)
(* this; that use, and that set, the commit resolved; that read anew one of   *)
(* the two commits that integrate compares.                                   *)
IndexWork == {"Checkout", "Schedule", "Unschedule", "MoveHead", "Sync"}
InTree == IndexWork \cup {"LockEx", "LockSh", "Unlock", "SwitchHead", "SetBase",
                          "LockHead", "WriteHead"}
HeadLocked == {"WriteHead", "Forwards", "MoveHead"}
UsesTarget == {"SetBase", "WriteRef", "Forwards", "MoveHead"}
Resolves == {"Resolve", "ResolveArg", "ResolveHead", "LockArg", "Import"}
LosesHead == {"UnlockRefs", "SwitchHead", "WriteHead", "MoveHead"}
ReadsAnew == Resolves \cup {"LockHead"}

(* Step b never follows step a in a command: a takes back what b needs.       *)
Undoes(a, b) ==
    \/ a = "Open" /\ b = "Open"
    \/ a = "Unlock" /\ b \in InTree
    \/ a \in {"LockSh", "Unlock", "Sync"} /\ b \in IndexWork
    \/ a = "ReadIndex" /\ b = "LockEx"
    \/ a \in LosesHead /\ b \in HeadLocked

(* The rest of a command.                                                     *)
IsPlan(s) ==
    /\ s \in Seq(StepName)
    /\ s # <<>> /\ s[Len(s)] = "Close"
    /\ \A i, j \in DOMAIN s : i < j => ~Undoes(s[i], s[j])
    /\ \A i \in DOMAIN s : s[i] = "InitTree" => i + 2 \in DOMAIN s /\ s[i + 1] = "Stamp"
    /\ \A i, j \in DOMAIN s :
        i < j /\ s[i] \in ReadsAnew /\ s[j] = "MoveHead" =>
            \E k \in (i + 1)..(j - 1) : s[k] = "Forwards"

(* What the steps rely on.                                                    *)
Opened(p) == proc[p].base # 0 /\ (exlock => flocks[p] # "un")
HasIndex(p) == flocks[p] = "ex" /\ proc[p].orig = index
HasHead(p) ==
    LET b == proc[p].head
    IN  /\ proc[p].base # 0 /\ b \in Branch
        /\ refLock[b] = p \/ (refLock[PackedRefs] = p /\ b \in DOMAIN lines)
        /\ b \in DOMAIN lines \/ (b \in DOMAIN refs /\ refs[b] = proc[p].tip)
IsForwards(p) == /\ HasHead(p) /\ proc[p].target # 0
                 /\ proc[p].tip \in hist[proc[p].target]

Relies(p) ==
    LET todo == proc[p].todo
    IN  /\ Opened(p) \/ After(todo, InTree, {"Open"})
        /\ proc[p].base = 0 \/ NoneOf(todo, {"Open"})
        /\ flocks[p] = "ex" \/ After(todo, IndexWork, {"LockEx"})
        /\ HasIndex(p) \/ After(todo, IndexWork, {"ReadIndex"})
        /\ proc[p].target # 0 \/ After(todo, UsesTarget, Resolves)
        /\ proc[p].arg \in Branch \/ NoneOf(todo, ArgSteps)
        /\ HasHead(p) \/ After(todo, HeadLocked, {"LockHead"})
        /\ IsForwards(p) \/ After(todo, {"MoveHead"}, {"Forwards"})
        /\ meta.stage # "none" \/ After(todo, {"Stamp"}, {"InitTree"})

IndexTypes == [at : SUBSET Nat, sched : BOOLEAN]
ProcTypes ==
    [todo : Seq(StepName), base : Nat, head : Branch \cup {""}, arg : Branch \cup {""},
     target : Nat, tip : Nat, aside : BOOLEAN, idx : IndexTypes, orig : IndexTypes]
MetaTypes ==
    [stage : {"none", "partial", "ready"}, base : Nat, head : Branch \cup {""}]

HistoryOK ==
    /\ hist \in Seq(SUBSET Nat)
    /\ \A c \in Commit : c \in hist[c] /\ \A d \in hist[c] : d \in Commit /\ hist[d] \subseteq hist[c]
RefsOK ==
    /\ refs \in UNION {[B -> Commit] : B \in SUBSET Branch}
    /\ lines \in UNION {[B -> Commit] : B \in SUBSET Branch}
    /\ loose \subseteq DOMAIN refs
    /\ refLock \in [LockFile -> Proc \cup {Nobody, Exited}]
TreeOK ==
    /\ meta \in MetaTypes /\ index \in IndexTypes
    /\ meta.stage # "none" => meta.base \in Commit
ProcessesOK ==
    /\ exlock \in BOOLEAN
    /\ flocks \in [Proc -> {"un", "sh", "ex"}]
    /\ proc \in [Proc -> ProcTypes]
    /\ \A p \in Proc :
        /\ IF Running(p) THEN IsPlan(proc[p].todo) ELSE proc[p] = Idle
        /\ {proc[p].base, proc[p].target} \subseteq {0} \cup Commit
        /\ proc[p].base # 0 => meta.stage = "ready"
        /\ flocks[p] # "un" => proc[p].base # 0

(* Who has the work tree's lock exclusively, or at all where it is taken on   *)
(* open, is alone.                                                            *)
Alone ==
    \A p, q \in Proc : p # q /\ flocks[p] # "un" /\ (exlock \/ flocks[p] = "ex") => flocks[q] = "un"

CommandsInv ==
    /\ HistoryOK /\ RefsOK /\ TreeOK /\ ProcessesOK /\ Alone
    /\ \A p \in Proc : Relies(p)
    /\ CachedMetaIsCurrent

-----------------------------------------------------------------------------
(* Sequences of steps.                                                        *)

(* What comes after A does so after a step is taken, if that is none of A.    *)
LEMMA AfterTail ==
    ASSUME NEW s \in Seq(StepName), s # <<>>, NEW T, NEW A, After(s, T, A), Head(s) \notin A
    PROVE  After(Tail(s), T, A)
<1> SUFFICES ASSUME NEW i \in DOMAIN Tail(s), Tail(s)[i] \in T
             PROVE  \E j \in 1..(i - 1) : Tail(s)[j] \in A
  BY DEF After
<1>1. i \in 1..(Len(s) - 1) /\ Tail(s)[i] = s[i + 1] /\ i + 1 \in DOMAIN s
  BY HeadTailProperties
<1>2. PICK j \in 1..((i + 1) - 1) : s[j] \in A BY <1>1 DEF After
<1>3. j # 1 BY <1>2
<1>4. Tail(s)[j - 1] = s[j] /\ j - 1 \in 1..(i - 1) BY <1>1, <1>3, HeadTailProperties
<1> QED BY <1>2, <1>4

(* The first step comes after nothing.                                        *)
LEMMA AfterHead ==
    ASSUME NEW s \in Seq(StepName), s # <<>>, NEW T, NEW A, After(s, T, A)
    PROVE  Head(s) \notin T
  BY DEF After

(* What a sequence does not contain needs nothing before it.                  *)
LEMMA NoneIsAfter ==
    ASSUME NEW s \in Seq(StepName), NEW T, NEW A, \A i \in DOMAIN s : s[i] \notin T
    PROVE  After(s, T, A)
  BY DEF After

(* A command goes on as one, until it ends; and after a step nothing is left  *)
(* that relies on what the step undoes.                                       *)
LEMMA PlanTail ==
    ASSUME NEW s, IsPlan(s), Head(s) # "Close"
    PROVE  IsPlan(Tail(s))
<1> DEFINE t == Tail(s)
<1>1. s \in Seq(StepName) /\ s # <<>> /\ s[Len(s)] = "Close" /\ Head(s) = s[1] BY DEF IsPlan
<1>2. /\ t \in Seq(StepName) /\ Len(t) = Len(s) - 1 /\ Len(s) > 1
      /\ \A i \in DOMAIN t : t[i] = s[i + 1] /\ i + 1 \in DOMAIN s
  BY <1>1, HeadTailProperties
<1>3. t # <<>> /\ t[Len(t)] = "Close"
  <2>1. Len(t) \in DOMAIN t /\ Len(t) + 1 = Len(s) BY <1>1, <1>2
  <2> QED BY <1>1, <1>2, <2>1
<1>4. \A i, j \in DOMAIN t : i < j => ~Undoes(t[i], t[j])
  <2> SUFFICES ASSUME NEW i \in DOMAIN t, NEW j \in DOMAIN t, i < j PROVE ~Undoes(t[i], t[j])
    OBVIOUS
  <2>1. ~Undoes(s[i + 1], s[j + 1]) BY <1>2 DEF IsPlan
  <2> QED BY <1>2, <2>1
<1>5. \A i \in DOMAIN t : t[i] = "InitTree" => i + 2 \in DOMAIN t /\ t[i + 1] = "Stamp"
  <2> SUFFICES ASSUME NEW i \in DOMAIN t, t[i] = "InitTree"
               PROVE  i + 2 \in DOMAIN t /\ t[i + 1] = "Stamp"
    OBVIOUS
  <2>1. (i + 1) + 2 \in DOMAIN s /\ s[(i + 1) + 1] = "Stamp" BY <1>2 DEF IsPlan
  <2> QED BY <1>1, <1>2, <2>1
<1>6. ASSUME NEW i \in DOMAIN t, NEW j \in DOMAIN t, i < j,
             t[i] \in ReadsAnew, t[j] = "MoveHead"
      PROVE  \E k \in (i + 1)..(j - 1) : t[k] = "Forwards"
  <2>1. PICK k \in (i + 2)..j : s[k] = "Forwards"
    <3>1. \E k \in ((i + 1) + 1)..((j + 1) - 1) : s[k] = "Forwards"
      BY <1>2, <1>6 DEF IsPlan
    <3> QED BY <1>1, <1>2, <3>1
  <2>2. k - 1 \in (i + 1)..(j - 1) /\ k - 1 \in DOMAIN t BY <1>1, <1>2
  <2> QED BY <1>2, <2>1, <2>2
<1> QED BY <1>2, <1>3, <1>4, <1>5, <1>6 DEF IsPlan

(* What the first step undoes does not occur in the rest.                     *)
LEMMA Undone ==
    ASSUME NEW s, IsPlan(s), NEW T, NEW A, \A b \in T : Undoes(Head(s), b)
    PROVE  After(Tail(s), T, A)
<1>1. s \in Seq(StepName) /\ s # <<>> /\ Head(s) = s[1] BY DEF IsPlan
<1>2. \A i \in DOMAIN Tail(s) : Tail(s)[i] = s[i + 1] /\ i + 1 \in DOMAIN s /\ 1 < i + 1
  BY <1>1, HeadTailProperties
<1>3. \A i \in DOMAIN Tail(s) : Tail(s)[i] \notin T BY <1>1, <1>2 DEF IsPlan
<1> QED BY <1>1, <1>3, HeadTailProperties, NoneIsAfter

(* A commit resolved anew is compared again before the branch moves to it.    *)
LEMMA Resolved ==
    ASSUME NEW s, IsPlan(s), Head(s) \in ReadsAnew
    PROVE  After(Tail(s), {"MoveHead"}, {"Forwards"})
<1>1. s \in Seq(StepName) /\ s # <<>> /\ Head(s) = s[1] /\ 1 \in DOMAIN s BY DEF IsPlan
<1>2. \A i \in DOMAIN Tail(s) : Tail(s)[i] = s[i + 1] /\ i + 1 \in DOMAIN s /\ 1 < i + 1
  BY <1>1, HeadTailProperties
<1> SUFFICES ASSUME NEW i \in DOMAIN Tail(s), Tail(s)[i] = "MoveHead"
             PROVE  \E j \in 1..(i - 1) : Tail(s)[j] = "Forwards"
  BY DEF After
<1>3. PICK k \in (1 + 1)..((i + 1) - 1) : s[k] = "Forwards" BY <1>1, <1>2 DEF IsPlan
<1>4. k - 1 \in 1..(i - 1) /\ k - 1 \in DOMAIN Tail(s) BY <1>1, HeadTailProperties
<1> QED BY <1>2, <1>3, <1>4

-----------------------------------------------------------------------------
(* A command at its beginning: it does not rely on anything yet.              *)
Fresh(s) ==
    /\ IsPlan(s)
    /\ After(s, InTree, {"Open"}) /\ After(s, IndexWork, {"LockEx"})
    /\ After(s, IndexWork, {"ReadIndex"}) /\ After(s, UsesTarget, Resolves)
    /\ After(s, HeadLocked, {"LockHead"}) /\ After(s, {"MoveHead"}, {"Forwards"})
    /\ After(s, {"Stamp"}, {"InitTree"})

(* A command is put together from sequences of steps.                         *)
LEMMA Concatenation ==
    \A s, t : s \in Seq(StepName) /\ t \in Seq(StepName) => s \o t \in Seq(StepName)
  BY ConcatProperties

(* The table of commands of got.c, as Programs has it, is one of steps.       *)
LEMMA ProgramsAreSequences == Programs \subseteq Seq(StepName)
<1> USE DEF Locked, CheckoutFiles, AddBranch, InEither, StepName
<1>1. Import \subseteq Seq(StepName) /\ CommitCmd \subseteq Seq(StepName) /\ Integrate \subseteq Seq(StepName)
  BY DEF Import, CommitCmd, Integrate
<1>2. CheckoutCmd \subseteq Seq(StepName)
  <2>1. <<>> \in Seq(StepName) /\ <<"ResolveArg", "Ancestry", "SetBase">> \in Seq(StepName) OBVIOUS
  <2>2. CheckoutFiles \in Seq(StepName) BY Concatenation
  <2>3. <<"ResolveArg", "InitTree", "Stamp", "Open">> \in Seq(StepName) OBVIOUS
  <2>4. \A s \in Seq(StepName) :
          <<"ResolveArg", "InitTree", "Stamp", "Open">> \o s \o CheckoutFiles \in Seq(StepName)
    BY <2>2, <2>3, Concatenation
  <2> HIDE DEF CheckoutFiles, StepName
  <2> QED BY <2>1, <2>4 DEF CheckoutCmd
<1>3. Update \subseteq Seq(StepName) BY Concatenation DEF Update
<1>4. /\ Log \subseteq Seq(StepName) /\ Diff \subseteq Seq(StepName) /\ Blame \subseteq Seq(StepName)
      /\ Tree \subseteq Seq(StepName) /\ Tag \subseteq Seq(StepName) /\ Cat \subseteq Seq(StepName)
      /\ Status \subseteq Seq(StepName) /\ Info \subseteq Seq(StepName)
  BY Concatenation DEF Log, Diff, Blame, Tree, Tag, Cat, Status, Info
<1>5. Ref \subseteq Seq(StepName) BY Concatenation DEF Ref
<1>6. BranchCmd \subseteq Seq(StepName) BY Concatenation DEF BranchCmd
<1>7. /\ Add \subseteq Seq(StepName) /\ Remove \subseteq Seq(StepName)
      /\ Revert \subseteq Seq(StepName) /\ Unstage \subseteq Seq(StepName)
  BY Concatenation DEF Add, Remove, Revert, Unstage
<1>8. Stage \subseteq Seq(StepName) /\ Pick \subseteq Seq(StepName) BY Concatenation DEF Stage, Pick
<1> QED BY <1>1, <1>2, <1>3, <1>4, <1>5, <1>6, <1>7, <1>8 DEF Programs

(* How the rules for the rest of a command are checked for an explicit one.   *)
LEMMA PlanWithoutMoveHead ==
    ASSUME NEW s \in Seq(StepName), Len(s) # 0, s[Len(s)] = "Close",
           \A i, j \in DOMAIN s : i < j => ~Undoes(s[i], s[j]),
           \A i \in DOMAIN s : s[i] = "InitTree" => i + 2 \in DOMAIN s /\ s[i + 1] = "Stamp",
           \A j \in DOMAIN s : s[j] # "MoveHead"
    PROVE  IsPlan(s)
  BY DEF IsPlan

(* Each command's steps, one by one: lock, read, work, write back.            *)
LEMMA ProgramsAreFresh == \A program \in Programs : Fresh(program \o <<"Close">>)
<1> USE DEF Locked, CheckoutFiles, AddBranch, InTree, IndexWork, HeadLocked, UsesTarget, Resolves,
                   LosesHead, ReadsAnew
<1>1. ASSUME NEW s, s = <<"CheckNew", "Import", "WriteRef">> \o <<"Close">>
      PROVE  Fresh(s)
  <2>1. s \in Seq(StepName) /\ Len(s) = 4 BY <1>1, Concatenation DEF StepName
  <2>2. /\ s[1] = "CheckNew" /\ s[2] = "Import" /\ s[3] = "WriteRef" /\ s[4] = "Close"
    BY <1>1
  <2>3. \A i, j \in DOMAIN s : i < j => ~Undoes(s[i], s[j]) BY <2>1, <2>2 DEF Undoes
  <2>4. \A i \in DOMAIN s : s[i] = "InitTree" => i + 2 \in DOMAIN s /\ s[i + 1] = "Stamp"
    BY <2>1, <2>2
  <2>5. \A j \in DOMAIN s : s[j] # "MoveHead" BY <2>1, <2>2
  <2>6. Len(s) # 0 /\ s[Len(s)] = "Close"
    <3>1. s[4] = "Close" BY <2>2
    <3>2. s[Len(s)] = "Close" BY <2>1, <3>1
    <3>3. Len(s) # 0 BY <2>1
    <3> QED BY <3>2, <3>3
  <2>7. IsPlan(s) BY <2>1, <2>3, <2>4, <2>5, <2>6, PlanWithoutMoveHead
  <2> QED BY <2>1, <2>2, <2>7 DEF Fresh, After
<1>2. ASSUME NEW s, s = <<"ResolveArg", "InitTree", "Stamp", "Open">> \o <<>> \o
                       CheckoutFiles \o <<"Close">>
      PROVE  Fresh(s)
  <2>1. s \in Seq(StepName) /\ Len(s) = 10 BY <1>2, Concatenation DEF StepName
  <2>2. /\ s[1] = "ResolveArg" /\ s[2] = "InitTree" /\ s[3] = "Stamp" /\ s[4] = "Open"
        /\ s[5] = "LockEx" /\ s[6] = "ReadIndex" /\ s[7] = "Checkout" /\ s[8] = "Sync"
        /\ s[9] = "LockSh" /\ s[10] = "Close"
    BY <1>2
  <2>3. \A i, j \in DOMAIN s : i < j => ~Undoes(s[i], s[j]) BY <2>1, <2>2 DEF Undoes
  <2>4. \A i \in DOMAIN s : s[i] = "InitTree" => i + 2 \in DOMAIN s /\ s[i + 1] = "Stamp"
    BY <2>1, <2>2
  <2>5. \A j \in DOMAIN s : s[j] # "MoveHead" BY <2>1, <2>2
  <2>6. Len(s) # 0 /\ s[Len(s)] = "Close"
    <3>1. s[10] = "Close" BY <2>2
    <3>2. s[Len(s)] = "Close" BY <2>1, <3>1
    <3>3. Len(s) # 0 BY <2>1
    <3> QED BY <3>2, <3>3
  <2>7. IsPlan(s) BY <2>1, <2>3, <2>4, <2>5, <2>6, PlanWithoutMoveHead
  <2> QED BY <2>1, <2>2, <2>7 DEF Fresh, After
<1>3. ASSUME NEW s, s = <<"ResolveArg", "InitTree", "Stamp", "Open">> \o
                       <<"ResolveArg", "Ancestry", "SetBase">> \o CheckoutFiles \o
                       <<"Close">>
      PROVE  Fresh(s)
  <2>1. s \in Seq(StepName) /\ Len(s) = 13 BY <1>3, Concatenation DEF StepName
  <2>2. /\ s[1] = "ResolveArg" /\ s[2] = "InitTree" /\ s[3] = "Stamp" /\ s[4] = "Open"
        /\ s[5] = "ResolveArg" /\ s[6] = "Ancestry" /\ s[7] = "SetBase" /\ s[8] = "LockEx"
        /\ s[9] = "ReadIndex" /\ s[10] = "Checkout" /\ s[11] = "Sync" /\ s[12] = "LockSh"
        /\ s[13] = "Close"
    BY <1>3
  <2>3. \A i, j \in DOMAIN s : i < j => ~Undoes(s[i], s[j]) BY <2>1, <2>2 DEF Undoes
  <2>4. \A i \in DOMAIN s : s[i] = "InitTree" => i + 2 \in DOMAIN s /\ s[i + 1] = "Stamp"
    BY <2>1, <2>2
  <2>5. \A j \in DOMAIN s : s[j] # "MoveHead" BY <2>1, <2>2
  <2>6. Len(s) # 0 /\ s[Len(s)] = "Close"
    <3>1. s[13] = "Close" BY <2>2
    <3>2. s[Len(s)] = "Close" BY <2>1, <3>1
    <3>3. Len(s) # 0 BY <2>1
    <3> QED BY <3>2, <3>3
  <2>7. IsPlan(s) BY <2>1, <2>3, <2>4, <2>5, <2>6, PlanWithoutMoveHead
  <2> QED BY <2>1, <2>2, <2>7 DEF Fresh, After
<1>4. ASSUME NEW s, s = <<"Open", "Resolve", "Ancestry", "SetBase">> \o CheckoutFiles
                       \o <<"Close">>
      PROVE  Fresh(s)
  <2>1. s \in Seq(StepName) /\ Len(s) = 10 BY <1>4, Concatenation DEF StepName
  <2>2. /\ s[1] = "Open" /\ s[2] = "Resolve" /\ s[3] = "Ancestry" /\ s[4] = "SetBase"
        /\ s[5] = "LockEx" /\ s[6] = "ReadIndex" /\ s[7] = "Checkout" /\ s[8] = "Sync"
        /\ s[9] = "LockSh" /\ s[10] = "Close"
    BY <1>4
  <2>3. \A i, j \in DOMAIN s : i < j => ~Undoes(s[i], s[j]) BY <2>1, <2>2 DEF Undoes
  <2>4. \A i \in DOMAIN s : s[i] = "InitTree" => i + 2 \in DOMAIN s /\ s[i + 1] = "Stamp"
    BY <2>1, <2>2
  <2>5. \A j \in DOMAIN s : s[j] # "MoveHead" BY <2>1, <2>2
  <2>6. Len(s) # 0 /\ s[Len(s)] = "Close"
    <3>1. s[10] = "Close" BY <2>2
    <3>2. s[Len(s)] = "Close" BY <2>1, <3>1
    <3>3. Len(s) # 0 BY <2>1
    <3> QED BY <3>2, <3>3
  <2>7. IsPlan(s) BY <2>1, <2>3, <2>4, <2>5, <2>6, PlanWithoutMoveHead
  <2> QED BY <2>1, <2>2, <2>7 DEF Fresh, After
<1>5. ASSUME NEW s, s = <<"Open", "ResolveArg", "SwitchHead", "SetBase">> \o
                       CheckoutFiles \o <<"Close">>
      PROVE  Fresh(s)
  <2>1. s \in Seq(StepName) /\ Len(s) = 10 BY <1>5, Concatenation DEF StepName
  <2>2. /\ s[1] = "Open" /\ s[2] = "ResolveArg" /\ s[3] = "SwitchHead" /\ s[4] = "SetBase"
        /\ s[5] = "LockEx" /\ s[6] = "ReadIndex" /\ s[7] = "Checkout" /\ s[8] = "Sync"
        /\ s[9] = "LockSh" /\ s[10] = "Close"
    BY <1>5
  <2>3. \A i, j \in DOMAIN s : i < j => ~Undoes(s[i], s[j]) BY <2>1, <2>2 DEF Undoes
  <2>4. \A i \in DOMAIN s : s[i] = "InitTree" => i + 2 \in DOMAIN s /\ s[i + 1] = "Stamp"
    BY <2>1, <2>2
  <2>5. \A j \in DOMAIN s : s[j] # "MoveHead" BY <2>1, <2>2
  <2>6. Len(s) # 0 /\ s[Len(s)] = "Close"
    <3>1. s[10] = "Close" BY <2>2
    <3>2. s[Len(s)] = "Close" BY <2>1, <3>1
    <3>3. Len(s) # 0 BY <2>1
    <3> QED BY <3>2, <3>3
  <2>7. IsPlan(s) BY <2>1, <2>3, <2>4, <2>5, <2>6, PlanWithoutMoveHead
  <2> QED BY <2>1, <2>2, <2>7 DEF Fresh, After
<1>6. ASSUME NEW s, s = <<"Read">> \o <<"Close">>
      PROVE  Fresh(s)
  <2>1. s \in Seq(StepName) /\ Len(s) = 2 BY <1>6, Concatenation DEF StepName
  <2>2. /\ s[1] = "Read" /\ s[2] = "Close"
    BY <1>6
  <2>3. \A i, j \in DOMAIN s : i < j => ~Undoes(s[i], s[j]) BY <2>1, <2>2 DEF Undoes
  <2>4. \A i \in DOMAIN s : s[i] = "InitTree" => i + 2 \in DOMAIN s /\ s[i + 1] = "Stamp"
    BY <2>1, <2>2
  <2>5. \A j \in DOMAIN s : s[j] # "MoveHead" BY <2>1, <2>2
  <2>6. Len(s) # 0 /\ s[Len(s)] = "Close"
    <3>1. s[2] = "Close" BY <2>2
    <3>2. s[Len(s)] = "Close" BY <2>1, <3>1
    <3>3. Len(s) # 0 BY <2>1
    <3> QED BY <3>2, <3>3
  <2>7. IsPlan(s) BY <2>1, <2>3, <2>4, <2>5, <2>6, PlanWithoutMoveHead
  <2> QED BY <2>1, <2>2, <2>7 DEF Fresh, After
<1>7. ASSUME NEW s, s = <<"Resolve", "WriteRef">> \o <<"Close">>
      PROVE  Fresh(s)
  <2>1. s \in Seq(StepName) /\ Len(s) = 3 BY <1>7, Concatenation DEF StepName
  <2>2. /\ s[1] = "Resolve" /\ s[2] = "WriteRef" /\ s[3] = "Close"
    BY <1>7
  <2>3. \A i, j \in DOMAIN s : i < j => ~Undoes(s[i], s[j]) BY <2>1, <2>2 DEF Undoes
  <2>4. \A i \in DOMAIN s : s[i] = "InitTree" => i + 2 \in DOMAIN s /\ s[i + 1] = "Stamp"
    BY <2>1, <2>2
  <2>5. \A j \in DOMAIN s : s[j] # "MoveHead" BY <2>1, <2>2
  <2>6. Len(s) # 0 /\ s[Len(s)] = "Close"
    <3>1. s[3] = "Close" BY <2>2
    <3>2. s[Len(s)] = "Close" BY <2>1, <3>1
    <3>3. Len(s) # 0 BY <2>1
    <3> QED BY <3>2, <3>3
  <2>7. IsPlan(s) BY <2>1, <2>3, <2>4, <2>5, <2>6, PlanWithoutMoveHead
  <2> QED BY <2>1, <2>2, <2>7 DEF Fresh, After
<1>8. ASSUME NEW s, s = <<"DeleteRef">> \o <<"Close">>
      PROVE  Fresh(s)
  <2>1. s \in Seq(StepName) /\ Len(s) = 2 BY <1>8, Concatenation DEF StepName
  <2>2. /\ s[1] = "DeleteRef" /\ s[2] = "Close"
    BY <1>8
  <2>3. \A i, j \in DOMAIN s : i < j => ~Undoes(s[i], s[j]) BY <2>1, <2>2 DEF Undoes
  <2>4. \A i \in DOMAIN s : s[i] = "InitTree" => i + 2 \in DOMAIN s /\ s[i + 1] = "Stamp"
    BY <2>1, <2>2
  <2>5. \A j \in DOMAIN s : s[j] # "MoveHead" BY <2>1, <2>2
  <2>6. Len(s) # 0 /\ s[Len(s)] = "Close"
    <3>1. s[2] = "Close" BY <2>2
    <3>2. s[Len(s)] = "Close" BY <2>1, <3>1
    <3>3. Len(s) # 0 BY <2>1
    <3> QED BY <3>2, <3>3
  <2>7. IsPlan(s) BY <2>1, <2>3, <2>4, <2>5, <2>6, PlanWithoutMoveHead
  <2> QED BY <2>1, <2>2, <2>7 DEF Fresh, After
<1>9. ASSUME NEW s, s = <<"NotCurrent", "DeleteRef">> \o <<"Close">>
      PROVE  Fresh(s)
  <2>1. s \in Seq(StepName) /\ Len(s) = 3 BY <1>9, Concatenation DEF StepName
  <2>2. /\ s[1] = "NotCurrent" /\ s[2] = "DeleteRef" /\ s[3] = "Close"
    BY <1>9
  <2>3. \A i, j \in DOMAIN s : i < j => ~Undoes(s[i], s[j]) BY <2>1, <2>2 DEF Undoes
  <2>4. \A i \in DOMAIN s : s[i] = "InitTree" => i + 2 \in DOMAIN s /\ s[i + 1] = "Stamp"
    BY <2>1, <2>2
  <2>5. \A j \in DOMAIN s : s[j] # "MoveHead" BY <2>1, <2>2
  <2>6. Len(s) # 0 /\ s[Len(s)] = "Close"
    <3>1. s[3] = "Close" BY <2>2
    <3>2. s[Len(s)] = "Close" BY <2>1, <3>1
    <3>3. Len(s) # 0 BY <2>1
    <3> QED BY <3>2, <3>3
  <2>7. IsPlan(s) BY <2>1, <2>3, <2>4, <2>5, <2>6, PlanWithoutMoveHead
  <2> QED BY <2>1, <2>2, <2>7 DEF Fresh, After
<1>10. ASSUME NEW s, s = AddBranch \o <<"Close">>
      PROVE  Fresh(s)
  <2>1. s \in Seq(StepName) /\ Len(s) = 4 BY <1>10, Concatenation DEF StepName
  <2>2. /\ s[1] = "Resolve" /\ s[2] = "CheckNew" /\ s[3] = "WriteRef" /\ s[4] = "Close"
    BY <1>10
  <2>3. \A i, j \in DOMAIN s : i < j => ~Undoes(s[i], s[j]) BY <2>1, <2>2 DEF Undoes
  <2>4. \A i \in DOMAIN s : s[i] = "InitTree" => i + 2 \in DOMAIN s /\ s[i + 1] = "Stamp"
    BY <2>1, <2>2
  <2>5. \A j \in DOMAIN s : s[j] # "MoveHead" BY <2>1, <2>2
  <2>6. Len(s) # 0 /\ s[Len(s)] = "Close"
    <3>1. s[4] = "Close" BY <2>2
    <3>2. s[Len(s)] = "Close" BY <2>1, <3>1
    <3>3. Len(s) # 0 BY <2>1
    <3> QED BY <3>2, <3>3
  <2>7. IsPlan(s) BY <2>1, <2>3, <2>4, <2>5, <2>6, PlanWithoutMoveHead
  <2> QED BY <2>1, <2>2, <2>7 DEF Fresh, After
<1>11. ASSUME NEW s, s = <<"Open">> \o <<"Read">> \o <<"Close">>
      PROVE  Fresh(s)
  <2>1. s \in Seq(StepName) /\ Len(s) = 3 BY <1>11, Concatenation DEF StepName
  <2>2. /\ s[1] = "Open" /\ s[2] = "Read" /\ s[3] = "Close"
    BY <1>11
  <2>3. \A i, j \in DOMAIN s : i < j => ~Undoes(s[i], s[j]) BY <2>1, <2>2 DEF Undoes
  <2>4. \A i \in DOMAIN s : s[i] = "InitTree" => i + 2 \in DOMAIN s /\ s[i + 1] = "Stamp"
    BY <2>1, <2>2
  <2>5. \A j \in DOMAIN s : s[j] # "MoveHead" BY <2>1, <2>2
  <2>6. Len(s) # 0 /\ s[Len(s)] = "Close"
    <3>1. s[3] = "Close" BY <2>2
    <3>2. s[Len(s)] = "Close" BY <2>1, <3>1
    <3>3. Len(s) # 0 BY <2>1
    <3> QED BY <3>2, <3>3
  <2>7. IsPlan(s) BY <2>1, <2>3, <2>4, <2>5, <2>6, PlanWithoutMoveHead
  <2> QED BY <2>1, <2>2, <2>7 DEF Fresh, After
<1>12. ASSUME NEW s, s = <<"Open", "Read">> \o <<"Close">>
      PROVE  Fresh(s)
  <2>1. s \in Seq(StepName) /\ Len(s) = 3 BY <1>12, Concatenation DEF StepName
  <2>2. /\ s[1] = "Open" /\ s[2] = "Read" /\ s[3] = "Close"
    BY <1>12
  <2>3. \A i, j \in DOMAIN s : i < j => ~Undoes(s[i], s[j]) BY <2>1, <2>2 DEF Undoes
  <2>4. \A i \in DOMAIN s : s[i] = "InitTree" => i + 2 \in DOMAIN s /\ s[i + 1] = "Stamp"
    BY <2>1, <2>2
  <2>5. \A j \in DOMAIN s : s[j] # "MoveHead" BY <2>1, <2>2
  <2>6. Len(s) # 0 /\ s[Len(s)] = "Close"
    <3>1. s[3] = "Close" BY <2>2
    <3>2. s[Len(s)] = "Close" BY <2>1, <3>1
    <3>3. Len(s) # 0 BY <2>1
    <3> QED BY <3>2, <3>3
  <2>7. IsPlan(s) BY <2>1, <2>3, <2>4, <2>5, <2>6, PlanWithoutMoveHead
  <2> QED BY <2>1, <2>2, <2>7 DEF Fresh, After
<1>13. ASSUME NEW s, s = <<"Open">> \o <<"Resolve", "WriteRef">> \o <<"Close">>
      PROVE  Fresh(s)
  <2>1. s \in Seq(StepName) /\ Len(s) = 4 BY <1>13, Concatenation DEF StepName
  <2>2. /\ s[1] = "Open" /\ s[2] = "Resolve" /\ s[3] = "WriteRef" /\ s[4] = "Close"
    BY <1>13
  <2>3. \A i, j \in DOMAIN s : i < j => ~Undoes(s[i], s[j]) BY <2>1, <2>2 DEF Undoes
  <2>4. \A i \in DOMAIN s : s[i] = "InitTree" => i + 2 \in DOMAIN s /\ s[i + 1] = "Stamp"
    BY <2>1, <2>2
  <2>5. \A j \in DOMAIN s : s[j] # "MoveHead" BY <2>1, <2>2
  <2>6. Len(s) # 0 /\ s[Len(s)] = "Close"
    <3>1. s[4] = "Close" BY <2>2
    <3>2. s[Len(s)] = "Close" BY <2>1, <3>1
    <3>3. Len(s) # 0 BY <2>1
    <3> QED BY <3>2, <3>3
  <2>7. IsPlan(s) BY <2>1, <2>3, <2>4, <2>5, <2>6, PlanWithoutMoveHead
  <2> QED BY <2>1, <2>2, <2>7 DEF Fresh, After
<1>14. ASSUME NEW s, s = <<"Open">> \o <<"DeleteRef">> \o <<"Close">>
      PROVE  Fresh(s)
  <2>1. s \in Seq(StepName) /\ Len(s) = 3 BY <1>14, Concatenation DEF StepName
  <2>2. /\ s[1] = "Open" /\ s[2] = "DeleteRef" /\ s[3] = "Close"
    BY <1>14
  <2>3. \A i, j \in DOMAIN s : i < j => ~Undoes(s[i], s[j]) BY <2>1, <2>2 DEF Undoes
  <2>4. \A i \in DOMAIN s : s[i] = "InitTree" => i + 2 \in DOMAIN s /\ s[i + 1] = "Stamp"
    BY <2>1, <2>2
  <2>5. \A j \in DOMAIN s : s[j] # "MoveHead" BY <2>1, <2>2
  <2>6. Len(s) # 0 /\ s[Len(s)] = "Close"
    <3>1. s[3] = "Close" BY <2>2
    <3>2. s[Len(s)] = "Close" BY <2>1, <3>1
    <3>3. Len(s) # 0 BY <2>1
    <3> QED BY <3>2, <3>3
  <2>7. IsPlan(s) BY <2>1, <2>3, <2>4, <2>5, <2>6, PlanWithoutMoveHead
  <2> QED BY <2>1, <2>2, <2>7 DEF Fresh, After
<1>15. ASSUME NEW s, s = <<"Open">> \o <<"NotCurrent", "DeleteRef">> \o <<"Close">>
      PROVE  Fresh(s)
  <2>1. s \in Seq(StepName) /\ Len(s) = 4 BY <1>15, Concatenation DEF StepName
  <2>2. /\ s[1] = "Open" /\ s[2] = "NotCurrent" /\ s[3] = "DeleteRef" /\ s[4] = "Close"
    BY <1>15
  <2>3. \A i, j \in DOMAIN s : i < j => ~Undoes(s[i], s[j]) BY <2>1, <2>2 DEF Undoes
  <2>4. \A i \in DOMAIN s : s[i] = "InitTree" => i + 2 \in DOMAIN s /\ s[i + 1] = "Stamp"
    BY <2>1, <2>2
  <2>5. \A j \in DOMAIN s : s[j] # "MoveHead" BY <2>1, <2>2
  <2>6. Len(s) # 0 /\ s[Len(s)] = "Close"
    <3>1. s[4] = "Close" BY <2>2
    <3>2. s[Len(s)] = "Close" BY <2>1, <3>1
    <3>3. Len(s) # 0 BY <2>1
    <3> QED BY <3>2, <3>3
  <2>7. IsPlan(s) BY <2>1, <2>3, <2>4, <2>5, <2>6, PlanWithoutMoveHead
  <2> QED BY <2>1, <2>2, <2>7 DEF Fresh, After
<1>16. ASSUME NEW s, s = <<"Open">> \o AddBranch \o <<"Close">>
      PROVE  Fresh(s)
  <2>1. s \in Seq(StepName) /\ Len(s) = 5 BY <1>16, Concatenation DEF StepName
  <2>2. /\ s[1] = "Open" /\ s[2] = "Resolve" /\ s[3] = "CheckNew" /\ s[4] = "WriteRef"
        /\ s[5] = "Close"
    BY <1>16
  <2>3. \A i, j \in DOMAIN s : i < j => ~Undoes(s[i], s[j]) BY <2>1, <2>2 DEF Undoes
  <2>4. \A i \in DOMAIN s : s[i] = "InitTree" => i + 2 \in DOMAIN s /\ s[i + 1] = "Stamp"
    BY <2>1, <2>2
  <2>5. \A j \in DOMAIN s : s[j] # "MoveHead" BY <2>1, <2>2
  <2>6. Len(s) # 0 /\ s[Len(s)] = "Close"
    <3>1. s[5] = "Close" BY <2>2
    <3>2. s[Len(s)] = "Close" BY <2>1, <3>1
    <3>3. Len(s) # 0 BY <2>1
    <3> QED BY <3>2, <3>3
  <2>7. IsPlan(s) BY <2>1, <2>3, <2>4, <2>5, <2>6, PlanWithoutMoveHead
  <2> QED BY <2>1, <2>2, <2>7 DEF Fresh, After
<1>17. ASSUME NEW s, s = <<"Open">> \o AddBranch \o <<"SwitchHead", "SetBase">> \o
                       CheckoutFiles \o <<"Close">>
      PROVE  Fresh(s)
  <2>1. s \in Seq(StepName) /\ Len(s) = 12 BY <1>17, Concatenation DEF StepName
  <2>2. /\ s[1] = "Open" /\ s[2] = "Resolve" /\ s[3] = "CheckNew" /\ s[4] = "WriteRef"
        /\ s[5] = "SwitchHead" /\ s[6] = "SetBase" /\ s[7] = "LockEx" /\ s[8] = "ReadIndex"
        /\ s[9] = "Checkout" /\ s[10] = "Sync" /\ s[11] = "LockSh" /\ s[12] = "Close"
    BY <1>17
  <2>3. \A i, j \in DOMAIN s : i < j => ~Undoes(s[i], s[j]) BY <2>1, <2>2 DEF Undoes
  <2>4. \A i \in DOMAIN s : s[i] = "InitTree" => i + 2 \in DOMAIN s /\ s[i + 1] = "Stamp"
    BY <2>1, <2>2
  <2>5. \A j \in DOMAIN s : s[j] # "MoveHead" BY <2>1, <2>2
  <2>6. Len(s) # 0 /\ s[Len(s)] = "Close"
    <3>1. s[12] = "Close" BY <2>2
    <3>2. s[Len(s)] = "Close" BY <2>1, <3>1
    <3>3. Len(s) # 0 BY <2>1
    <3> QED BY <3>2, <3>3
  <2>7. IsPlan(s) BY <2>1, <2>3, <2>4, <2>5, <2>6, PlanWithoutMoveHead
  <2> QED BY <2>1, <2>2, <2>7 DEF Fresh, After
<1>18. ASSUME NEW s, s = <<"Open">> \o Locked(<<"Schedule">>) \o <<"Close">>
      PROVE  Fresh(s)
  <2>1. s \in Seq(StepName) /\ Len(s) = 7 BY <1>18, Concatenation DEF StepName
  <2>2. /\ s[1] = "Open" /\ s[2] = "LockEx" /\ s[3] = "ReadIndex" /\ s[4] = "Schedule"
        /\ s[5] = "Sync" /\ s[6] = "LockSh" /\ s[7] = "Close"
    BY <1>18
  <2>3. \A i, j \in DOMAIN s : i < j => ~Undoes(s[i], s[j]) BY <2>1, <2>2 DEF Undoes
  <2>4. \A i \in DOMAIN s : s[i] = "InitTree" => i + 2 \in DOMAIN s /\ s[i + 1] = "Stamp"
    BY <2>1, <2>2
  <2>5. \A j \in DOMAIN s : s[j] # "MoveHead" BY <2>1, <2>2
  <2>6. Len(s) # 0 /\ s[Len(s)] = "Close"
    <3>1. s[7] = "Close" BY <2>2
    <3>2. s[Len(s)] = "Close" BY <2>1, <3>1
    <3>3. Len(s) # 0 BY <2>1
    <3> QED BY <3>2, <3>3
  <2>7. IsPlan(s) BY <2>1, <2>3, <2>4, <2>5, <2>6, PlanWithoutMoveHead
  <2> QED BY <2>1, <2>2, <2>7 DEF Fresh, After
<1>19. ASSUME NEW s, s = <<"Open">> \o Locked(<<"Unschedule">>) \o <<"Close">>
      PROVE  Fresh(s)
  <2>1. s \in Seq(StepName) /\ Len(s) = 7 BY <1>19, Concatenation DEF StepName
  <2>2. /\ s[1] = "Open" /\ s[2] = "LockEx" /\ s[3] = "ReadIndex" /\ s[4] = "Unschedule"
        /\ s[5] = "Sync" /\ s[6] = "LockSh" /\ s[7] = "Close"
    BY <1>19
  <2>3. \A i, j \in DOMAIN s : i < j => ~Undoes(s[i], s[j]) BY <2>1, <2>2 DEF Undoes
  <2>4. \A i \in DOMAIN s : s[i] = "InitTree" => i + 2 \in DOMAIN s /\ s[i + 1] = "Stamp"
    BY <2>1, <2>2
  <2>5. \A j \in DOMAIN s : s[j] # "MoveHead" BY <2>1, <2>2
  <2>6. Len(s) # 0 /\ s[Len(s)] = "Close"
    <3>1. s[7] = "Close" BY <2>2
    <3>2. s[Len(s)] = "Close" BY <2>1, <3>1
    <3>3. Len(s) # 0 BY <2>1
    <3> QED BY <3>2, <3>3
  <2>7. IsPlan(s) BY <2>1, <2>3, <2>4, <2>5, <2>6, PlanWithoutMoveHead
  <2> QED BY <2>1, <2>2, <2>7 DEF Fresh, After
<1>20. ASSUME NEW s, s = <<"Open", "Read">> \o Locked(<<"MergeOk", "Schedule">>) \o
                       <<"Close">>
      PROVE  Fresh(s)
  <2>1. s \in Seq(StepName) /\ Len(s) = 9 BY <1>20, Concatenation DEF StepName
  <2>2. /\ s[1] = "Open" /\ s[2] = "Read" /\ s[3] = "LockEx" /\ s[4] = "ReadIndex"
        /\ s[5] = "MergeOk" /\ s[6] = "Schedule" /\ s[7] = "Sync" /\ s[8] = "LockSh"
        /\ s[9] = "Close"
    BY <1>20
  <2>3. \A i, j \in DOMAIN s : i < j => ~Undoes(s[i], s[j]) BY <2>1, <2>2 DEF Undoes
  <2>4. \A i \in DOMAIN s : s[i] = "InitTree" => i + 2 \in DOMAIN s /\ s[i + 1] = "Stamp"
    BY <2>1, <2>2
  <2>5. \A j \in DOMAIN s : s[j] # "MoveHead" BY <2>1, <2>2
  <2>6. Len(s) # 0 /\ s[Len(s)] = "Close"
    <3>1. s[9] = "Close" BY <2>2
    <3>2. s[Len(s)] = "Close" BY <2>1, <3>1
    <3>3. Len(s) # 0 BY <2>1
    <3> QED BY <3>2, <3>3
  <2>7. IsPlan(s) BY <2>1, <2>3, <2>4, <2>5, <2>6, PlanWithoutMoveHead
  <2> QED BY <2>1, <2>2, <2>7 DEF Fresh, After
<1>21. ASSUME NEW s, s = <<"Open", "LockEx", "ResolveHead", "ReadIndex", "Collect",
                       "LockHead", "WriteHead", "SetBase", "UnlockRefs", "AfterCommit",
                       "Sync", "LockSh">> \o <<"Close">>
      PROVE  Fresh(s)
  <2>1. s \in Seq(StepName) /\ Len(s) = 13 BY <1>21, Concatenation DEF StepName
  <2>2. /\ s[1] = "Open" /\ s[2] = "LockEx" /\ s[3] = "ResolveHead" /\ s[4] = "ReadIndex"
        /\ s[5] = "Collect" /\ s[6] = "LockHead" /\ s[7] = "WriteHead" /\ s[8] = "SetBase"
        /\ s[9] = "UnlockRefs" /\ s[10] = "AfterCommit" /\ s[11] = "Sync" /\ s[12] = "LockSh"
        /\ s[13] = "Close"
    BY <1>21
  <2>3. \A i, j \in DOMAIN s : i < j => ~Undoes(s[i], s[j]) BY <2>1, <2>2 DEF Undoes
  <2>4. \A i \in DOMAIN s : s[i] = "InitTree" => i + 2 \in DOMAIN s /\ s[i + 1] = "Stamp"
    BY <2>1, <2>2
  <2>5. \A j \in DOMAIN s : s[j] # "MoveHead" BY <2>1, <2>2
  <2>6. Len(s) # 0 /\ s[Len(s)] = "Close"
    <3>1. s[13] = "Close" BY <2>2
    <3>2. s[Len(s)] = "Close" BY <2>1, <3>1
    <3>3. Len(s) # 0 BY <2>1
    <3> QED BY <3>2, <3>3
  <2>7. IsPlan(s) BY <2>1, <2>3, <2>4, <2>5, <2>6, PlanWithoutMoveHead
  <2> QED BY <2>1, <2>2, <2>7 DEF Fresh, After
<1>22. ASSUME NEW s, s = <<"Open", "LockEx", "NotCurrent", "ReadIndex", "RebaseOk",
                       "LockArg", "LockHead", "ResolveBoth", "Forwards", "SetBase",
                       "Checkout", "MoveHead", "Sync", "UnlockRefs", "LockSh">> \o
                       <<"Close">>
      PROVE  Fresh(s)
  <2>1. s \in Seq(StepName) /\ Len(s) = 16 BY <1>22, Concatenation DEF StepName
  <2>2. /\ s[1] = "Open" /\ s[2] = "LockEx" /\ s[3] = "NotCurrent" /\ s[4] = "ReadIndex"
        /\ s[5] = "RebaseOk" /\ s[6] = "LockArg" /\ s[7] = "LockHead" /\ s[8] = "ResolveBoth"
        /\ s[9] = "Forwards" /\ s[10] = "SetBase" /\ s[11] = "Checkout" /\ s[12] = "MoveHead"
        /\ s[13] = "Sync" /\ s[14] = "UnlockRefs" /\ s[15] = "LockSh" /\ s[16] = "Close"
    BY <1>22
  <2>3. \A i, j \in DOMAIN s : i < j => ~Undoes(s[i], s[j]) BY <2>1, <2>2 DEF Undoes
  <2>4. \A i \in DOMAIN s : s[i] = "InitTree" => i + 2 \in DOMAIN s /\ s[i + 1] = "Stamp"
    BY <2>1, <2>2
  <2>5. \A j \in DOMAIN s : s[j] = "MoveHead" => j = 12 BY <2>1, <2>2
  <2>6. \A i \in DOMAIN s : i > 8 => s[i] \notin ReadsAnew BY <2>1, <2>2
  <2>7. \A i, j \in DOMAIN s : i < j /\ s[i] \in ReadsAnew /\ s[j] = "MoveHead"
          => 9 \in (i + 1)..(j - 1)
    BY <2>1, <2>5, <2>6
  <2>8. IsPlan(s)
    <3>1. s[9] = "Forwards" /\ s[16] = "Close" BY <2>2
    <3>2. s[Len(s)] = "Close" BY <2>1, <3>1
    <3>3. Len(s) # 0 BY <2>1
    <3> QED BY <2>1, <2>3, <2>4, <2>7, <3>1, <3>2, <3>3, EmptySeq DEF IsPlan
  <2> QED BY <2>1, <2>2, <2>8 DEF Fresh, After
<1>23. ASSUME NEW s, s = <<"Open">> \o <<"Close">>
      PROVE  Fresh(s)
  <2>1. s \in Seq(StepName) /\ Len(s) = 2 BY <1>23, Concatenation DEF StepName
  <2>2. /\ s[1] = "Open" /\ s[2] = "Close"
    BY <1>23
  <2>3. \A i, j \in DOMAIN s : i < j => ~Undoes(s[i], s[j]) BY <2>1, <2>2 DEF Undoes
  <2>4. \A i \in DOMAIN s : s[i] = "InitTree" => i + 2 \in DOMAIN s /\ s[i + 1] = "Stamp"
    BY <2>1, <2>2
  <2>5. \A j \in DOMAIN s : s[j] # "MoveHead" BY <2>1, <2>2
  <2>6. Len(s) # 0 /\ s[Len(s)] = "Close"
    <3>1. s[2] = "Close" BY <2>2
    <3>2. s[Len(s)] = "Close" BY <2>1, <3>1
    <3>3. Len(s) # 0 BY <2>1
    <3> QED BY <3>2, <3>3
  <2>7. IsPlan(s) BY <2>1, <2>3, <2>4, <2>5, <2>6, PlanWithoutMoveHead
  <2> QED BY <2>1, <2>2, <2>7 DEF Fresh, After
<1>24. ASSUME NEW s, s = <<"Open", "LockSh", "ReadIndex", "Unlock">> \o <<"Close">>
      PROVE  Fresh(s)
  <2>1. s \in Seq(StepName) /\ Len(s) = 5 BY <1>24, Concatenation DEF StepName
  <2>2. /\ s[1] = "Open" /\ s[2] = "LockSh" /\ s[3] = "ReadIndex" /\ s[4] = "Unlock"
        /\ s[5] = "Close"
    BY <1>24
  <2>3. \A i, j \in DOMAIN s : i < j => ~Undoes(s[i], s[j]) BY <2>1, <2>2 DEF Undoes
  <2>4. \A i \in DOMAIN s : s[i] = "InitTree" => i + 2 \in DOMAIN s /\ s[i + 1] = "Stamp"
    BY <2>1, <2>2
  <2>5. \A j \in DOMAIN s : s[j] # "MoveHead" BY <2>1, <2>2
  <2>6. Len(s) # 0 /\ s[Len(s)] = "Close"
    <3>1. s[5] = "Close" BY <2>2
    <3>2. s[Len(s)] = "Close" BY <2>1, <3>1
    <3>3. Len(s) # 0 BY <2>1
    <3> QED BY <3>2, <3>3
  <2>7. IsPlan(s) BY <2>1, <2>3, <2>4, <2>5, <2>6, PlanWithoutMoveHead
  <2> QED BY <2>1, <2>2, <2>7 DEF Fresh, After
<1> DEFINE Ok(c) == \A program \in c : Fresh(program \o <<"Close">>)
<1>30. Ok(Import) BY <1>1 DEF Import
<1>31. Ok(CheckoutCmd) BY <1>2, <1>3 DEF CheckoutCmd
<1>32. Ok(Update) BY <1>4, <1>5 DEF Update
<1>33. Ok(Log) /\ Ok(Diff) /\ Ok(Blame) /\ Ok(Tree) /\ Ok(Tag) /\ Ok(Cat)
  BY <1>6, <1>11 DEF Log, Diff, Blame, Tree, Tag, Cat, InEither
<1>34. Ok(Status) BY <1>12 DEF Status
<1>35. Ok(Ref) BY <1>6, <1>7, <1>8, <1>11, <1>13, <1>14 DEF Ref, InEither
<1>36. Ok(BranchCmd)
  BY <1>6, <1>9, <1>10, <1>11, <1>15, <1>16, <1>17 DEF BranchCmd, InEither
<1>37. Ok(Add) /\ Ok(Remove) BY <1>18 DEF Add, Remove
<1>38. Ok(Revert) /\ Ok(Unstage) BY <1>19 DEF Revert, Unstage
<1>39. Ok(Stage) BY <1>12, <1>18 DEF Stage
<1>40. Ok(Pick) BY <1>20 DEF Pick
<1>41. Ok(CommitCmd) BY <1>21 DEF CommitCmd
<1>42. Ok(Integrate) BY <1>22 DEF Integrate
<1>43. Ok(Info) BY <1>23, <1>24 DEF Info
<1> QED
  BY <1>30, <1>31, <1>32, <1>33, <1>34, <1>35, <1>36, <1>37, <1>38, <1>39, <1>40, <1>41,
     <1>42, <1>43 DEF Programs

-----------------------------------------------------------------------------
(* A process that runs no command.                                            *)
LEMMA IdleIs == Idle \in ProcTypes /\ Idle.todo = <<>> /\ Idle.base = 0 /\ Idle.target = 0
  BY DEF Idle, ProcTypes, NoIndex, IndexTypes

(* What a step does to the process that takes it.                             *)
LEMMA GoesIs ==
    ASSUME proc \in [Proc -> ProcTypes], NEW p \in Proc, NEW rec \in ProcTypes, Goes(p, rec),
           rec.todo # <<>>
    PROVE  /\ proc' \in [Proc -> ProcTypes]
           /\ proc'[p].todo = Tail(rec.todo) /\ proc'[p].base = rec.base
           /\ proc'[p].head = rec.head /\ proc'[p].arg = rec.arg
           /\ proc'[p].target = rec.target /\ proc'[p].idx = rec.idx
           /\ proc'[p].orig = rec.orig /\ proc'[p].tip = rec.tip
           /\ \A q \in Proc \ {p} : proc'[q] = proc[q]
<1>1. proc' = [proc EXCEPT ![p] = [rec EXCEPT !.todo = Tail(rec.todo)]] BY DEF Goes
<1>2. Tail(rec.todo) \in Seq(StepName) BY HeadTailProperties DEF ProcTypes
<1>3. [rec EXCEPT !.todo = Tail(rec.todo)] \in ProcTypes BY <1>2 DEF ProcTypes
<1>4. proc'[p] = [rec EXCEPT !.todo = Tail(rec.todo)] BY <1>1
<1>5. proc' \in [Proc -> ProcTypes] /\ \A q \in Proc \ {p} : proc'[q] = proc[q] BY <1>1, <1>3
<1>6. /\ proc'[p].todo = Tail(rec.todo) /\ proc'[p].base = rec.base
      /\ proc'[p].head = rec.head /\ proc'[p].arg = rec.arg
      /\ proc'[p].target = rec.target /\ proc'[p].idx = rec.idx
      /\ proc'[p].orig = rec.orig /\ proc'[p].tip = rec.tip
  BY <1>4 DEF ProcTypes
<1> QED BY <1>5, <1>6

(* A process relies on nothing that a step of another one takes away.         *)
LEMMA OthersRely ==
    ASSUME NEW p, Relies(p), proc'[p] = proc[p], flocks'[p] = flocks[p], exlock' = exlock,
           HasIndex(p) => HasIndex(p)', HasHead(p) => HasHead(p)',
           IsForwards(p) => IsForwards(p)', meta.stage # "none" => meta'.stage # "none"
    PROVE  Relies(p)'
  BY DEF Relies, Opened

(* After a step a process relies on what it did before, on what the step      *)
(* provides, and no more on what it takes back.                               *)
LEMMA StepRelies ==
    ASSUME NEW p, Relies(p), IsPlan(proc[p].todo), proc'[p].todo = Tail(proc[p].todo),
           NEW step, At(p, step),
           Opened(p) \/ step = "Open" => Opened(p)' \/ step = "Unlock",
           proc'[p].base # 0 => proc[p].base # 0 \/ step = "Open",
           flocks[p] = "ex" \/ step = "LockEx" => flocks'[p] = "ex" \/ step \in {"LockSh", "Unlock"},
           HasIndex(p) => HasIndex(p)' \/ step \in {"LockSh", "Unlock", "Sync"},
           step = "ReadIndex" => HasIndex(p)' \/ flocks[p] # "ex",
           proc[p].target # 0 \/ step \in Resolves => proc'[p].target # 0,
           proc'[p].arg = proc[p].arg,
           HasHead(p) \/ step = "LockHead" => HasHead(p)' \/ step \in LosesHead,
           IsForwards(p) => \/ IsForwards(p)'
                            \/ step \in ReadsAnew \cup LosesHead,
           step = "Forwards" => IsForwards(p)',
           meta.stage # "none" \/ step = "InitTree" => meta'.stage # "none"
    PROVE  Relies(p)'
<1> DEFINE s == proc[p].todo
           t == Tail(s)
<1>0. s \in Seq(StepName) /\ s # <<>> /\ step = Head(s) BY DEF IsPlan, At
<1>1. \A T, A : After(s, T, A) /\ step \notin A => After(t, T, A) BY <1>0, AfterTail
<1>2. \A T, A : (\A b \in T : Undoes(step, b)) => After(t, T, A) BY <1>0, Undone
<1>3. Opened(p)' \/ After(t, InTree, {"Open"})
  BY <1>1, <1>2 DEF Relies, Undoes
<1>4. proc'[p].base = 0 \/ NoneOf(t, {"Open"})
  BY <1>1, <1>2 DEF Relies, Undoes, NoneOf
<1>5. flocks'[p] = "ex" \/ After(t, IndexWork, {"LockEx"})
  BY <1>1, <1>2 DEF Relies, Undoes
<1>6. HasIndex(p)' \/ After(t, IndexWork, {"ReadIndex"})
  <2>1. CASE step = "ReadIndex" /\ flocks[p] # "ex"
    <3>1. After(t, IndexWork, {"LockEx"}) BY <1>1, <2>1 DEF Relies
    <3>2. \A j \in DOMAIN t : t[j] # "LockEx"
      <4>1. After(t, {"LockEx"}, {}) BY <1>2, <2>1 DEF Undoes
      <4> QED BY <4>1 DEF After
    <3>3. \A i \in DOMAIN t : i \in Nat /\ 1..(i - 1) \subseteq DOMAIN t BY <1>0, HeadTailProperties
    <3>4. \A i \in DOMAIN t : t[i] \notin IndexWork BY <3>1, <3>2, <3>3 DEF After
    <3> QED BY <3>4 DEF After
  <2>2. CASE ~(step = "ReadIndex" /\ flocks[p] # "ex")
    BY <1>1, <1>2, <2>2 DEF Relies, Undoes
  <2> QED BY <2>1, <2>2
<1>7. proc'[p].target # 0 \/ After(t, UsesTarget, Resolves)
  BY <1>1 DEF Relies
<1>8. proc'[p].arg \in Branch \/ NoneOf(t, ArgSteps)
  BY <1>1 DEF Relies, NoneOf
<1>9. HasHead(p)' \/ After(t, HeadLocked, {"LockHead"})
  BY <1>1, <1>2 DEF Relies, Undoes
<1>10. IsForwards(p)' \/ After(t, {"MoveHead"}, {"Forwards"})
  <2>1. CASE step \in ReadsAnew BY <1>0, <2>1, Resolved
  <2>2. CASE step \in LosesHead BY <1>2, <2>2 DEF Undoes, HeadLocked
  <2>3. CASE step \notin ReadsAnew \cup LosesHead
    BY <1>1, <2>3 DEF Relies
  <2> QED BY <2>1, <2>2, <2>3
<1>11. meta'.stage # "none" \/ After(t, {"Stamp"}, {"InitTree"})
  BY <1>1 DEF Relies
<1> HIDE DEF t
<1> QED BY <1>3, <1>4, <1>5, <1>6, <1>7, <1>8, <1>9, <1>10, <1>11 DEF Relies, t

(* What a process relies on at a step is there.                               *)
LEMMA Provided ==
    ASSUME CommandsInv, NEW p \in Proc, NEW step, At(p, step)
    PROVE  /\ Running(p) /\ IsPlan(proc[p].todo) /\ Head(proc[p].todo) = step
           /\ proc[p] \in ProcTypes /\ 0 \notin Commit /\ Relies(p)
           /\ step \in InTree => Opened(p)
           /\ step = "Open" => proc[p].base = 0 /\ flocks[p] = "un"
           /\ step \in IndexWork => HasIndex(p)
           /\ step \in UsesTarget => proc[p].target \in Commit
           /\ step \in ArgSteps => proc[p].arg \in Branch
           /\ step \in HeadLocked => HasHead(p)
           /\ step = "MoveHead" => IsForwards(p)
           /\ step = "Stamp" => meta.stage # "none"
<1>1. Running(p) /\ Head(proc[p].todo) = step BY DEF At
<1>2. IsPlan(proc[p].todo) /\ proc[p] \in ProcTypes BY <1>1 DEF CommandsInv, ProcessesOK
<1>3. \A T, A : After(proc[p].todo, T, A) => step \notin T BY <1>1, <1>2, AfterHead DEF IsPlan
<1>4. Relies(p) /\ 0 \notin Commit BY DEF CommandsInv, HistoryOK, Commit
<1>5. step = "Open" => proc[p].base = 0 BY <1>3, <1>4 DEF Relies, NoneOf
<1>6. step = "Open" => flocks[p] = "un" BY <1>5 DEF CommandsInv, ProcessesOK
<1>7. step \in UsesTarget => proc[p].target \in Commit
  BY <1>3, <1>4 DEF Relies, CommandsInv, ProcessesOK
<1>8. step \in ArgSteps => proc[p].arg \in Branch BY <1>3, <1>4 DEF Relies, NoneOf
<1>9. /\ step \in InTree => Opened(p)
      /\ step \in IndexWork => HasIndex(p)
      /\ step \in HeadLocked => HasHead(p)
      /\ step = "MoveHead" => IsForwards(p)
      /\ step = "Stamp" => meta.stage # "none"
  BY <1>3, <1>4 DEF Relies
<1> QED BY <1>1, <1>2, <1>4, <1>5, <1>6, <1>7, <1>8, <1>9

(* Types, plans and locks of all processes after a step of one.               *)
LEMMA ProcessesStep ==
    ASSUME CommandsInv, NEW p \in Proc, Running(p), Head(proc[p].todo) # "Close",
           proc' \in [Proc -> ProcTypes], proc'[p].todo = Tail(proc[p].todo),
           \A q \in Proc \ {p} : proc'[q] = proc[q] /\ flocks'[q] = flocks[q],
           {proc'[p].base, proc'[p].target} \subseteq {0} \cup Commit', Commit \subseteq Commit',
           exlock' = exlock, flocks' \in [Proc -> {"un", "sh", "ex"}],
           meta.stage = "ready" => meta'.stage = "ready",
           proc'[p].base # 0 => meta'.stage = "ready",
           flocks'[p] # "un" => proc'[p].base # 0
    PROVE  ProcessesOK'
<1>1. IsPlan(proc[p].todo) BY DEF CommandsInv, ProcessesOK
<1>2. IsPlan(proc'[p].todo) BY <1>1, PlanTail
<1>3. proc'[p].todo # <<>> BY <1>2 DEF IsPlan
<1>4. ASSUME NEW q \in Proc
      PROVE  /\ IF Running(q)' THEN IsPlan(proc'[q].todo) ELSE proc'[q] = Idle
             /\ {proc'[q].base, proc'[q].target} \subseteq {0} \cup Commit'
             /\ proc'[q].base # 0 => meta'.stage = "ready"
             /\ flocks'[q] # "un" => proc'[q].base # 0
  <2>1. CASE q = p BY <1>2, <1>3, <2>1 DEF Running
  <2>2. CASE q # p BY <2>2 DEF CommandsInv, ProcessesOK, Running
  <2> QED BY <2>1, <2>2
<1> QED BY <1>4 DEF CommandsInv, ProcessesOK

(* Steps that change the process only.                                        *)
LEMMA QuietInv ==
    ASSUME CommandsInv, NEW p \in Proc, NEW step, At(p, step), NEW rec \in ProcTypes, Goes(p, rec),
           rec.todo = proc[p].todo, rec.base = proc[p].base, rec.head = proc[p].head,
           rec.arg = proc[p].arg, rec.tip = proc[p].tip,
           rec.target = proc[p].target \/ (step \in Resolves /\ rec.target \in Commit),
           rec.orig = proc[p].orig \/ rec.orig = index,
           step \notin {"Close", "Open", "LockEx", "LockSh", "Unlock", "LockHead", "InitTree"} \cup LosesHead,
           step \in Resolves => rec.target \in Commit,
           step = "ReadIndex" => rec.orig = index,
           step = "Forwards" => rec.tip \in hist[rec.target],
           UNCHANGED <<exlock, repo, meta, index, flocks>>
    PROVE  CommandsInv'
<1>0. Running(p) /\ Head(proc[p].todo) = step BY DEF At
<1>1. /\ HistoryOK /\ RefsOK /\ TreeOK /\ ProcessesOK /\ Alone /\ CachedMetaIsCurrent
      /\ \A q \in Proc : Relies(q)
      /\ hist' = hist /\ UNCHANGED refFiles /\ refLock' = refLock /\ exlock' = exlock
      /\ meta' = meta /\ index' = index /\ flocks' = flocks
  BY DEF CommandsInv, repo
<1>2. /\ proc' \in [Proc -> ProcTypes]
      /\ proc'[p].todo = Tail(proc[p].todo) /\ proc'[p].base = proc[p].base
      /\ proc'[p].head = proc[p].head /\ proc'[p].arg = proc[p].arg
      /\ proc'[p].target = rec.target /\ proc'[p].orig = rec.orig
      /\ proc'[p].tip = proc[p].tip
      /\ \A q \in Proc \ {p} : proc'[q] = proc[q]
  BY <1>0, <1>1, GoesIs DEF ProcessesOK, Running
<1>3. IsPlan(proc[p].todo) /\ 0 \notin Commit BY <1>0, <1>1 DEF ProcessesOK, Commit, HistoryOK
<1>4. ProcessesOK'
  BY <1>0, <1>1, <1>2, ProcessesStep DEF ProcessesOK, Commit
<1>5. Relies(p)'
  <2>1. HasIndex(p) \/ (step = "ReadIndex" /\ flocks[p] = "ex") => HasIndex(p)'
    BY <1>1, <1>2 DEF HasIndex
  <2>2. HasHead(p) <=> HasHead(p)' BY <1>1, <1>2 DEF HasHead, refFiles
  <2>3. IsForwards(p) /\ step \notin Resolves => IsForwards(p)'
    BY <1>1, <1>2, <2>2 DEF IsForwards
  <2>4. step = "Forwards" => IsForwards(p)'
    <3>1. step = "Forwards" => HasHead(p) /\ proc[p].target \in Commit
      BY Provided DEF HeadLocked, UsesTarget
    <3>2. step = "Forwards" => rec.target = proc[p].target BY DEF Resolves
    <3> QED BY <1>1, <1>2, <1>3, <2>2, <3>1, <3>2 DEF IsForwards
  <2>5. Opened(p) => Opened(p)' BY <1>1, <1>2 DEF Opened
  <2>6. proc[p].target # 0 \/ step \in Resolves => proc'[p].target # 0 BY <1>2, <1>3
  <2>7. step \in Resolves => step \in ReadsAnew BY DEF ReadsAnew
  <2> QED BY <1>0, <1>1, <1>2, <1>3, <2>1, <2>2, <2>3, <2>4, <2>5, <2>6, <2>7, StepRelies
<1>6. ASSUME NEW q \in Proc \ {p} PROVE Relies(q)'
  BY <1>1, <1>2, OthersRely DEF HasIndex, HasHead, IsForwards, refFiles
<1>7. HistoryOK' /\ RefsOK' /\ TreeOK' /\ Alone'
  BY <1>1 DEF HistoryOK, RefsOK, TreeOK, Alone, Commit, refFiles
<1>8. CachedMetaIsCurrent' BY <1>1, <1>2 DEF CachedMetaIsCurrent
<1> QED BY <1>4, <1>5, <1>6, <1>7, <1>8 DEF CommandsInv

-----------------------------------------------------------------------------
(* The branches and the work tree that the model starts with.                 *)
LEMMA CommandsInitInv == Init => CommandsInv
<1> SUFFICES ASSUME Init PROVE CommandsInv
  OBVIOUS
<1>1. Commit = {1, 2} /\ hist \in Seq(SUBSET Nat) /\ hist[1] = {1} /\ hist[2] = {1, 2}
  <2>1. {1} \in SUBSET Nat /\ {1, 2} \in SUBSET Nat OBVIOUS
  <2>2. hist = <<{1}, {1, 2}>> BY DEF Init
  <2>3. hist \in Seq(SUBSET Nat) BY <2>1, <2>2
  <2>4. Len(hist) = 2 /\ hist[1] = {1} /\ hist[2] = {1, 2} BY <2>2
  <2> QED BY <2>3, <2>4 DEF Commit
<1>2. HistoryOK BY <1>1 DEF HistoryOK
<1>3. RefsOK
  <2>1. PICK b \in Branch, c \in Branch : refs = [x \in {b, c} |-> IF x = b THEN 1 ELSE 2]
    BY DEF Init
  <2>2. refs \in [{b, c} -> Commit] BY <1>1, <2>1
  <2>3. refLock \in [LockFile -> Proc \cup {Nobody, Exited}] BY DEF Init
  <2>4. loose \subseteq DOMAIN refs BY DEF Init
  <2>5. lines \in [DOMAIN refs \ loose -> Commit] /\ DOMAIN refs \ loose \in SUBSET Branch
    BY <2>2 DEF Init
  <2> QED BY <2>2, <2>3, <2>4, <2>5 DEF RefsOK
<1>4. TreeOK
  <2>1. CASE /\ \E b \in DOMAIN refs : meta = [stage |-> "ready", base |-> refs[b], head |-> b]
             /\ \E b \in DOMAIN refs, sched \in BOOLEAN : index = [at |-> {refs[b]}, sched |-> sched]
    <3>1. PICK b \in DOMAIN refs : meta = [stage |-> "ready", base |-> refs[b], head |-> b] BY <2>1
    <3>2. \A x \in DOMAIN refs : x \in Branch /\ refs[x] \in Commit BY <1>3 DEF RefsOK
    <3>3. index \in IndexTypes BY <1>1, <2>1, <3>2 DEF IndexTypes
    <3>4. refs[b] \in Nat /\ b \in Branch /\ refs[b] \in Commit BY <1>1, <3>2
    <3>5. meta \in MetaTypes BY <3>1, <3>4 DEF MetaTypes
    <3>6. meta.base = refs[b] BY <3>1
    <3> QED BY <3>3, <3>4, <3>5, <3>6 DEF TreeOK
  <2>2. CASE meta = [stage |-> "none", base |-> 0, head |-> ""] /\ index = NoIndex
    BY <2>2 DEF TreeOK, MetaTypes, IndexTypes, NoIndex
  <2> QED BY <2>1, <2>2 DEF Init
<1>5. Idle \in ProcTypes BY DEF Idle, ProcTypes, NoIndex, IndexTypes
<1>6. ProcessesOK
  <2>1. \A p \in Proc : proc[p] = Idle /\ flocks[p] = "un" BY DEF Init
  <2>2. Idle.todo = <<>> /\ Idle.base = 0 /\ Idle.target = 0 BY DEF Idle
  <2>3. exlock \in BOOLEAN BY CommandsAssumption DEF Init
  <2>4. flocks \in [Proc -> {"un", "sh", "ex"}] /\ proc \in [Proc -> ProcTypes] BY <1>5 DEF Init
  <2> QED BY <2>1, <2>2, <2>3, <2>4 DEF ProcessesOK, Running
<1>7. \A p \in Proc : Relies(p)
  <2>1. \A p \in Proc : proc[p].todo = <<>> BY DEF Init, Idle
  <2>2. \A T, A : After(<<>>, T, A) BY DEF After
  <2> QED BY <2>1, <2>2 DEF Relies, NoneOf
<1>8. Alone /\ CachedMetaIsCurrent BY DEF Init, Alone, CachedMetaIsCurrent
<1> QED BY <1>2, <1>3, <1>4, <1>6, <1>7, <1>8 DEF CommandsInv

(* A process that ends takes nothing from the others: its lock on the work    *)
(* tree, and perhaps the lock files of the branches it has locked.            *)
LEMMA ExitInv ==
    ASSUME CommandsInv, NEW p \in Proc, Exits(p),
           refLock' \in [LockFile -> Proc \cup {Nobody, Exited}],
           \A b \in LockFile : refLock[b] # p => refLock'[b] = refLock[b],
           UNCHANGED <<exlock, hist, refFiles, meta, index>>
    PROVE  CommandsInv'
<1>1. /\ HistoryOK /\ RefsOK /\ TreeOK /\ ProcessesOK /\ Alone /\ CachedMetaIsCurrent
      /\ \A q \in Proc : Relies(q)
  BY DEF CommandsInv
<1>2. /\ proc' = [proc EXCEPT ![p] = Idle] /\ flocks' = [flocks EXCEPT ![p] = "un"] BY DEF Exits
<1>3. Idle \in ProcTypes /\ Idle.todo = <<>> /\ Idle.base = 0 /\ Idle.target = 0 BY IdleIs
<1>4. /\ proc' \in [Proc -> ProcTypes] /\ flocks' \in [Proc -> {"un", "sh", "ex"}]
      /\ proc'[p] = Idle /\ flocks'[p] = "un"
      /\ \A q \in Proc \ {p} : proc'[q] = proc[q] /\ flocks'[q] = flocks[q]
  BY <1>1, <1>2, <1>3 DEF ProcessesOK
<1>5. ProcessesOK' BY <1>1, <1>3, <1>4 DEF ProcessesOK, Running, Commit
<1>6. Relies(p)'
  <2>1. \A T, A : After(<<>>, T, A) BY DEF After
  <2> QED BY <1>3, <1>4, <2>1 DEF Relies, NoneOf
<1>7. ASSUME NEW q \in Proc \ {p} PROVE Relies(q)'
  <2>1. HasHead(q) => HasHead(q)'
    <3>1. PackedRefs \in LockFile /\ \A b \in Branch : b \in LockFile BY DEF LockFile
    <3> QED BY <1>4, <3>1 DEF HasHead, refFiles
  <2>2. IsForwards(q) => IsForwards(q)' BY <1>4, <2>1 DEF IsForwards
  <2> QED BY <1>1, <1>4, <2>1, <2>2, OthersRely DEF HasIndex
<1>8. HistoryOK' /\ RefsOK' /\ TreeOK' /\ Alone'
  <2>1. Commit' = Commit /\ refs' = refs /\ lines' = lines /\ loose' = loose BY DEF Commit, refFiles
  <2>2. HistoryOK' /\ TreeOK' BY <1>1, <2>1 DEF HistoryOK, TreeOK
  <2>3. RefsOK' BY <1>1, <2>1 DEF RefsOK
  <2>4. Alone' BY <1>1, <1>4 DEF Alone
  <2> QED BY <2>2, <2>3, <2>4
<1>9. CachedMetaIsCurrent' BY <1>1, <1>4 DEF CachedMetaIsCurrent
<1> QED BY <1>5, <1>6, <1>7, <1>8, <1>9 DEF CommandsInv
-----------------------------------------------------------------------------
(* A step of a command, whatever it changes: what has to be shown of it.      *)
LEMMA OneStep ==
    ASSUME CommandsInv, NEW p \in Proc, NEW step, At(p, step), step # "Close",
           proc' \in [Proc -> ProcTypes], proc'[p].todo = Tail(proc[p].todo),
           proc'[p].arg = proc[p].arg, exlock' = exlock,
           flocks' \in [Proc -> {"un", "sh", "ex"}],
           \A q \in Proc \ {p} : proc'[q] = proc[q] /\ flocks'[q] = flocks[q],
           {proc'[p].base, proc'[p].target} \subseteq {0} \cup Commit', Commit \subseteq Commit',
           meta.stage = "ready" => meta'.stage = "ready",
           meta.stage # "none" \/ step = "InitTree" => meta'.stage # "none",
           proc'[p].base # 0 => meta'.stage = "ready",
           flocks'[p] # "un" => proc'[p].base # 0,
           HistoryOK', RefsOK', TreeOK', Alone', CachedMetaIsCurrent',
           \A q \in Proc \ {p} : /\ HasIndex(q) => HasIndex(q)'
                                 /\ HasHead(q) => HasHead(q)'
                                 /\ IsForwards(q) => IsForwards(q)',
           Opened(p) \/ step = "Open" => Opened(p)' \/ step = "Unlock",
           proc'[p].base # 0 => proc[p].base # 0 \/ step = "Open",
           flocks[p] = "ex" \/ step = "LockEx" => flocks'[p] = "ex" \/ step \in {"LockSh", "Unlock"},
           HasIndex(p) => HasIndex(p)' \/ step \in {"LockSh", "Unlock", "Sync"},
           step # "ReadIndex", step # "Forwards",
           proc[p].target # 0 \/ step \in Resolves => proc'[p].target # 0,
           HasHead(p) \/ step = "LockHead" => HasHead(p)' \/ step \in LosesHead,
           IsForwards(p) => \/ IsForwards(p)'
                            \/ step \in ReadsAnew \cup LosesHead
    PROVE  CommandsInv'
<1>1. Running(p) /\ Head(proc[p].todo) = step BY DEF At
<1>2. IsPlan(proc[p].todo) /\ \A q \in Proc : Relies(q) BY <1>1 DEF CommandsInv, ProcessesOK
<1>3. ProcessesOK' BY <1>1, ProcessesStep
<1>4. Relies(p)' BY <1>2, StepRelies
<1>5. ASSUME NEW q \in Proc \ {p} PROVE Relies(q)' BY <1>2, OthersRely
<1> QED BY <1>3, <1>4, <1>5 DEF CommandsInv

(* Opening the work tree, and the changes of the lock on it.                  *)
LEMMA LockInv ==
    ASSUME CommandsInv, NEW p \in Proc, Open(p) \/ LockEx(p) \/ LockSh(p) \/ Unlock(p)
    PROVE  CommandsInv'
<1>1. PICK step \in {"Open", "LockEx", "LockSh", "Unlock"} : At(p, step)
  BY DEF Open, LockEx, LockSh, Unlock
<1>2. /\ HistoryOK /\ RefsOK /\ TreeOK /\ ProcessesOK /\ Alone /\ CachedMetaIsCurrent
      /\ Running(p) /\ Head(proc[p].todo) = step /\ proc[p] \in ProcTypes
      /\ step # "Open" => Opened(p)
      /\ step = "Open" => proc[p].base = 0 /\ flocks[p] = "un"
      /\ 0 \notin Commit
  BY <1>1, Provided DEF CommandsInv, InTree
<1>3. /\ hist' = hist /\ refs' = refs /\ loose' = loose /\ lines' = lines
      /\ refLock' = refLock /\ exlock' = exlock /\ meta' = meta /\ index' = index
  BY DEF Open, LockEx, LockSh, Unlock, repo, refFiles
<1>4. step = "Open" => /\ meta.stage = "ready"
                       /\ exlock => MayLock(p, "ex")
                       /\ flocks' = [flocks EXCEPT ![p] = IF exlock THEN "ex" ELSE @]
                       /\ Goes(p, [proc[p] EXCEPT !.base = meta.base, !.head = meta.head])
  BY <1>1 DEF Open, LockEx, LockSh, Unlock, At
<1>5. step # "Open" => /\ Goes(p, proc[p])
                       /\ flocks' = [flocks EXCEPT ![p] =
                            IF step = "LockEx" THEN "ex" ELSE IF step = "LockSh" THEN "sh" ELSE "un"]
                       /\ step = "LockEx" => MayLock(p, "ex")
                       /\ step = "LockSh" => MayLock(p, "sh")
  BY <1>1 DEF Open, LockEx, LockSh, Unlock, At, Proceed
<1>6. [proc[p] EXCEPT !.base = meta.base, !.head = meta.head] \in ProcTypes
  BY <1>2 DEF TreeOK, MetaTypes, ProcTypes
<1>7. /\ proc' \in [Proc -> ProcTypes] /\ proc'[p].todo = Tail(proc[p].todo)
      /\ proc'[p].arg = proc[p].arg /\ proc'[p].target = proc[p].target
      /\ proc'[p].orig = proc[p].orig /\ proc'[p].tip = proc[p].tip
      /\ \A q \in Proc \ {p} : proc'[q] = proc[q]
      /\ step = "Open" => proc'[p].base = meta.base /\ proc'[p].head = meta.head
      /\ step # "Open" => proc'[p].base = proc[p].base /\ proc'[p].head = proc[p].head
  <2>1. CASE step = "Open"
    <3> DEFINE rec == [proc[p] EXCEPT !.base = meta.base, !.head = meta.head]
    <3>1. /\ rec.todo = proc[p].todo /\ rec.arg = proc[p].arg /\ rec.target = proc[p].target
          /\ rec.orig = proc[p].orig /\ rec.base = meta.base /\ rec.head = meta.head
          /\ rec.tip = proc[p].tip
      BY <1>2 DEF ProcTypes
    <3>2. rec \in ProcTypes /\ Goes(p, rec) /\ rec.todo # <<>> BY <1>2, <1>4, <1>6, <2>1, <3>1 DEF Running
    <3> HIDE DEF rec
    <3> QED BY <1>2, <2>1, <3>1, <3>2, GoesIs DEF ProcessesOK
  <2>2. CASE step # "Open"
    BY <1>2, <1>5, <2>2, GoesIs DEF ProcessesOK, Running
  <2> QED BY <2>1, <2>2
<1>8. /\ flocks' \in [Proc -> {"un", "sh", "ex"}]
      /\ \A q \in Proc \ {p} : flocks'[q] = flocks[q]
      /\ step = "Open" => flocks'[p] = IF exlock THEN "ex" ELSE "un"
      /\ step = "LockEx" => flocks'[p] = "ex"
      /\ step = "LockSh" => flocks'[p] = "sh"
      /\ step = "Unlock" => flocks'[p] = "un"
  BY <1>1, <1>2, <1>4, <1>5 DEF ProcessesOK
<1>9. Commit' = Commit BY <1>3 DEF Commit
<1>10. HistoryOK' /\ RefsOK' /\ TreeOK' BY <1>2, <1>3, <1>9 DEF HistoryOK, RefsOK, TreeOK
<1>11. {proc'[p].base, proc'[p].target} \subseteq {0} \cup Commit'
  BY <1>2, <1>4, <1>7, <1>9 DEF TreeOK, ProcessesOK
<1>12. meta.base # 0 \/ step # "Open" BY <1>2, <1>4 DEF TreeOK
<1>13. Alone'
  <2> SUFFICES ASSUME NEW x \in Proc, NEW y \in Proc, x # y, flocks'[x] # "un",
                      exlock \/ flocks'[x] = "ex"
               PROVE  flocks'[y] = "un"
    BY <1>3 DEF Alone
  <2>1. CASE x # p /\ y # p BY <1>2, <1>8, <2>1 DEF Alone
  <2>2. CASE x = p BY <1>1, <1>2, <1>4, <1>5, <1>8, <2>2 DEF Alone, MayLock, Opened
  <2>3. CASE y = p BY <1>1, <1>2, <1>4, <1>5, <1>8, <2>3 DEF Alone, MayLock, Opened
  <2> QED BY <2>1, <2>2, <2>3
<1>14. CachedMetaIsCurrent'
  BY <1>1, <1>2, <1>3, <1>7, <1>8 DEF CachedMetaIsCurrent, Opened
<1>15. \A q \in Proc \ {p} : /\ HasIndex(q) => HasIndex(q)'
                             /\ HasHead(q) => HasHead(q)'
                             /\ IsForwards(q) => IsForwards(q)'
  BY <1>3, <1>7, <1>8 DEF HasIndex, HasHead, IsForwards
<1>16. Opened(p) \/ step = "Open" => Opened(p)' \/ step = "Unlock"
  BY <1>1, <1>2, <1>3, <1>7, <1>8, <1>12 DEF Opened
<1>17. /\ HasIndex(p) => HasIndex(p)' \/ step \in {"LockSh", "Unlock", "Sync"}
       /\ HasHead(p) => HasHead(p)'
       /\ IsForwards(p) => IsForwards(p)'
  BY <1>1, <1>2, <1>3, <1>7, <1>8 DEF HasIndex, HasHead, IsForwards
<1>18. /\ proc'[p].base # 0 => meta'.stage = "ready"
       /\ flocks'[p] # "un" => proc'[p].base # 0
       /\ proc'[p].base # 0 => proc[p].base # 0 \/ step = "Open"
  BY <1>1, <1>2, <1>3, <1>4, <1>7, <1>8, <1>12 DEF ProcessesOK, Opened
<1>19. /\ flocks[p] = "ex" \/ step = "LockEx" => flocks'[p] = "ex" \/ step \in {"LockSh", "Unlock"}
       /\ proc[p].target # 0 \/ step \in Resolves => proc'[p].target # 0
       /\ step \notin {"Close", "InitTree", "ReadIndex", "Forwards", "LockHead"}
  BY <1>1, <1>2, <1>7, <1>8 DEF Resolves
<1> QED BY <1>1, <1>3, <1>7, <1>8, <1>9, <1>10, <1>11, <1>13, <1>14, <1>15, <1>16, <1>17, <1>18, <1>19, OneStep
(* Writes of the meta data files and of the index: they change what is on     *)
(* disk, under a lock that keeps the others out.                              *)
LEMMA MetaInv ==
    ASSUME CommandsInv, NEW p \in Proc, SwitchHead(p) \/ SetBase(p) \/ Stamp(p) \/ Sync(p)
    PROVE  CommandsInv'
<1>1. PICK step \in {"SwitchHead", "SetBase", "Stamp", "Sync"} : At(p, step)
  BY DEF SwitchHead, SetBase, Stamp, Sync
<1>2. /\ HistoryOK /\ RefsOK /\ TreeOK /\ ProcessesOK /\ Alone /\ CachedMetaIsCurrent
      /\ Running(p) /\ Head(proc[p].todo) = step /\ proc[p] \in ProcTypes
      /\ step # "Stamp" => Opened(p)
      /\ step = "SetBase" => proc[p].target \in Commit
      /\ step = "Sync" => HasIndex(p)
      /\ step = "Stamp" => meta.stage # "none"
      /\ 0 \notin Commit
  BY <1>1, Provided DEF CommandsInv, InTree, IndexWork, UsesTarget
<1>3. /\ hist' = hist /\ refs' = refs /\ loose' = loose /\ lines' = lines
      /\ refLock' = refLock /\ exlock' = exlock /\ flocks' = flocks
  BY DEF SwitchHead, SetBase, Stamp, Sync, repo, refFiles
<1>4. /\ step = "SwitchHead" => /\ meta' = [meta EXCEPT !.head = proc[p].arg] /\ index' = index
                                /\ Goes(p, [proc[p] EXCEPT !.head = proc[p].arg])
      /\ step = "SetBase" => /\ meta' = [meta EXCEPT !.base = proc[p].target] /\ index' = index
                             /\ Goes(p, [proc[p] EXCEPT !.base = proc[p].target])
      /\ step = "Stamp" => /\ meta' = [meta EXCEPT !.stage = "ready"] /\ index' = index
                           /\ Goes(p, proc[p])
      /\ step = "Sync" => meta' = meta /\ index' = proc[p].idx /\ Goes(p, proc[p])
  BY <1>1 DEF SwitchHead, SetBase, Stamp, Sync, At, Proceed
<1>5. /\ proc' \in [Proc -> ProcTypes] /\ proc'[p].todo = Tail(proc[p].todo)
      /\ proc'[p].arg = proc[p].arg /\ proc'[p].target = proc[p].target
      /\ proc'[p].orig = proc[p].orig /\ proc'[p].tip = proc[p].tip
      /\ \A q \in Proc \ {p} : proc'[q] = proc[q]
      /\ proc'[p].base = IF step = "SetBase" THEN proc[p].target ELSE proc[p].base
      /\ proc'[p].head = IF step = "SwitchHead" THEN proc[p].arg ELSE proc[p].head
  <2>1. CASE step = "SwitchHead"
    <3> DEFINE rec == [proc[p] EXCEPT !.head = proc[p].arg]
    <3>1. /\ rec.todo = proc[p].todo /\ rec.arg = proc[p].arg /\ rec.target = proc[p].target
          /\ rec.orig = proc[p].orig /\ rec.base = proc[p].base /\ rec.head = proc[p].arg
          /\ rec.tip = proc[p].tip
          /\ rec \in ProcTypes
      BY <1>2 DEF ProcTypes
    <3>2. Goes(p, rec) /\ rec.todo # <<>> BY <1>2, <1>4, <2>1, <3>1 DEF Running
    <3> HIDE DEF rec
    <3> QED BY <1>2, <2>1, <3>1, <3>2, GoesIs DEF ProcessesOK
  <2>2. CASE step = "SetBase"
    <3> DEFINE rec == [proc[p] EXCEPT !.base = proc[p].target]
    <3>1. /\ rec.todo = proc[p].todo /\ rec.arg = proc[p].arg /\ rec.target = proc[p].target
          /\ rec.orig = proc[p].orig /\ rec.base = proc[p].target /\ rec.head = proc[p].head
          /\ rec.tip = proc[p].tip
          /\ rec \in ProcTypes
      BY <1>2 DEF ProcTypes
    <3>2. Goes(p, rec) /\ rec.todo # <<>> BY <1>2, <1>4, <2>2, <3>1 DEF Running
    <3> HIDE DEF rec
    <3> QED BY <1>2, <2>2, <3>1, <3>2, GoesIs DEF ProcessesOK
  <2>3. CASE step \in {"Stamp", "Sync"} BY <1>2, <1>4, <2>3, GoesIs DEF ProcessesOK, Running
  <2> QED BY <1>1, <2>1, <2>2, <2>3
<1>6. Commit' = Commit BY <1>3 DEF Commit
<1>7. /\ meta'.base = IF step = "SetBase" THEN proc[p].target ELSE meta.base
      /\ meta'.head = IF step = "SwitchHead" THEN proc[p].arg ELSE meta.head
      /\ meta'.stage = IF step = "Stamp" THEN "ready" ELSE meta.stage
      /\ meta' \in MetaTypes
  BY <1>1, <1>2, <1>4 DEF TreeOK, MetaTypes, ProcTypes
<1>8. index' \in IndexTypes BY <1>1, <1>2, <1>4 DEF TreeOK, ProcTypes
<1>9. HistoryOK' /\ RefsOK' /\ Alone' BY <1>2, <1>3, <1>6 DEF HistoryOK, RefsOK, Alone
<1>10. TreeOK' BY <1>2, <1>6, <1>7, <1>8 DEF TreeOK
<1>11. {proc'[p].base, proc'[p].target} \subseteq {0} \cup Commit'
  BY <1>2, <1>5, <1>6 DEF ProcessesOK
<1>12. CachedMetaIsCurrent'
  <2> SUFFICES ASSUME exlock, NEW q \in Proc, flocks[q] # "un"
               PROVE  proc'[q].base = meta'.base /\ proc'[q].head = meta'.head
    BY <1>3 DEF CachedMetaIsCurrent
  <2>1. proc[q].base = meta.base /\ proc[q].head = meta.head BY <1>2 DEF CachedMetaIsCurrent
  <2>2. CASE q = p BY <1>5, <1>7, <2>1, <2>2
  <2>3. CASE q # p
    <3>1. step \in {"SwitchHead", "SetBase"} => flocks[p] # "un" BY <1>2 DEF Opened
    <3>2. step \notin {"SwitchHead", "SetBase"} BY <1>2, <2>3, <3>1 DEF Alone
    <3> QED BY <1>5, <1>7, <2>1, <2>3, <3>2
  <2> QED BY <2>2, <2>3
<1>13. ASSUME NEW q \in Proc \ {p}
       PROVE  /\ HasIndex(q) => HasIndex(q)'
              /\ HasHead(q) => HasHead(q)'
              /\ IsForwards(q) => IsForwards(q)'
  <2>1. step = "Sync" => ~HasIndex(q) BY <1>2 DEF HasIndex, Alone
  <2>2. HasIndex(q) => HasIndex(q)' BY <1>1, <1>3, <1>4, <1>5, <2>1 DEF HasIndex
  <2> QED BY <1>3, <1>5, <2>2 DEF HasHead, IsForwards
<1>14. Opened(p) => Opened(p)'
  BY <1>1, <1>2, <1>3, <1>5 DEF Opened
<1>15. /\ HasIndex(p) => HasIndex(p)' \/ step \in {"LockSh", "Unlock", "Sync"}
       /\ HasHead(p) => HasHead(p)' \/ step \in LosesHead
       /\ IsForwards(p) => \/ IsForwards(p)'
                           \/ step \in ReadsAnew \cup LosesHead
  BY <1>1, <1>2, <1>3, <1>4, <1>5 DEF HasIndex, HasHead, IsForwards, LosesHead
<1>16. /\ proc[p].base # 0 => meta.stage = "ready"
       /\ flocks[p] # "un" => proc[p].base # 0
       /\ step = "SetBase" => proc[p].base # 0
  BY <1>2 DEF ProcessesOK, Opened
<1>17. /\ proc'[p].base # 0 => meta'.stage = "ready"
       /\ flocks'[p] # "un" => proc'[p].base # 0
       /\ proc'[p].base # 0 => proc[p].base # 0 \/ step = "Open"
       /\ meta.stage = "ready" => meta'.stage = "ready"
       /\ meta.stage # "none" \/ step = "InitTree" => meta'.stage # "none"
  BY <1>1, <1>2, <1>3, <1>5, <1>7, <1>16
<1>18. /\ flocks[p] = "ex" \/ step = "LockEx" => flocks'[p] = "ex" \/ step \in {"LockSh", "Unlock"}
       /\ proc[p].target # 0 \/ step \in Resolves => proc'[p].target # 0
       /\ step \notin {"Close", "Open", "InitTree", "ReadIndex", "Forwards", "LockHead"}
  BY <1>1, <1>3, <1>5 DEF Resolves
<1>19. flocks' \in [Proc -> {"un", "sh", "ex"}] /\ \A q \in Proc : flocks'[q] = flocks[q]
  BY <1>2, <1>3 DEF ProcessesOK
<1> QED BY <1>1, <1>3, <1>5, <1>6, <1>9, <1>10, <1>11, <1>12, <1>13, <1>14, <1>15, <1>17, <1>18, <1>19, OneStep
-----------------------------------------------------------------------------
(* Branches and commits.                                                      *)

(* A new commit on top of what is a history already.                          *)
LEMMA NewCommit ==
    ASSUME HistoryOK, NEW parents \in SUBSET Commit, \A d \in parents : hist[d] \subseteq parents,
           hist' = Append(hist, parents \cup {Len(hist) + 1})
    PROVE  /\ HistoryOK' /\ Commit \subseteq Commit' /\ Len(hist) + 1 \in Commit'
           /\ \A c \in Commit : hist'[c] = hist[c]
<1> DEFINE new == Len(hist) + 1
<1>1. hist \in Seq(SUBSET Nat) /\ Len(hist) \in Nat BY DEF HistoryOK
<1>2. parents \cup {new} \in SUBSET Nat
  <2>1. Commit \subseteq Nat /\ new \in Nat BY <1>1 DEF Commit
  <2> HIDE DEF new
  <2> QED BY <2>1
<1>3. hist' \in Seq(SUBSET Nat) /\ Len(hist') = new BY <1>1, <1>2, AppendProperties
<1>4. hist'[new] = parents \cup {new} /\ \A c \in Commit : hist'[c] = hist[c]
  BY <1>1, <1>2, AppendProperties DEF Commit
<1>5. Commit' = Commit \cup {new} /\ new \notin Commit BY <1>1, <1>3 DEF Commit
<1> HIDE DEF new
<1>6. ASSUME NEW c \in Commit'
      PROVE  c \in hist'[c] /\ \A d \in hist'[c] : d \in Commit' /\ hist'[d] \subseteq hist'[c]
  <2>1. CASE c \in Commit BY <1>4, <1>5, <2>1 DEF HistoryOK
  <2>2. CASE c = new BY <1>4, <1>5, <2>2
  <2> QED BY <1>5, <2>1, <2>2
<1> QED BY <1>3, <1>4, <1>5, <1>6 DEF HistoryOK, new

(* A branch that a process relies on as it was opened has a lock file of that *)
(* process, so that the process does not notice when another branch changes;  *)
(* of one that is in packed-refs it only knows that it still is.              *)
LEMMA LockedRefStays ==
    ASSUME CommandsInv, NEW q \in Proc, NEW b,
           \/ b \in DOMAIN lines /\ b \in DOMAIN lines'
           \/ refLock[b] # q /\ (b \in DOMAIN lines => refLock[PackedRefs] # q),
           \A x \in DOMAIN refs : x # b => x \in DOMAIN refs' /\ refs'[x] = refs[x],
           \A x \in DOMAIN lines : x # b => x \in DOMAIN lines',
           \A c \in Commit : hist'[c] = hist[c], refLock' = refLock,
           proc'[q].base = proc[q].base, proc'[q].head = proc[q].head,
           proc'[q].tip = proc[q].tip
    PROVE  /\ HasHead(q) => HasHead(q)'
           /\ proc'[q].target = proc[q].target => (IsForwards(q) => IsForwards(q)')
<1>1. HasHead(q) => HasHead(q)' BY DEF HasHead
<1>2. proc[q].target # 0 => hist'[proc[q].target] = hist[proc[q].target]
  BY DEF CommandsInv, ProcessesOK
<1> QED BY <1>1, <1>2 DEF IsForwards

(* What a write of a reference does to the others.                            *)
LEMMA SetRefIs ==
    ASSUME RefsOK, NEW b \in Branch, NEW c \in Commit', Commit \subseteq Commit', SetRef(b, c),
           refLock' = refLock
    PROVE  /\ RefsOK' /\ refs'[b] = c /\ b \in DOMAIN refs' /\ lines' = lines
           /\ \A x \in DOMAIN refs : x # b => x \in DOMAIN refs' /\ refs'[x] = refs[x]
           /\ DOMAIN refs \subseteq DOMAIN refs'
<1>1. /\ refs' = [x \in DOMAIN refs \cup {b} |-> IF x = b THEN c ELSE refs[x]]
      /\ loose' = loose \cup {b} /\ lines' = lines
  BY DEF SetRef
<1>2. DOMAIN refs \subseteq Branch /\ \A x \in DOMAIN refs : refs[x] \in Commit' BY DEF RefsOK
<1>3. refs' \in [DOMAIN refs \cup {b} -> Commit'] /\ DOMAIN refs \cup {b} \in SUBSET Branch
  BY <1>1, <1>2
<1>4. lines' \in UNION {[B -> Commit'] : B \in SUBSET Branch}
  <2>1. DOMAIN lines \in SUBSET Branch /\ lines \in [DOMAIN lines -> Commit'] BY DEF RefsOK
  <2> QED BY <1>1, <2>1
<1>5. loose' \subseteq DOMAIN refs' BY <1>1 DEF RefsOK
<1>6. RefsOK' BY <1>3, <1>4, <1>5 DEF RefsOK
<1> QED BY <1>1, <1>6
(* Steps that change branches or their lock files leave the work tree alone.  *)
LEMMA RefStep ==
    ASSUME CommandsInv, NEW p \in Proc,
           NEW step \in {"LockArg", "LockHead", "UnlockRefs", "WriteRef", "DeleteRef", "WriteHead",
                         "MoveHead", "Import"},
           At(p, step), NEW rec \in ProcTypes, Goes(p, rec),
           rec.todo = proc[p].todo, rec.base = proc[p].base, rec.head = proc[p].head,
           rec.arg = proc[p].arg, rec.orig = proc[p].orig,
           \/ rec.target = proc[p].target
           \/ rec.target \in Commit' /\ step \in {"WriteHead", "Import", "LockArg"},
           step \in {"Import", "LockArg"} => rec.target \in Commit',
           rec.tip = proc[p].tip \/ step = "LockHead",
           Commit \subseteq Commit', HistoryOK', RefsOK',
           exlock' = exlock /\ meta' = meta /\ index' = index /\ flocks' = flocks,
           \A q \in Proc \ {p} : proc'[q] = proc[q] => /\ HasHead(q) => HasHead(q)'
                                                       /\ IsForwards(q) => IsForwards(q)',
           step \notin LosesHead =>
               (proc'[p].base = proc[p].base /\ proc'[p].head = proc[p].head
                /\ proc'[p].tip = rec.tip => (HasHead(p) \/ step = "LockHead" => HasHead(p)')),
           step \in {"WriteRef", "DeleteRef"} =>
               (proc'[p].base = proc[p].base /\ proc'[p].head = proc[p].head
                /\ proc'[p].tip = proc[p].tip /\ proc'[p].target = proc[p].target =>
                   (IsForwards(p) => IsForwards(p)'))
    PROVE  CommandsInv'
<1>1. /\ HistoryOK /\ RefsOK /\ TreeOK /\ ProcessesOK /\ Alone /\ CachedMetaIsCurrent
      /\ Running(p) /\ Head(proc[p].todo) = step /\ proc[p] \in ProcTypes
      /\ exlock' = exlock /\ meta' = meta /\ index' = index /\ flocks' = flocks
  BY Provided DEF CommandsInv
<1>2. /\ proc' \in [Proc -> ProcTypes] /\ proc'[p].todo = Tail(proc[p].todo)
      /\ proc'[p].base = proc[p].base
      /\ proc'[p].head = proc[p].head /\ proc'[p].arg = proc[p].arg
      /\ proc'[p].target = rec.target /\ proc'[p].orig = proc[p].orig
      /\ proc'[p].tip = rec.tip
      /\ \A q \in Proc \ {p} : proc'[q] = proc[q]
  BY <1>1, GoesIs DEF ProcessesOK, Running
<1>3. 0 \notin Commit' BY DEF HistoryOK, Commit
<1>4. TreeOK' /\ Alone' BY <1>1 DEF TreeOK, Alone
<1>5. CachedMetaIsCurrent' BY <1>1, <1>2 DEF CachedMetaIsCurrent
<1>6. /\ {proc'[p].base, proc'[p].target} \subseteq {0} \cup Commit'
      /\ proc'[p].base # 0 => meta'.stage = "ready"
      /\ flocks'[p] # "un" => proc'[p].base # 0
      /\ flocks' \in [Proc -> {"un", "sh", "ex"}]
  BY <1>1, <1>2 DEF ProcessesOK
<1>7. /\ \A q \in Proc : HasIndex(q) => HasIndex(q)'
      /\ Opened(p) => Opened(p)'
  BY <1>1, <1>2 DEF HasIndex, Opened
<1>8. /\ proc[p].target # 0 \/ step \in Resolves => proc'[p].target # 0
      /\ step \notin {"Close", "Open", "InitTree", "ReadIndex", "Forwards", "LockEx"}
      /\ step \notin {"WriteRef", "DeleteRef"} => step \in ReadsAnew \cup LosesHead
      /\ step \in {"WriteRef", "DeleteRef"} => rec.target = proc[p].target /\ rec.tip = proc[p].tip
  BY <1>2, <1>3 DEF Resolves, ReadsAnew, LosesHead
<1> QED BY <1>1, <1>2, <1>4, <1>5, <1>6, <1>7, <1>8, OneStep

(* The lock files of the branches and of packed-refs.                         *)
LEMMA LockRefInv ==
    ASSUME CommandsInv, NEW p \in Proc, LockRef(p) \/ LockPacked(p) \/ UnlockRefs(p)
    PROVE  CommandsInv'
<1>1. PICK step \in {"LockArg", "LockHead", "UnlockRefs"} :
        /\ At(p, step) /\ (step = "UnlockRefs" => UnlockRefs(p))
        /\ step # "UnlockRefs" => LockRef(p) \/ LockPacked(p)
  BY DEF LockRef, LockPacked, UnlockRefs
<1>2. /\ RefsOK /\ HistoryOK /\ proc[p] \in ProcTypes /\ (step = "LockHead" => proc[p].base # 0)
  BY <1>1, Provided DEF CommandsInv, InTree, Opened
<1>3. /\ hist' = hist /\ refs' = refs /\ loose' = loose /\ lines' = lines
      /\ exlock' = exlock /\ meta' = meta /\ index' = index /\ flocks' = flocks
  BY DEF LockRef, LockPacked, Opens, UnlockRefs, refFiles
<1>4. Commit' = Commit /\ HistoryOK' BY <1>2, <1>3 DEF Commit, HistoryOK
<1>5. /\ DOMAIN refs \subseteq Branch /\ DOMAIN lines \subseteq Branch /\ loose \subseteq DOMAIN refs
      /\ refLock \in [LockFile -> Proc \cup {Nobody, Exited}] /\ Nobody \notin Proc
      /\ PackedRefs \in LockFile /\ \A b \in Branch : b \in LockFile
      /\ \A b \in DOMAIN refs : refs[b] \in Commit
      /\ \A b \in DOMAIN lines : lines[b] \in Commit
  <2>1. Nobody \notin Proc BY CommandsAssumption DEF Nobody
  <2> QED BY <1>2, <2>1 DEF RefsOK, LockFile
<1>6. CASE step = "UnlockRefs"
  <2>1. /\ refLock' = [b \in LockFile |-> IF refLock[b] = p THEN Nobody ELSE refLock[b]]
        /\ Goes(p, proc[p])
    BY <1>1, <1>6 DEF UnlockRefs, Proceed
  <2>2. RefsOK' BY <1>2, <1>3, <1>4, <1>5, <2>1 DEF RefsOK
  <2>3. \A q \in Proc \ {p} : proc'[q] = proc[q] => (HasHead(q) => HasHead(q)')
    BY <1>3, <1>5, <2>1 DEF HasHead
  <2>4. \A q \in Proc \ {p} : proc'[q] = proc[q] => (IsForwards(q) => IsForwards(q)')
    BY <1>3, <2>3 DEF IsForwards
  <2>5. \A q \in Proc \ {p} : proc'[q] = proc[q] => /\ HasHead(q) => HasHead(q)'
                                                    /\ IsForwards(q) => IsForwards(q)'
    BY <2>3, <2>4
  <2>6. At(p, "UnlockRefs") BY <1>1, <1>6
  <2>7. Commit \subseteq Commit' BY <1>4
  <2>8. "UnlockRefs" \in LosesHead BY DEF LosesHead
  <2> HIDE DEF Commit
  <2> QED BY <1>2, <1>3, <1>4, <2>1, <2>2, <2>5, <2>6, <2>7, <2>8, RefStep
<1>7. CASE step # "UnlockRefs"
  <2>1. PICK b, file, c :
          /\ b = IF step = "LockArg" THEN proc[p].arg ELSE proc[p].head
          /\ Opens(p, file, c)
          /\ \/ b \in loose /\ file = b /\ c = refs[b]
             \/ b \in DOMAIN lines /\ file = PackedRefs /\ c = lines[b]
    <3>1. RefToLock(p) = IF step = "LockArg" THEN proc[p].arg ELSE proc[p].head
      BY <1>1, <1>7 DEF RefToLock, At
    <3>2. CASE LockRef(p) BY <3>1, <3>2 DEF LockRef
    <3>3. CASE LockPacked(p) BY <3>1, <3>3 DEF LockPacked
    <3> QED BY <1>1, <1>7, <3>2, <3>3
  <2>2. /\ b \in Branch /\ file \in LockFile /\ c \in Commit /\ c \in Nat
        /\ b \in DOMAIN lines \/ (b \in DOMAIN refs /\ refs[b] = c)
        /\ file = b \/ (file = PackedRefs /\ b \in DOMAIN lines)
    BY <1>2, <1>5, <2>1 DEF Commit, HistoryOK
  <2>3. /\ refLock[file] = Nobody /\ refLock' = [refLock EXCEPT ![file] = p]
    BY <2>1 DEF Opens
  <2>4. PICK rec : /\ Goes(p, rec)
                   /\ rec = IF step = "LockArg" THEN [proc[p] EXCEPT !.target = c, !.aside = FALSE]
                            ELSE [proc[p] EXCEPT !.tip = c, !.aside = FALSE]
    BY <1>1, <1>7, <2>1 DEF Opens, At
  <2>5. /\ rec \in ProcTypes /\ rec.todo = proc[p].todo /\ rec.base = proc[p].base
        /\ rec.head = proc[p].head /\ rec.arg = proc[p].arg /\ rec.orig = proc[p].orig
        /\ step = "LockArg" => rec.target = c /\ rec.tip = proc[p].tip
        /\ step = "LockHead" => rec.target = proc[p].target /\ rec.tip = c
    BY <1>1, <1>2, <1>7, <2>2, <2>4 DEF ProcTypes
  <2>6. RefsOK' BY <1>2, <1>3, <1>4, <1>5, <2>2, <2>3 DEF RefsOK
  <2>7. \A x \in LockFile, q \in Proc : refLock[x] = q => refLock'[x] = q
    BY <1>5, <2>3
  <2>8. refLock'[file] = p BY <1>5, <2>2, <2>3
  <2>9. ASSUME NEW q \in Proc, proc'[q].base = proc[q].base, proc'[q].head = proc[q].head,
               proc'[q].tip = proc[q].tip, HasHead(q)
        PROVE  HasHead(q)'
    BY <1>3, <1>5, <2>7, <2>9 DEF HasHead
  <2>10. \A q \in Proc \ {p} : proc'[q] = proc[q] => /\ HasHead(q) => HasHead(q)'
                                                     /\ IsForwards(q) => IsForwards(q)'
    BY <1>3, <2>9 DEF IsForwards
  <2>11. ASSUME proc'[p].base = proc[p].base, proc'[p].head = proc[p].head, proc'[p].tip = rec.tip,
                HasHead(p) \/ step = "LockHead"
         PROVE  HasHead(p)'
    <3>1. CASE step = "LockHead"
      <4>1. b = proc[p].head /\ rec.tip = c BY <2>1, <2>5, <3>1
      <4>2. refLock'[b] = p \/ (refLock'[PackedRefs] = p /\ b \in DOMAIN lines) BY <2>2, <2>8
      <4> QED BY <1>2, <1>3, <2>2, <2>11, <3>1, <4>1, <4>2 DEF HasHead
    <3>2. CASE step = "LockArg" BY <2>5, <2>9, <2>11, <3>2
    <3> QED BY <1>1, <1>7, <3>1, <3>2
  <2>12. Commit \subseteq Commit' BY <1>4
  <2> HIDE DEF Commit
  <2> QED BY <1>1, <1>3, <1>4, <1>7, <2>2, <2>4, <2>5, <2>6, <2>10, <2>11, <2>12, RefStep
<1> QED BY <1>6, <1>7
(* Writes of branches: by got ref, got branch, got import, got commit and got *)
(* integrate.                                                                 *)
LEMMA WriteRefInv ==
    ASSUME CommandsInv, NEW p \in Proc,
           WriteRef(p) \/ DeleteRef(p) \/ WriteHead(p) \/ MoveHead(p) \/ ImportRoot(p)
    PROVE  CommandsInv'
<1>1. /\ RefsOK /\ HistoryOK /\ Nobody \notin Proc /\ Len(hist) \in Nat /\ DOMAIN refs \subseteq Branch
      /\ \A x \in DOMAIN refs : refs[x] \in Commit
  <2>1. RefsOK /\ HistoryOK BY DEF CommandsInv
  <2>2. Nobody \notin Proc BY CommandsAssumption DEF Nobody
  <2>3. Len(hist) \in Nat BY <2>1 DEF HistoryOK
  <2> QED BY <2>1, <2>2, <2>3 DEF RefsOK
<1>2. /\ exlock' = exlock /\ meta' = meta /\ index' = index /\ flocks' = flocks
      /\ refLock' = refLock
  BY DEF WriteRef, DeleteRef, WriteHead, MoveHead, ImportRoot
<1>3. ASSUME NEW b, NEW q \in Proc,
             refLock[b] = Nobody \/ (q # p /\ (refLock[b] = p \/ b \in DOMAIN lines)),
             lines' = lines,
             \A x \in DOMAIN refs : x # b => x \in DOMAIN refs' /\ refs'[x] = refs[x],
             \A c \in Commit : hist'[c] = hist[c],
             proc'[q].base = proc[q].base, proc'[q].head = proc[q].head,
             proc'[q].tip = proc[q].tip
      PROVE  /\ HasHead(q) => HasHead(q)'
             /\ proc'[q].target = proc[q].target => (IsForwards(q) => IsForwards(q)')
  <2>1. refLock[b] # q \/ b \in DOMAIN lines BY <1>1, <1>3
  <2> QED BY <1>2, <1>3, <2>1, LockedRefStays
<1>5. CASE WriteRef(p)
  <2>1. /\ At(p, "WriteRef") /\ Goes(p, proc[p]) /\ hist' = hist
        /\ refLock[proc[p].arg] = Nobody /\ SetRef(proc[p].arg, proc[p].target)
    BY <1>5 DEF WriteRef, Proceed
  <2>2. proc[p] \in ProcTypes /\ proc[p].arg \in Branch /\ proc[p].target \in Commit
    BY <2>1, Provided DEF UsesTarget, ArgSteps
  <2>3. Commit' = Commit /\ HistoryOK' BY <1>1, <2>1 DEF Commit, HistoryOK
  <2>4. /\ RefsOK' /\ lines' = lines
        /\ \A x \in DOMAIN refs : x # proc[p].arg => x \in DOMAIN refs' /\ refs'[x] = refs[x]
    BY <1>1, <1>2, <2>1, <2>2, <2>3, SetRefIs
  <2>5. \A c \in Commit : hist'[c] = hist[c] BY <2>1
  <2>6. ASSUME NEW q \in Proc, proc'[q].base = proc[q].base, proc'[q].head = proc[q].head,
               proc'[q].tip = proc[q].tip
        PROVE  /\ HasHead(q) => HasHead(q)'
               /\ proc'[q].target = proc[q].target => (IsForwards(q) => IsForwards(q)')
    <3>1. refLock[proc[p].arg] # q \/ proc[p].arg \in DOMAIN lines' BY <1>1, <2>1
    <3> QED BY <1>2, <2>4, <2>5, <2>6, <3>1, LockedRefStays
  <2>7. \A q \in Proc \ {p} : proc'[q] = proc[q] => /\ HasHead(q) => HasHead(q)'
                                                    /\ IsForwards(q) => IsForwards(q)'
    BY <2>6
  <2> QED BY <1>2, <2>1, <2>2, <2>3, <2>4, <2>6, <2>7, RefStep
<1>6. CASE DeleteRef(p)
  <2>1. /\ At(p, "DeleteRef") /\ Goes(p, proc[p]) /\ hist' = hist
        /\ refLock[proc[p].arg] = Nobody
        /\ proc[p].arg \in DOMAIN lines => refLock[PackedRefs] = Nobody
        /\ refs' = [x \in DOMAIN refs \ {proc[p].arg} |-> refs[x]]
        /\ loose' = loose \ {proc[p].arg}
        /\ lines' = [x \in DOMAIN lines \ {proc[p].arg} |-> lines[x]]
    BY <1>6 DEF DeleteRef, Proceed
  <2>2. proc[p] \in ProcTypes BY <2>1, Provided
  <2>3. Commit' = Commit /\ HistoryOK' BY <1>1, <2>1 DEF Commit, HistoryOK
  <2>4. /\ \A x \in DOMAIN refs : x # proc[p].arg => x \in DOMAIN refs' /\ refs'[x] = refs[x]
        /\ \A x \in DOMAIN lines : x # proc[p].arg => x \in DOMAIN lines'
    BY <2>1
  <2>5. RefsOK'
    <3>1. /\ refs' \in [DOMAIN refs \ {proc[p].arg} -> Commit']
          /\ DOMAIN refs \ {proc[p].arg} \in SUBSET Branch
      BY <1>1, <2>1, <2>3
    <3>2. loose' \subseteq DOMAIN refs' BY <1>1, <2>1 DEF RefsOK
    <3>3. /\ lines' \in [DOMAIN lines \ {proc[p].arg} -> Commit']
          /\ DOMAIN lines \ {proc[p].arg} \in SUBSET Branch
      <4>1. DOMAIN lines \subseteq Branch /\ \A x \in DOMAIN lines : lines[x] \in Commit
        BY <1>1 DEF RefsOK
      <4> QED BY <2>1, <2>3, <4>1
    <3> QED BY <1>1, <1>2, <3>1, <3>2, <3>3 DEF RefsOK
  <2>6. \A c \in Commit : hist'[c] = hist[c] BY <2>1
  <2>7. ASSUME NEW q \in Proc, proc'[q].base = proc[q].base, proc'[q].head = proc[q].head,
               proc'[q].tip = proc[q].tip
        PROVE  /\ HasHead(q) => HasHead(q)'
               /\ proc'[q].target = proc[q].target => (IsForwards(q) => IsForwards(q)')
    <3>1. /\ refLock[proc[p].arg] # q
          /\ proc[p].arg \in DOMAIN lines => refLock[PackedRefs] # q
      BY <1>1, <2>1
    <3> QED BY <1>2, <2>4, <2>6, <2>7, <3>1, LockedRefStays
  <2>8. \A q \in Proc \ {p} : proc'[q] = proc[q] => /\ HasHead(q) => HasHead(q)'
                                                    /\ IsForwards(q) => IsForwards(q)'
    BY <2>7
  <2> QED BY <1>2, <2>1, <2>2, <2>3, <2>5, <2>7, <2>8, RefStep
<1>7. CASE WriteHead(p)
  <2> DEFINE me == proc[p]
             new == Len(hist) + 1
             rec == [me EXCEPT !.target = new]
  <2>1. /\ At(p, "WriteHead") /\ Goes(p, rec) /\ hist' = Append(hist, hist[me.base] \cup {new})
        /\ SetRef(me.head, new)
    BY <1>7 DEF WriteHead
  <2>2. me \in ProcTypes /\ HasHead(p) BY <2>1, Provided DEF HeadLocked
  <2>3. me.base \in Commit BY <2>2 DEF HasHead, CommandsInv, ProcessesOK
  <2>4. /\ HistoryOK' /\ Commit \subseteq Commit' /\ new \in Commit'
        /\ \A c \in Commit : hist'[c] = hist[c]
    <3>1. hist[me.base] \in SUBSET Commit /\ \A d \in hist[me.base] : hist[d] \subseteq hist[me.base]
      BY <1>1, <2>3 DEF HistoryOK
    <3> QED BY <1>1, <2>1, <3>1, NewCommit
  <2>5. me.head \in Branch /\ (refLock[me.head] = p \/ me.head \in DOMAIN lines)
    BY <1>1, <2>2 DEF HasHead
  <2>6. /\ RefsOK' /\ lines' = lines
        /\ \A x \in DOMAIN refs : x # me.head => x \in DOMAIN refs' /\ refs'[x] = refs[x]
    BY <1>1, <1>2, <2>1, <2>4, <2>5, SetRefIs
  <2>7. \A q \in Proc \ {p} : proc'[q] = proc[q] => /\ HasHead(q) => HasHead(q)'
                                                    /\ IsForwards(q) => IsForwards(q)'
    BY <1>3, <2>4, <2>5, <2>6
  <2>8. "WriteHead" \in LosesHead BY DEF LosesHead
  <2>9. /\ rec \in ProcTypes /\ rec.todo = me.todo /\ rec.base = me.base /\ rec.head = me.head
        /\ rec.arg = me.arg /\ rec.orig = me.orig /\ rec.target = new /\ rec.tip = me.tip
    <3>1. new \in Nat BY <1>1
    <3> HIDE DEF new
    <3> QED BY <2>2, <3>1 DEF ProcTypes
  <2> HIDE DEF new, rec
  <2> QED BY <1>2, <2>1, <2>2, <2>4, <2>6, <2>7, <2>8, <2>9, RefStep
<1>8. CASE MoveHead(p)
  <2>1. /\ At(p, "MoveHead") /\ Goes(p, proc[p]) /\ hist' = hist
        /\ SetRef(proc[p].head, proc[p].target)
    BY <1>8 DEF MoveHead, Proceed
  <2>2. proc[p] \in ProcTypes /\ HasHead(p) /\ proc[p].target \in Commit /\ 0 \notin Commit
    BY <2>1, Provided DEF UsesTarget, HeadLocked
  <2>3. Commit' = Commit /\ HistoryOK' BY <1>1, <2>1 DEF Commit, HistoryOK
  <2>4. /\ proc[p].head \in Branch
        /\ refLock[proc[p].head] = p \/ proc[p].head \in DOMAIN lines
    BY <1>1, <2>2 DEF HasHead
  <2>5. /\ RefsOK' /\ lines' = lines
        /\ \A x \in DOMAIN refs : x # proc[p].head => x \in DOMAIN refs' /\ refs'[x] = refs[x]
    BY <1>1, <1>2, <2>1, <2>2, <2>3, <2>4, SetRefIs
  <2>6. \A c \in Commit : hist'[c] = hist[c] BY <2>1
  <2>7. \A q \in Proc \ {p} : proc'[q] = proc[q] => /\ HasHead(q) => HasHead(q)'
                                                    /\ IsForwards(q) => IsForwards(q)'
    BY <1>3, <2>4, <2>5, <2>6
  <2>8. "MoveHead" \in LosesHead BY DEF LosesHead
  <2> QED BY <1>2, <2>1, <2>2, <2>3, <2>5, <2>7, <2>8, RefStep
<1>9. CASE ImportRoot(p)
  <2> DEFINE new == Len(hist) + 1
             rec == [proc[p] EXCEPT !.target = new]
  <2>1. /\ At(p, "Import") /\ Goes(p, rec) /\ hist' = Append(hist, {new}) /\ refs' = refs
        /\ loose' = loose /\ lines' = lines
    BY <1>9 DEF ImportRoot, refFiles
  <2>2. proc[p] \in ProcTypes BY <2>1, Provided
  <2>3. /\ HistoryOK' /\ Commit \subseteq Commit' /\ new \in Commit'
        /\ \A c \in Commit : hist'[c] = hist[c]
    <3>1. hist' = Append(hist, {} \cup {new}) /\ {} \in SUBSET Commit BY <2>1
    <3> QED BY <1>1, <3>1, NewCommit
  <2>4. RefsOK'
    <3>1. refs' \in [DOMAIN refs -> Commit'] /\ DOMAIN refs \in SUBSET Branch
      BY <1>1, <2>1, <2>3 DEF RefsOK
    <3>2. lines' \in [DOMAIN lines -> Commit'] /\ DOMAIN lines \in SUBSET Branch
      BY <1>1, <2>1, <2>3 DEF RefsOK
    <3> QED BY <1>1, <1>2, <2>1, <3>1, <3>2 DEF RefsOK
  <2>5. \A q \in Proc : proc'[q] = proc[q] => /\ HasHead(q) => HasHead(q)'
                                              /\ IsForwards(q) => IsForwards(q)'
    <3> SUFFICES ASSUME NEW q \in Proc, proc'[q] = proc[q]
                 PROVE  /\ HasHead(q) => HasHead(q)'
                        /\ IsForwards(q) => IsForwards(q)'
      OBVIOUS
    <3>1. proc[q].target # 0 => hist'[proc[q].target] = hist[proc[q].target]
      BY <2>3 DEF CommandsInv, ProcessesOK
    <3> QED BY <1>2, <2>1, <3>1 DEF HasHead, IsForwards
  <2>6. proc'[p].base = proc[p].base /\ proc'[p].head = proc[p].head /\ proc'[p].tip = proc[p].tip =>
            (HasHead(p) => HasHead(p)')
    BY <1>2, <2>1 DEF HasHead
  <2>7. /\ rec \in ProcTypes /\ rec.todo = proc[p].todo /\ rec.base = proc[p].base
        /\ rec.head = proc[p].head
        /\ rec.arg = proc[p].arg /\ rec.orig = proc[p].orig /\ rec.target = new
        /\ rec.tip = proc[p].tip
    <3>1. new \in Nat BY <1>1
    <3> HIDE DEF new
    <3> QED BY <2>2, <3>1 DEF ProcTypes
  <2> HIDE DEF new, rec
  <2> QED BY <1>2, <2>1, <2>2, <2>3, <2>4, <2>5, <2>6, <2>7, RefStep
<1> QED BY <1>5, <1>6, <1>7, <1>8, <1>9
(* A commit from another work tree.                                           *)
LEMMA OtherCommitInv ==
    ASSUME CommandsInv, NEW b \in Branch, OtherCommit(b)
    PROVE  CommandsInv'
<1> DEFINE new == Len(hist) + 1
<1>1. /\ RefsOK /\ HistoryOK /\ TreeOK /\ ProcessesOK /\ Alone /\ CachedMetaIsCurrent
      /\ \A q \in Proc : Relies(q)
  BY DEF CommandsInv
<1>2. /\ b \in DOMAIN refs /\ refLock[b] = Nobody
      /\ hist' = Append(hist, hist[refs[b]] \cup {new}) /\ SetRef(b, new)
      /\ exlock' = exlock /\ meta' = meta /\ index' = index /\ flocks' = flocks
      /\ refLock' = refLock /\ proc' = proc
  BY DEF OtherCommit
<1>3. Nobody \notin Proc BY CommandsAssumption DEF Nobody
<1>4. /\ HistoryOK' /\ Commit \subseteq Commit' /\ new \in Commit'
      /\ \A c \in Commit : hist'[c] = hist[c]
  <2>1. refs[b] \in Commit BY <1>1, <1>2 DEF RefsOK
  <2>2. hist[refs[b]] \in SUBSET Commit /\ \A d \in hist[refs[b]] : hist[d] \subseteq hist[refs[b]]
    BY <1>1, <2>1 DEF HistoryOK
  <2> QED BY <1>1, <1>2, <2>2, NewCommit
<1> HIDE DEF new
<1>5. RefsOK' /\ lines' = lines /\ \A x \in DOMAIN refs : x # b => x \in DOMAIN refs' /\ refs'[x] = refs[x]
  BY <1>1, <1>2, <1>4, SetRefIs
<1>6. ASSUME NEW q \in Proc PROVE Relies(q)'
  <2>1. refLock[b] # q BY <1>2, <1>3
  <2>2. (HasHead(q) => HasHead(q)') /\ (IsForwards(q) => IsForwards(q)')
    BY <1>2, <1>4, <1>5, <2>1, LockedRefStays
  <2>3. HasIndex(q) => HasIndex(q)' BY <1>2 DEF HasIndex
  <2> QED BY <1>1, <1>2, <2>2, <2>3, OthersRely
<1>7. ProcessesOK' BY <1>1, <1>2, <1>4 DEF ProcessesOK, Running
<1>8. TreeOK' /\ Alone' /\ CachedMetaIsCurrent'
  BY <1>1, <1>2, <1>4 DEF TreeOK, Alone, CachedMetaIsCurrent
<1> QED BY <1>4, <1>5, <1>6, <1>7, <1>8 DEF CommandsInv

(* Steps that read the repository, check, or work on the index in memory.     *)
LEMMA ReadInv ==
    ASSUME CommandsInv, NEW p \in Proc,
           Read(p) \/ Resolve(p) \/ Checked(p) \/ ReadIndex(p) \/ Work(p)
    PROVE  CommandsInv'
<1>1. UNCHANGED <<exlock, repo, meta, index, flocks>>
  BY DEF Read, Resolve, Checked, ReadIndex, Work, repo
<1>2. /\ RefsOK /\ HistoryOK /\ TreeOK /\ proc[p] \in ProcTypes
  BY DEF CommandsInv, ProcessesOK
<1>3. CASE Read(p) \/ (At(p, "ResolveBoth") /\ Proceed(p))
  <2>1. PICK step \in {"Read", "ResolveBoth"} : At(p, step) /\ Goes(p, proc[p])
    BY <1>3 DEF Read, Proceed
  <2> QED BY <1>1, <1>2, <2>1, QuietInv DEF Resolves, LosesHead
<1>4. CASE Resolve(p) /\ ~(At(p, "ResolveBoth") /\ Proceed(p))
  <2>1. PICK step, c : /\ step \in {"Resolve", "ResolveArg", "ResolveHead"}
                       /\ At(p, step) /\ Goes(p, [proc[p] EXCEPT !.target = c]) /\ c \in Commit
    <3>1. \A b \in DOMAIN refs : refs[b] \in Commit /\ \A c \in hist[refs[b]] : c \in Commit
      BY <1>2 DEF RefsOK, HistoryOK
    <3>2. CASE /\ At(p, "Resolve")
               /\ \E b \in DOMAIN refs : \E c \in hist[refs[b]] :
                    Goes(p, [proc[p] EXCEPT !.target = c])
      BY <3>1, <3>2
    <3>3. CASE /\ At(p, "ResolveArg") /\ proc[p].arg \in DOMAIN refs
               /\ \E c \in hist[refs[proc[p].arg]] : Goes(p, [proc[p] EXCEPT !.target = c])
      BY <3>1, <3>3
    <3>4. CASE /\ At(p, "ResolveHead") /\ proc[p].head \in DOMAIN refs
               /\ Goes(p, [proc[p] EXCEPT !.target = refs[proc[p].head]])
      BY <3>1, <3>4
    <3> QED BY <1>4, <3>2, <3>3, <3>4 DEF Resolve
  <2> DEFINE rec == [proc[p] EXCEPT !.target = c]
  <2>2. /\ rec \in ProcTypes /\ rec.todo = proc[p].todo /\ rec.base = proc[p].base
        /\ rec.head = proc[p].head /\ rec.arg = proc[p].arg /\ rec.orig = proc[p].orig
        /\ rec.target = c /\ rec.tip = proc[p].tip
    <3>1. c \in Nat BY <1>2, <2>1 DEF Commit, HistoryOK
    <3> QED BY <1>2, <3>1 DEF ProcTypes
  <2>3. Goes(p, rec) BY <2>1
  <2> HIDE DEF rec
  <2>4. step \in Resolves BY <2>1 DEF Resolves
  <2> QED BY <1>1, <2>1, <2>2, <2>3, <2>4, QuietInv DEF LosesHead
<1>5. CASE Checked(p)
  <2>1. Check(p) /\ Goes(p, proc[p]) BY <1>5 DEF Checked, Proceed
  <2>2. PICK step \in {"Ancestry", "Forwards", "NotCurrent", "CheckNew", "Collect", "MergeOk", "RebaseOk"} :
          /\ At(p, step)
          /\ step = "Forwards" => proc[p].tip \in hist[proc[p].target]
    BY <2>1 DEF Check, CheckAncestry
  <2> QED BY <1>1, <1>2, <2>1, <2>2, QuietInv DEF Resolves, LosesHead
<1>6. CASE ReadIndex(p)
  <2> DEFINE rec == [proc[p] EXCEPT !.idx = index, !.orig = index]
  <2>1. At(p, "ReadIndex") /\ Goes(p, rec) BY <1>6 DEF ReadIndex
  <2>2. /\ rec \in ProcTypes /\ rec.todo = proc[p].todo /\ rec.base = proc[p].base
        /\ rec.head = proc[p].head /\ rec.arg = proc[p].arg /\ rec.orig = index
        /\ rec.target = proc[p].target /\ rec.tip = proc[p].tip
    BY <1>2 DEF ProcTypes, TreeOK
  <2> HIDE DEF rec
  <2> QED BY <1>1, <2>1, <2>2, QuietInv DEF Resolves, LosesHead
<1>7. CASE Work(p)
  <2>1. PICK step \in {"Checkout", "Schedule", "Unschedule", "AfterCommit"}, i \in IndexTypes :
          At(p, step) /\ Goes(p, [proc[p] EXCEPT !.idx = i])
    <3> DEFINE me == proc[p]
    <3>0. me.idx \in IndexTypes /\ me.base \in Nat /\ me.target \in Nat BY <1>2 DEF ProcTypes
    <3>1. me.idx.at \in SUBSET Nat /\ me.idx.sched \in BOOLEAN BY <3>0 DEF IndexTypes
    <3>2. CASE At(p, "Checkout") /\ \E rest \in {{}, me.idx.at} :
                 Goes(p, [me EXCEPT !.idx.at = rest \cup {me.base}])
      <4>1. PICK rest \in {{}, me.idx.at} : Goes(p, [me EXCEPT !.idx.at = rest \cup {me.base}]) BY <3>2
      <4>2. [me EXCEPT !.idx.at = rest \cup {me.base}]
              = [me EXCEPT !.idx = [me.idx EXCEPT !.at = rest \cup {me.base}]]
        BY <1>2 DEF ProcTypes
      <4>3. rest \cup {me.base} \in SUBSET Nat BY <3>0, <3>1, <4>1
      <4>4. [me.idx EXCEPT !.at = rest \cup {me.base}] \in IndexTypes BY <3>0, <4>3 DEF IndexTypes
      <4> QED BY <3>2, <4>1, <4>2, <4>4
    <3>3. CASE At(p, "Schedule") /\ Goes(p, [me EXCEPT !.idx.sched = TRUE])
      <4>1. [me EXCEPT !.idx.sched = TRUE] = [me EXCEPT !.idx = [me.idx EXCEPT !.sched = TRUE]]
        BY <1>2 DEF ProcTypes
      <4>2. [me.idx EXCEPT !.sched = TRUE] \in IndexTypes BY <3>0 DEF IndexTypes
      <4> QED BY <3>3, <4>1, <4>2
    <3>4. CASE At(p, "Unschedule") /\ Goes(p, [me EXCEPT !.idx.sched = FALSE])
      <4>1. [me EXCEPT !.idx.sched = FALSE] = [me EXCEPT !.idx = [me.idx EXCEPT !.sched = FALSE]]
        BY <1>2 DEF ProcTypes
      <4>2. [me.idx EXCEPT !.sched = FALSE] \in IndexTypes BY <3>0 DEF IndexTypes
      <4> QED BY <3>4, <4>1, <4>2
    <3>5. CASE /\ At(p, "AfterCommit")
               /\ Goes(p, [me EXCEPT !.idx = [at |-> @.at \cup {me.target}, sched |-> FALSE]])
      <4>1. me.idx.at \cup {me.target} \in SUBSET Nat BY <3>0, <3>1
      <4>2. [at |-> me.idx.at \cup {me.target}, sched |-> FALSE] \in IndexTypes
        BY <4>1 DEF IndexTypes
      <4> QED BY <3>5, <4>2
    <3> QED BY <1>7, <3>2, <3>3, <3>4, <3>5 DEF Work, Worked
  <2> DEFINE rec == [proc[p] EXCEPT !.idx = i]
  <2>2. /\ rec \in ProcTypes /\ rec.todo = proc[p].todo /\ rec.base = proc[p].base
        /\ rec.head = proc[p].head /\ rec.arg = proc[p].arg /\ rec.orig = proc[p].orig
        /\ rec.target = proc[p].target /\ rec.tip = proc[p].tip
    BY <1>2, <2>1 DEF ProcTypes
  <2>3. Goes(p, rec) BY <2>1
  <2> HIDE DEF rec
  <2> QED BY <1>1, <2>1, <2>2, <2>3, QuietInv DEF Resolves, LosesHead
<1> QED BY <1>3, <1>4, <1>5, <1>6, <1>7
-----------------------------------------------------------------------------
(* Steps after which the rest of a command is not the tail of what it was.    *)

(* A process is given a command's steps, or what is left to do after an error *)
(* or once the work tree is found to exist; nothing else changes.             *)
LEMMA NewPlanInv ==
    ASSUME CommandsInv, NEW p \in Proc, NEW rec \in ProcTypes, IsPlan(rec.todo),
           proc' = [proc EXCEPT ![p] = rec],
           rec.base = proc[p].base, {rec.target} \subseteq {0} \cup Commit,
           flocks[p] # "un" => rec.head = proc[p].head,
           exlock' = exlock, UNCHANGED repo, meta' = meta,
           index' = index, flocks' = flocks, Relies(p)'
    PROVE  CommandsInv'
<1>1. /\ HistoryOK /\ RefsOK /\ TreeOK /\ ProcessesOK /\ Alone /\ CachedMetaIsCurrent
      /\ \A q \in Proc : Relies(q)
  BY DEF CommandsInv
<1>2. /\ proc' \in [Proc -> ProcTypes] /\ proc'[p] = rec
      /\ \A q \in Proc \ {p} : proc'[q] = proc[q]
  BY <1>1 DEF ProcessesOK
<1>3. rec.todo # <<>> BY DEF IsPlan
<1>4. Commit' = Commit BY DEF Commit, repo
<1>5. ProcessesOK'
  <2>1. ASSUME NEW q \in Proc
        PROVE  /\ IF Running(q)' THEN IsPlan(proc'[q].todo) ELSE proc'[q] = Idle
               /\ {proc'[q].base, proc'[q].target} \subseteq {0} \cup Commit'
               /\ proc'[q].base # 0 => meta'.stage = "ready"
               /\ flocks'[q] # "un" => proc'[q].base # 0
    <3>1. CASE q = p BY <1>1, <1>2, <1>3, <1>4, <3>1 DEF ProcessesOK, Running
    <3>2. CASE q # p BY <1>1, <1>2, <1>4, <3>2 DEF ProcessesOK, Running
    <3> QED BY <3>1, <3>2
  <2> QED BY <1>1, <1>2, <2>1 DEF ProcessesOK
<1>6. ASSUME NEW q \in Proc \ {p} PROVE Relies(q)'
  BY <1>1, <1>2, OthersRely DEF HasIndex, HasHead, IsForwards, repo, refFiles
<1>7. HistoryOK' /\ RefsOK' /\ TreeOK' /\ Alone'
  BY <1>1, <1>4 DEF HistoryOK, RefsOK, TreeOK, Alone, repo, refFiles
<1>8. CachedMetaIsCurrent' BY <1>1, <1>2 DEF CachedMetaIsCurrent
<1> QED BY <1>5, <1>6, <1>7, <1>8 DEF CommandsInv

(* A command that takes no branch as its argument.                            *)
LEMMA ProgramsWithoutArgument ==
    ASSUME NEW program \in Programs, Range(program) \cap ArgSteps = {}
    PROVE  NoneOf(program \o <<"Close">>, ArgSteps)
<1> DEFINE n == Len(program)
           s == program \o <<"Close">>
<1>1. program \in Seq(StepName) BY ProgramsAreSequences
<1>2. n \in Nat /\ DOMAIN program = 1..n BY <1>1
<1>3. \A j \in DOMAIN program : program[j] \notin ArgSteps BY DEF Range
<1>4. <<"Close">> \in Seq(StepName) BY DEF StepName
<1>5. Len(s) = n + 1 /\ s \in Seq(StepName) BY <1>1, <1>4, ConcatProperties
<1>6. DOMAIN s = 1..(n + 1) BY <1>5
<1>7. s[n + 1] = "Close" /\ \A j \in 1..n : s[j] = program[j]
  BY <1>1, <1>2, <1>4, ConcatProperties
<1>8. "Close" \notin ArgSteps BY DEF ArgSteps
<1> HIDE DEF s, n
<1>9. \A i \in DOMAIN s : s[i] \notin ArgSteps BY <1>2, <1>3, <1>6, <1>7, <1>8
<1> QED BY <1>9 DEF NoneOf, After, s

(* A command that is started.                                                 *)
LEMMA StartInv ==
    ASSUME CommandsInv, NEW p \in Proc, NEW program \in Programs, NEW b \in Branch \cup {""},
           Start(p, program, b)
    PROVE  CommandsInv'
<1> DEFINE s == program \o <<"Close">>
           rec == [Idle EXCEPT !.todo = s, !.arg = b]
<1>1. Fresh(s) BY ProgramsAreFresh
<1>2. /\ ~Running(p) /\ (b = "") = (Range(program) \cap ArgSteps = {})
      /\ proc' = [proc EXCEPT ![p] = rec]
      /\ exlock' = exlock /\ UNCHANGED repo /\ meta' = meta
      /\ index' = index /\ flocks' = flocks
  BY DEF Start
<1>3. s \in Seq(StepName) /\ IsPlan(s) BY <1>1 DEF Fresh, IsPlan
<1>4. /\ rec \in ProcTypes /\ rec.todo = s /\ rec.arg = b /\ rec.base = 0 /\ rec.target = 0
  <2> HIDE DEF s
  <2>1. Idle \in ProcTypes /\ Idle.base = 0 /\ Idle.target = 0 BY IdleIs
  <2> QED BY <1>3, <2>1 DEF ProcTypes
<1>5. proc[p].base = 0 /\ flocks[p] = "un"
  <2> HIDE DEF s, rec
  <2>1. proc[p] = Idle BY <1>2 DEF CommandsInv, ProcessesOK
  <2>2. proc[p].base = 0 BY <2>1, IdleIs
  <2> QED BY <2>2 DEF CommandsInv, ProcessesOK
<1>6. b = "" => NoneOf(s, ArgSteps) BY <1>2, ProgramsWithoutArgument
<1>7. Relies(p)'
  <2> HIDE DEF s, rec
  <2>1. proc'[p] = rec BY <1>2 DEF CommandsInv, ProcessesOK
  <2> QED BY <1>1, <1>4, <1>6, <2>1 DEF Relies, Fresh
<1> HIDE DEF s, rec
<1> QED BY <1>2, <1>3, <1>4, <1>5, <1>7, NewPlanInv
(* An error after the index has changed in memory: what is left is to write   *)
(* the index and give the locks back.                                         *)
LEMMA FailAndSyncInv ==
    ASSUME CommandsInv, NEW p \in Proc, FailAndSync(p)
    PROVE  CommandsInv'
<1> DEFINE s == <<"Sync", "UnlockRefs", "LockSh", "Close">>
           rec == [proc[p] EXCEPT !.todo = s]
<1>1. PICK step \in {"Checkout", "MoveHead", "Schedule", "Unschedule"} : At(p, step)
  BY DEF FailAndSync
<1>2. /\ proc[p] \in ProcTypes /\ Opened(p) /\ HasIndex(p) /\ Relies(p)
  BY <1>1, Provided DEF IndexWork, InTree
<1>3. /\ s \in Seq(StepName) /\ Len(s) = 4
      /\ s[1] = "Sync" /\ s[2] = "UnlockRefs" /\ s[3] = "LockSh" /\ s[4] = "Close"
  BY DEF StepName
<1> HIDE DEF s
<1>4. IsPlan(s)
  <2>1. \A i, j \in DOMAIN s : i < j => ~Undoes(s[i], s[j])
    BY <1>3 DEF Undoes, IndexWork, InTree, HeadLocked
  <2>2. \A i \in DOMAIN s : s[i] # "InitTree" BY <1>3
  <2>3. \A j \in DOMAIN s : s[j] # "MoveHead" BY <1>3
  <2>4. Len(s) # 0 /\ s[Len(s)] = "Close"
    <3>1. s[Len(s)] = "Close" BY <1>3
    <3> QED BY <1>3, <3>1
  <2> QED BY <1>3, <2>1, <2>2, <2>3, <2>4, PlanWithoutMoveHead
<1>5. /\ rec \in ProcTypes /\ rec.todo = s /\ rec.base = proc[p].base /\ rec.head = proc[p].head
      /\ rec.target = proc[p].target /\ rec.orig = proc[p].orig /\ rec.arg = proc[p].arg
  BY <1>2, <1>3 DEF ProcTypes
<1>6. proc' = [proc EXCEPT ![p] = rec]
  <2>1. proc' = [proc EXCEPT ![p].todo = s] BY DEF FailAndSync, s
  <2> QED BY <2>1
<1>7. /\ exlock' = exlock /\ UNCHANGED repo /\ meta' = meta
      /\ index' = index /\ flocks' = flocks
  BY DEF FailAndSync
<1>8. proc'[p] = rec BY <1>6 DEF CommandsInv, ProcessesOK
<1> HIDE DEF rec
<1>9. \A T, A : (T \cap {"Sync", "UnlockRefs", "LockSh", "Close"} = {}) => After(s, T, A)
  <2>1. \A i \in DOMAIN s : s[i] \in {"Sync", "UnlockRefs", "LockSh", "Close"} BY <1>3
  <2> QED BY <2>1 DEF After
<1>10. Relies(p)'
  <2>1. Opened(p)' /\ HasIndex(p)' /\ flocks'[p] = "ex"
    BY <1>2, <1>5, <1>7, <1>8 DEF Opened, HasIndex
  <2>2. NoneOf(s, {"Open"}) /\ NoneOf(s, ArgSteps) BY <1>9 DEF NoneOf, ArgSteps
  <2>3. After(s, UsesTarget, Resolves) BY <1>9 DEF UsesTarget
  <2>4. After(s, HeadLocked, {"LockHead"}) BY <1>9 DEF HeadLocked
  <2>5. After(s, {"MoveHead"}, {"Forwards"}) /\ After(s, {"Stamp"}, {"InitTree"}) BY <1>9
  <2> QED BY <1>5, <1>8, <2>1, <2>2, <2>3, <2>4, <2>5 DEF Relies
<1>11. {rec.target} \subseteq {0} \cup Commit BY <1>5 DEF CommandsInv, ProcessesOK
<1> QED BY <1>4, <1>5, <1>6, <1>7, <1>10, <1>11, NewPlanInv

(* got checkout creates the work tree, or finds that it exists.               *)
LEMMA InitTreeInv ==
    ASSUME CommandsInv, NEW p \in Proc, InitTree(p)
    PROVE  CommandsInv'
<1>1. /\ At(p, "InitTree") /\ exlock' = exlock /\ hist' = hist /\ refs' = refs
      /\ loose' = loose /\ lines' = lines /\ refLock' = refLock /\ flocks' = flocks
      /\ UNCHANGED repo
  BY DEF InitTree, repo, refFiles
<1>2. /\ HistoryOK /\ RefsOK /\ TreeOK /\ ProcessesOK /\ Alone /\ CachedMetaIsCurrent
      /\ Running(p) /\ IsPlan(proc[p].todo) /\ Head(proc[p].todo) = "InitTree"
      /\ proc[p] \in ProcTypes /\ Relies(p)
  BY <1>1, Provided DEF CommandsInv
<1>3. Commit' = Commit BY <1>1 DEF Commit
<1>4. CASE meta.stage = "none"
  <2>1. /\ proc[p].arg \in DOMAIN refs /\ index' = NoIndex /\ Goes(p, proc[p])
        /\ meta' = [stage |-> "partial", base |-> refs[proc[p].arg], head |-> proc[p].arg]
    BY <1>4 DEF InitTree, Proceed
  <2>2. refs[proc[p].arg] \in Commit /\ refs[proc[p].arg] \in Nat /\ proc[p].arg \in Branch
    BY <1>2, <2>1 DEF RefsOK, Commit
  <2>3. meta' \in MetaTypes /\ meta'.stage = "partial" /\ meta'.base \in Commit
    BY <2>1, <2>2 DEF MetaTypes
  <2>4. NoIndex \in IndexTypes BY DEF NoIndex, IndexTypes
  <2>5. TreeOK' BY <1>3, <2>1, <2>3, <2>4 DEF TreeOK
  <2>6. \A q \in Proc : proc[q].base = 0 /\ flocks[q] = "un" BY <1>2, <1>4 DEF ProcessesOK
  <2>7. /\ proc' \in [Proc -> ProcTypes] /\ proc'[p].todo = Tail(proc[p].todo)
        /\ proc'[p].base = proc[p].base /\ proc'[p].head = proc[p].head
        /\ proc'[p].arg = proc[p].arg
        /\ proc'[p].target = proc[p].target
        /\ \A q \in Proc \ {p} : proc'[q] = proc[q]
    BY <1>2, <2>1, GoesIs DEF ProcessesOK, Running
  <2>8. /\ HistoryOK' /\ RefsOK' /\ Alone' /\ CachedMetaIsCurrent'
    BY <1>1, <1>2, <1>3, <2>6 DEF HistoryOK, RefsOK, Alone, CachedMetaIsCurrent
  <2>9. \A q \in Proc : ~HasIndex(q) /\ ~Opened(q) /\ ~HasHead(q) /\ ~IsForwards(q)
    BY <2>6 DEF HasIndex, Opened, HasHead, IsForwards
  <2>10. {proc'[p].base, proc'[p].target} \subseteq {0} \cup Commit' BY <1>2, <1>3, <2>7 DEF ProcessesOK
  <2>11. flocks' \in [Proc -> {"un", "sh", "ex"}] BY <1>1, <1>2 DEF ProcessesOK
  <2>12. "InitTree" \notin Resolves BY DEF Resolves
  <2> QED BY <1>1, <1>3, <1>4, <2>3, <2>5, <2>6, <2>7, <2>8, <2>9, <2>10, <2>11, <2>12, OneStep
<1>5. CASE meta.stage # "none"
  <2> DEFINE s == proc[p].todo
             t == Tail(s)
             rec == [proc[p] EXCEPT !.todo = Tail(t)]
  <2>1. /\ proc' = [proc EXCEPT ![p].todo = Tail(Tail(@))] /\ meta' = meta /\ index' = index
    BY <1>5 DEF InitTree
  <2>2. /\ s \in Seq(StepName) /\ s # <<>> /\ s[1] = "InitTree" /\ s[1 + 1] = "Stamp"
    <3>1. s \in Seq(StepName) /\ s # <<>> BY <1>2 DEF IsPlan
    <3>2. 1 \in DOMAIN s /\ s[1] = "InitTree" BY <1>2, <3>1
    <3>3. s[1 + 1] = "Stamp" BY <1>2, <3>2 DEF IsPlan
    <3> QED BY <3>1, <3>2, <3>3
  <2>3. IsPlan(t) /\ t \in Seq(StepName) /\ t # <<>> /\ Head(t) = "Stamp"
    <3>1. IsPlan(t) BY <1>2, PlanTail
    <3>2. t \in Seq(StepName) /\ t # <<>> BY <3>1 DEF IsPlan
    <3>3. Head(t) = t[1] /\ t[1] = s[1 + 1] BY <2>2, <3>2, HeadTailProperties
    <3> QED BY <2>2, <3>1, <3>2, <3>3
  <2>4. IsPlan(Tail(t)) BY <2>3, PlanTail
  <2>5. ASSUME NEW T, NEW A, After(s, T, A), "InitTree" \notin A, "Stamp" \notin A
        PROVE  After(Tail(t), T, A)
    BY <1>2, <2>2, <2>3, <2>5, AfterTail
  <2> HIDE DEF t
  <2>6. Tail(t) \in Seq(StepName) BY <2>4 DEF IsPlan
  <2>7. /\ rec \in ProcTypes /\ rec.todo = Tail(t) /\ rec.base = proc[p].base
        /\ rec.head = proc[p].head /\ rec.arg = proc[p].arg
        /\ rec.target = proc[p].target /\ rec.orig = proc[p].orig /\ rec.tip = proc[p].tip
    BY <1>2, <2>6 DEF ProcTypes
  <2>8. proc' = [proc EXCEPT ![p] = rec] BY <2>1 DEF t
  <2> HIDE DEF rec
  <2>9. proc'[p] = rec BY <1>2, <2>8 DEF ProcessesOK
  <2>10. /\ Opened(p) => Opened(p)'
         /\ HasIndex(p) => HasIndex(p)'
         /\ HasHead(p) => HasHead(p)'
         /\ IsForwards(p) => IsForwards(p)'
    BY <1>1, <2>1, <2>7, <2>9 DEF Opened, HasIndex, HasHead, IsForwards
  <2>11. "InitTree" \notin Resolves /\ "Stamp" \notin Resolves BY DEF Resolves
  <2>12. Relies(p)'
    BY <1>1, <1>2, <1>5, <2>1, <2>5, <2>7, <2>9, <2>10, <2>11 DEF Relies, NoneOf
  <2>13. {rec.target} \subseteq {0} \cup Commit BY <1>2, <2>7 DEF ProcessesOK
  <2> QED BY <1>1, <2>1, <2>4, <2>7, <2>8, <2>12, <2>13, NewPlanInv
<1> QED BY <1>4, <1>5

(* A locked open that has found no file of the branch's own.                  *)
LEMMA NoLooseRefInv ==
    ASSUME CommandsInv, NEW p \in Proc, NoLooseRef(p)
    PROVE  CommandsInv'
<1> DEFINE rec == [proc[p] EXCEPT !.aside = TRUE]
<1>1. /\ exlock' = exlock /\ UNCHANGED repo /\ meta' = meta /\ index' = index /\ flocks' = flocks
      /\ proc' = [proc EXCEPT ![p] = rec] /\ Running(p)
  BY DEF NoLooseRef, At
<1>2. /\ proc[p] \in ProcTypes /\ Relies(p) /\ IsPlan(proc[p].todo)
      /\ {proc[p].target} \subseteq {0} \cup Commit
  BY <1>1 DEF CommandsInv, ProcessesOK
<1>3. /\ rec \in ProcTypes /\ rec.todo = proc[p].todo /\ rec.base = proc[p].base
      /\ rec.head = proc[p].head /\ rec.arg = proc[p].arg /\ rec.target = proc[p].target
      /\ rec.orig = proc[p].orig /\ rec.tip = proc[p].tip
  BY <1>2 DEF ProcTypes
<1>4. proc'[p] = rec BY <1>1 DEF CommandsInv, ProcessesOK
<1> HIDE DEF rec
<1>5. Relies(p)'
  BY <1>1, <1>2, <1>3, <1>4
     DEF Relies, Opened, HasIndex, HasHead, IsForwards, repo, refFiles
<1> QED BY <1>1, <1>2, <1>3, <1>5, NewPlanInv
-----------------------------------------------------------------------------
(* Every step of the system keeps the invariant.                              *)
LEMMA CommandsStepInv == CommandsInv /\ [Next]_vars => CommandsInv'
<1> SUFFICES ASSUME CommandsInv, [Next]_vars PROVE CommandsInv'
  OBVIOUS
<1>1. ASSUME NEW p \in Proc, Close(p) \/ Fail(p) \/ Kill(p) PROVE CommandsInv'
  <2>1. Exits(p) /\ UNCHANGED <<exlock, hist, refFiles, meta, index>>
    BY <1>1 DEF Close, Fail, Kill, repo
  <2>2. refLock \in [LockFile -> Proc \cup {Nobody, Exited}] BY DEF CommandsInv, RefsOK
  <2>3. /\ refLock' \in [LockFile -> Proc \cup {Nobody, Exited}]
        /\ \A b \in LockFile : refLock[b] # p => refLock'[b] = refLock[b]
    <3>1. CASE Close(p) BY <2>2, <3>1 DEF Close, repo
    <3>2. CASE Fail(p) BY <2>2, <3>2 DEF Fail
    <3>3. CASE Kill(p) BY <2>2, <3>3 DEF Kill
    <3> QED BY <1>1, <3>1, <3>2, <3>3
  <2> QED BY <2>1, <2>3, ExitInv
<1>2. ASSUME NEW p \in Proc, Step(p) PROVE CommandsInv'
  <2>1. CASE InitTree(p) BY <2>1, InitTreeInv
  <2>2. CASE SwitchHead(p) \/ SetBase(p) \/ Stamp(p) \/ Sync(p) BY <2>2, MetaInv
  <2>3. CASE Open(p) \/ LockEx(p) \/ LockSh(p) \/ Unlock(p) BY <2>3, LockInv
  <2>4. CASE Read(p) \/ Resolve(p) \/ Checked(p) \/ ReadIndex(p) \/ Work(p) BY <2>4, ReadInv
  <2>5. CASE LockRef(p) \/ LockPacked(p) \/ UnlockRefs(p) BY <2>5, LockRefInv
  <2>6. CASE WriteRef(p) \/ DeleteRef(p) \/ WriteHead(p) \/ MoveHead(p) \/ ImportRoot(p)
    BY <2>6, WriteRefInv
  <2>7. CASE Close(p) BY <1>1, <2>7
  <2>8. CASE NoLooseRef(p) BY <2>8, NoLooseRefInv
  <2> QED BY <1>2, <2>1, <2>2, <2>3, <2>4, <2>5, <2>6, <2>7, <2>8 DEF Step
<1>3. CASE UNCHANGED vars
  BY <1>3 DEF vars, CommandsInv, HistoryOK, RefsOK, TreeOK, ProcessesOK, Alone, Relies, Commit,
              CachedMetaIsCurrent, Opened, HasIndex, HasHead, IsForwards, Running
<1> QED BY <1>1, <1>2, <1>3, StartInv, FailAndSyncInv, OtherCommitInv DEF Next

(* The only step that writes the index of a complete work tree is Sync, and   *)
(* its process has held the exclusive lock since it read the index.           *)
LEMMA StepWritesIndexRead == CommandsInv /\ [Next]_vars => WritesIndexRead
<1> SUFFICES ASSUME CommandsInv, [Next]_vars, meta.stage = "ready", index' # index
             PROVE  \E p \in Proc : At(p, "Sync") /\ proc[p].orig = index
  BY DEF WritesIndexRead
<1>1. \E p \in Proc : Sync(p)
  <2>1. ASSUME NEW p \in Proc, Step(p) PROVE Sync(p)
    BY <2>1 DEF Step, InitTree, Stamp, Open, LockEx, LockSh, Unlock, Read, Resolve, Checked,
                SwitchHead, SetBase, ReadIndex, Work, LockRef, NoLooseRef, LockPacked, Opens,
                UnlockRefs, WriteRef, DeleteRef,
                WriteHead, MoveHead, ImportRoot, Close
  <2> QED BY <2>1 DEF Next, vars, Start, Fail, FailAndSync, Kill, OtherCommit
<1>2. PICK p \in Proc : At(p, "Sync") BY <1>1 DEF Sync
<1>3. HasIndex(p) BY <1>2, Provided DEF IndexWork
<1> QED BY <1>2, <1>3 DEF HasIndex

(* While integrate is about to move a branch that is not in packed-refs it    *)
(* holds the branch's lock file: nobody else moves it, and the new head is a  *)
(* descendant of the old.                                                     *)
LEMMA StepFastForwards == CommandsInv /\ [Next]_vars => LooseFastForwards
<1> SUFFICES ASSUME CommandsInv, [Next]_vars, NEW p \in Proc, NEW h \in Branch \ DOMAIN lines,
                    At(p, "MoveHead"), proc[p].head = h
             PROVE  hist[refs[h]] \subseteq hist'[refs'[h]]
  BY DEF LooseFastForwards, Moves, FastForwards
<1>1. /\ HistoryOK /\ RefsOK /\ HasHead(p) /\ IsForwards(p) /\ proc[p].target \in Commit
  BY Provided DEF CommandsInv, HeadLocked, UsesTarget
<1>2. /\ h \in DOMAIN refs /\ refs[h] \in Commit /\ refLock[h] = p /\ Nobody \notin Proc
      /\ refs[h] = proc[p].tip
  <2>1. Nobody \notin Proc BY CommandsAssumption DEF Nobody
  <2> QED BY <1>1, <2>1 DEF HasHead, RefsOK
<1>3. hist[refs[h]] \subseteq hist[proc[p].target]
  BY <1>1, <1>2 DEF IsForwards, HistoryOK
<1>4. CASE refs' = refs /\ hist' = hist BY <1>4
<1>5. ASSUME NEW b, NEW c, SetRef(b, c), b # h,
             hist' = hist \/ \E S : hist' = Append(hist, S)
      PROVE  hist[refs[h]] \subseteq hist'[refs'[h]]
  <2>1. refs'[h] = refs[h] BY <1>2, <1>5 DEF SetRef
  <2>2. hist'[refs[h]] = hist[refs[h]] BY <1>1, <1>2, <1>5 DEF HistoryOK, Commit
  <2> QED BY <2>1, <2>2
<1>6. ASSUME NEW q \in Proc, Step(q) PROVE hist[refs[h]] \subseteq hist'[refs'[h]]
  <2>1. CASE WriteRef(q) BY <1>2, <1>5, <2>1 DEF WriteRef
  <2>2. CASE DeleteRef(q) BY <1>2, <2>2 DEF DeleteRef
  <2>3. CASE WriteHead(q)
    <3>1. At(q, "WriteHead") BY <2>3 DEF WriteHead
    <3>2. HasHead(q) BY <3>1, Provided DEF HeadLocked
    <3>3. q # p BY <3>1 DEF At
    <3>4. proc[q].head # h BY <1>2, <3>2, <3>3 DEF HasHead
    <3> QED BY <1>5, <2>3, <3>4 DEF WriteHead
  <2>4. CASE MoveHead(q)
    <3>1. At(q, "MoveHead") /\ SetRef(proc[q].head, proc[q].target) /\ hist' = hist
      BY <2>4 DEF MoveHead
    <3>2. HasHead(q) BY <3>1, Provided DEF HeadLocked
    <3>3. CASE q = p
      <4>1. refs'[h] = proc[p].target BY <3>1, <3>3 DEF SetRef
      <4> QED BY <1>3, <3>1, <4>1
    <3>4. CASE q # p
      <4>1. proc[q].head # h BY <1>2, <3>2, <3>4 DEF HasHead
      <4> QED BY <1>5, <3>1, <4>1
    <3> QED BY <3>3, <3>4
  <2>5. CASE ImportRoot(q)
    <3>1. refs' = refs /\ hist' = Append(hist, {Len(hist) + 1}) BY <2>5 DEF ImportRoot, refFiles
    <3>2. hist'[refs[h]] = hist[refs[h]] BY <1>1, <1>2, <3>1 DEF HistoryOK, Commit
    <3> QED BY <3>1, <3>2
  <2>6. CASE ~(WriteRef(q) \/ DeleteRef(q) \/ WriteHead(q) \/ MoveHead(q) \/ ImportRoot(q))
    <3>1. refs' = refs /\ hist' = hist
      BY <1>6, <2>6 DEF Step, InitTree, Stamp, Open, LockEx, LockSh, Unlock, Read, Resolve,
                Checked, SwitchHead, SetBase, ReadIndex, Work, Sync, LockRef, NoLooseRef, LockPacked, Opens, UnlockRefs,
                Close, repo, refFiles
    <3> QED BY <1>4, <3>1
  <2> QED BY <2>1, <2>2, <2>3, <2>4, <2>5, <2>6
<1>7. ASSUME NEW b \in Branch, OtherCommit(b) PROVE hist[refs[h]] \subseteq hist'[refs'[h]]
  <2>1. b # h BY <1>2, <1>7 DEF OtherCommit
  <2> QED BY <1>5, <1>7, <2>1 DEF OtherCommit
<1>8. CASE \/ \E q \in Proc, program \in Programs, b \in Branch \cup {""} : Start(q, program, b)
           \/ \E q \in Proc : Fail(q) \/ FailAndSync(q) \/ Kill(q)
           \/ UNCHANGED vars
  <2>1. refs' = refs /\ hist' = hist BY <1>8 DEF Start, Fail, FailAndSync, Kill, vars, repo, refFiles
  <2> QED BY <1>4, <2>1
<1> QED BY <1>6, <1>7, <1>8 DEF Next

(* The invariant holds of every reachable state.                              *)
LEMMA CommandsInvariant == Spec => []CommandsInv
  BY CommandsInitInv, CommandsStepInv, PTL DEF Spec

(* Where O_EXLOCK locks on open, no command ever acts on a base commit or a   *)
(* branch of the work tree that another command has changed on disk since     *)
(* open_worktree read them, for any number of processes and commands.         *)
THEOREM CommandsMetaCurrent == Spec => []CachedMetaIsCurrent
<1>1. CommandsInv => CachedMetaIsCurrent BY DEF CommandsInv
<1> QED BY <1>1, CommandsInvariant, PTL

(* With or without O_EXLOCK, sync_fileindex only ever replaces the index that *)
(* the same command read: lock_worktree's exclusive lock is taken before the  *)
(* index is read and kept until it is written, also on the error paths.       *)
THEOREM CommandsKeepIndexUpdates == Spec => IndexUpdatesNotLost
  BY CommandsInvariant, StepWritesIndexRead, PTL DEF Spec, IndexUpdatesNotLost

(* If packed-refs has no line for the work tree's branch, got integrate never *)
(* drops a commit of that branch when it moves it, whatever other processes   *)
(* and other work trees do to the repository's branches meanwhile, and        *)
(* wherever the integrated branch is stored.  For a branch in packed-refs it  *)
(* is false: its locked open may return a line that is out of date.           *)
THEOREM IntegrateFastForwards == Spec => IntegrateKeepsHistory
  BY CommandsInvariant, StepFastForwards, PTL DEF Spec, IntegrateKeepsHistory
=============================================================================
