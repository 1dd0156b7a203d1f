-------------------------- MODULE RepositoryProofs --------------------------
(***************************************************************************)
(* Proofs about how a repository grows.  ObjectStore says what a           *)
(* repository promises to its readers, and what follows from that; Fetch   *)
(* and ObjectCreate, the two ways in which objects and references arrive,  *)
(* are shown to keep the promise.                                          *)
(***************************************************************************)
EXTENDS Fetch, ObjectCreate, ObjectStore, WellFoundedInduction,
        SequenceTheorems, TLAPS

(***************************************************************************)
(* What the two rules of ObjectStore are for.                              *)
(***************************************************************************)
(* The empty repository has no object and no reference that lacks one.     *)
LEMMA EmptyStoreReadable == StoreInit => RefsReadable
  BY DEF StoreInit, RefsReadable, Complete, Range

(* Adding a complete set of objects keeps what references lead to readable;  *)
(* setting references to present objects does.                             *)
LEMMA StepKeepsReadable == RefsReadable /\ [StoreNext]_storeVars => RefsReadable'
<1> SUFFICES ASSUME RefsReadable, [StoreNext]_storeVars PROVE RefsReadable'
  OBVIOUS
<1>1. CASE AddObjects
  <2>1. Complete(objs)' BY <1>1 DEF AddObjects, Complete
  <2>2. Range(refs)' = Range(refs) BY <1>1 DEF AddObjects, Range
  <2>3. Range(refs)' \subseteq objs' BY <1>1, <2>2 DEF AddObjects, RefsReadable
  <2> QED BY <2>1, <2>3 DEF RefsReadable
<1>2. CASE SetRefs
  <2>1. Complete(objs)' BY <1>2 DEF SetRefs, RefsReadable, Complete
  <2>2. Range(refs)' \subseteq objs' BY <1>2 DEF SetRefs, Range
  <2> QED BY <2>1, <2>2 DEF RefsReadable
<1>3. CASE UNCHANGED storeVars
  BY <1>3 DEF storeVars, RefsReadable, Complete, Range
<1> QED BY <1>1, <1>2, <1>3 DEF StoreNext

(* In an object store, and so in what Fetch and ObjectCreate do to a         *)
(* repository, every reference names an object from which everything can be *)
(* read (what got_repo and the commands assume of a repository).           *)
THEOREM StoreStaysReadable == StoreSpec => []RefsReadable
<1>1. StoreInit => RefsReadable BY EmptyStoreReadable
<1>2. RefsReadable /\ [StoreNext]_storeVars => RefsReadable' BY StepKeepsReadable
<1> QED BY <1>1, <1>2, PTL DEF StoreSpec

-----------------------------------------------------------------------------
(***************************************************************************)
(* Fetch, for any repositories, references and commits, any number of      *)
(* pushes, commits and runs, and with a process that may die at any step:  *)
(* what clone and fetch do to a repository is what ObjectStore allows, and *)
(* fetch keeps the user's branches and tags.                               *)
(***************************************************************************)
(* References are maps from some of the names to elements of S. *)
RefMap(S) == UNION {[d -> S] : d \in SUBSET Name}

FetchPCs == {"idle", "connected", "have", "negotiate", "download", "index",
             "installPack", "installIndex", "refs", "tracking", "create", "branch",
             "createBranch", "delete", "deleteLocal", "head"}
PackOnTheWay == {"download", "index", "installPack", "installIndex"}
AtRef == {"tracking", "create", "branch", "createBranch"}
RefLoop == AtRef \cup {"refs", "delete", "deleteLocal", "head"}

RepoTypes ==
  [exists : BOOLEAN, heads : RefMap(Commits), remotes : RefMap(Commits),
   tags : RefMap(Commits), objs : SUBSET Commits, head : Name \cup {0},
   remoteHead : Name \cup {0}, mirror : BOOLEAN,
   conf : [written : BOOLEAN, all : BOOLEAN, branches : SUBSET Name]]
ProcessTypes ==
  [pc : FetchPCs, clone : BOOLEAN, all : BOOLEAN, delete : BOOLEAN, replace : BOOLEAN,
   wanted : SUBSET Name, wantedRefs : SUBSET Name, have : RefMap(Commits),
   theirs : RefMap(ServerCommits), symref : Name \cup {0}, pack : SUBSET Commits,
   todo : SUBSET Name, local : Name \cup {0}]

(* A repository in order: its objects need no other, its references name such objects,
   and except in a mirror they are where their kind belongs. *)
IsClosed(S) == \A o \in S : Anc[o] \subseteq S
RepoOK(r) ==
  /\ r \in RepoTypes
  /\ IsClosed(r.objs)
  /\ r.heads \in RefMap(r.objs) /\ r.remotes \in RefMap(r.objs) /\ r.tags \in RefMap(r.objs)
  /\ ~r.mirror => /\ DOMAIN r.heads \subseteq Branch /\ DOMAIN r.tags \subseteq Tag
                  /\ DOMAIN r.remotes \cap Tag = {}

(* A process in order, in a repository with these objects: they include what the helper
   says it has; together with the pack on its way they are what the references to be
   written need, and once the index is in place, without it.  What delete_missing_refs
   remembers is a branch that the server has, or the one it is about to delete. *)
ProcessOK(p, os) ==
  /\ p \in ProcessTypes
  /\ p.have \in RefMap(os)
  /\ p.pc \in PackOnTheWay => /\ IsClosed(os \cup p.pack)
                              /\ p.theirs \in RefMap(os \cup p.pack)
  /\ p.pc \in RefLoop => p.theirs \in RefMap(os)
  /\ p.pc \in {"refs"} \cup AtRef => p.todo \subseteq DOMAIN p.theirs
  /\ p.pc \in AtRef => p.todo # {} /\ (p.pc = "tracking" <=> p.clone)
  /\ p.pc \in {"branch", "createBranch"} => Min(p.todo) \in Branch
  /\ p.pc \in {"delete", "deleteLocal"} => p.delete
  /\ p.pc = "deleteLocal" => p.local \notin DOMAIN p.theirs \cap Branch
  /\ p.local # 0 /\ p.pc # "deleteLocal"
       => p.pc \in {"delete", "head"} /\ p.local \in DOMAIN p.theirs \cap Branch

(* There is a repository once a process has run, and a process that has ended has
   forgotten everything. *)
Lifetime ==
  /\ ~repo.exists => repo = NoRepo
  /\ f.pc = "idle" => f = NotRunning
  /\ f.pc # "idle" => repo.exists

ServerOK == server \in RefMap(ServerCommits) /\ default \in Name \cup {0}

FetchInv == ServerOK /\ RepoOK(repo) /\ ProcessOK(f, repo.objs) /\ Lifetime

(* The least number of a set of names is one of them. *)
LEMMA MinIsMember == ASSUME NEW S \in SUBSET Nat, S # {} PROVE Min(S) \in S
<1> DEFINE Less == {ss \in Nat \X Nat : ss[1] < ss[2]}
<1>1. IsWellFoundedOn(Less, Nat) BY NatLessThanWellFounded DEF OpToRel
<1> HIDE DEF Less
<1>2. \E x \in S : \A y \in S : ~(<<y, x>> \in Less)
  BY <1>1, S \subseteq Nat, WFMin, Zenon
<1>3. \A x, y \in Nat : <<y, x>> \in Less <=> y < x BY DEF Less
<1>4. PICK x \in S : \A y \in S : ~(<<y, x>> \in Less) BY <1>2
<1>5. ASSUME NEW y \in S PROVE x =< y
  <2>1. ~(<<y, x>> \in Less) BY <1>4
  <2>2. x \in Nat /\ y \in Nat OBVIOUS
  <2>3. ~(y < x) BY <1>3, <2>1, <2>2
  <2> QED BY <2>2, <2>3
<1> QED BY <1>5 DEF Min

(* What a map of references is, and that it stays one where more values are allowed. *)
LEMMA RefMapIs ==
  ASSUME NEW S, NEW r
  PROVE  r \in RefMap(S) <=> /\ r = [n \in DOMAIN r |-> r[n]] /\ DOMAIN r \subseteq Name
                             /\ \A n \in DOMAIN r : r[n] \in S
  BY DEF RefMap
(* A function on some of the names is a map of references. *)
LEMMA FunctionIsRefMap ==
  ASSUME NEW S, NEW D \in SUBSET Name, NEW r \in [D -> S] PROVE r \in RefMap(S)
  BY DEF RefMap
(* More values may be allowed. *)
LEMMA RefMapGrows ==
  ASSUME NEW S, NEW T, S \subseteq T, NEW r \in RefMap(S) PROVE r \in RefMap(T)
  BY RefMapIs
(* Writing a reference (got_ref_write) leaves a map of references. *)
LEMMA SetToIsRefMap ==
  ASSUME NEW S, NEW r \in RefMap(S), NEW n \in Name, NEW c \in S
  PROVE  SetTo(r, n, c) \in RefMap(S)
  BY RefMapIs DEF SetTo
(* So does deleting one (got_ref_delete). *)
LEMMA WithoutIsRefMap ==
  ASSUME NEW S, NEW r \in RefMap(S), NEW n PROVE Without(r, n) \in RefMap(S)
  BY RefMapIs DEF Without, Restrict
(* No references at all are one, too. *)
LEMMA EmptyIsRefMap == ASSUME NEW S PROVE Empty \in RefMap(S)
  BY RefMapIs DEF Empty

-----------------------------------------------------------------------------
(* A repository that does not exist yet and a process that has ended are in order. *)
LEMMA NothingIsOK ==
  /\ RepoOK(NoRepo) /\ \A S : ProcessOK(NotRunning, S)
  /\ NoRepo.objs = {} /\ ~NoRepo.exists /\ NotRunning.pc = "idle"
<1>1. NoRepo \in RepoTypes BY EmptyIsRefMap DEF NoRepo, NoConf, RepoTypes
<1>2. NotRunning \in ProcessTypes BY EmptyIsRefMap DEF NotRunning, ProcessTypes, FetchPCs
<1>3. RepoOK(NoRepo) BY <1>1, EmptyIsRefMap DEF RepoOK, IsClosed, NoRepo, Empty
<1>4. \A S : ProcessOK(NotRunning, S)
  BY <1>2, EmptyIsRefMap DEF ProcessOK, NotRunning, PackOnTheWay, RefLoop, AtRef
<1> QED BY <1>3, <1>4 DEF NoRepo, NotRunning

(* Objects that arrive do not disturb a process. *)
LEMMA ProcessOKGrows ==
  ASSUME NEW p, NEW S, NEW T, ProcessOK(p, S), S \subseteq T, IsClosed(T)
  PROVE  ProcessOK(p, T)
<1>1. IsClosed(S \cup p.pack) => IsClosed(T \cup p.pack) BY DEF IsClosed
<1>2. S \cup p.pack \subseteq T \cup p.pack OBVIOUS
<1> QED BY <1>1, <1>2, RefMapGrows DEF ProcessOK

(* The invariant holds before the first fetch or clone. *)
LEMMA FetchInitInv == FetchInit \/ FetchIdle => FetchInv
<1> SUFFICES ASSUME FetchInit \/ FetchIdle PROVE FetchInv
  OBVIOUS
<1>1. repo = NoRepo /\ f = NotRunning BY DEF FetchInit, FetchIdle
<1>2. ServerOK
  <2>1. Min(Branch) \in Branch /\ Min(ServerCommits) \in ServerCommits
    BY MinIsMember, FetchConstants
  <2>2. CASE FetchInit BY <2>1, <2>2, RefMapIs DEF FetchInit, Name, ServerOK
  <2>3. CASE FetchIdle BY <2>3, EmptyIsRefMap DEF FetchIdle, ServerOK
  <2> QED BY <2>2, <2>3
<1> QED BY <1>1, <1>2, NothingIsOK DEF FetchInv, Lifetime

(* A process that ends leaves a repository that it does not change in order. *)
LEMMA EndsInv ==
  ASSUME FetchInv, Ends, UNCHANGED <<server, default, repo>>
  PROVE  FetchInv'
  BY NothingIsOK DEF Ends, FetchInv, ServerOK, Lifetime

(* So does one that goes on in order. *)
LEMMA ProcessInv ==
  ASSUME FetchInv, ProcessOK(f', repo.objs), f'.pc # "idle", f.pc # "idle",
         UNCHANGED <<server, default, repo>>
  PROVE  FetchInv'
  BY DEF FetchInv, ServerOK, Lifetime

(* The same for a step that writes references. *)
LEMMA WriteRefsInv ==
  ASSUME FetchInv, RepoOK(repo'), repo'.objs = repo.objs, repo'.exists = repo.exists,
         ProcessOK(f', repo.objs), f.pc # "idle", f'.pc = "idle" => f' = NotRunning,
         UNCHANGED <<server, default>>
  PROVE  FetchInv'
  BY DEF FetchInv, ServerOK, Lifetime

(* Writing one reference keeps a repository in order. *)
LEMMA CreateRefOK ==
  ASSUME NEW r, RepoOK(r), NEW n \in Name, NEW c \in r.objs
  PROVE  /\ RepoOK(CreateRef(r, n, c))
         /\ CreateRef(r, n, c).objs = r.objs /\ CreateRef(r, n, c).exists = r.exists
<1>1. r \in RepoTypes /\ r.objs \subseteq Commits BY DEF RepoOK, RepoTypes
<1>2. \A m \in {r.heads, r.tags, r.remotes} :
        SetTo(m, n, c) \in RefMap(r.objs) /\ SetTo(m, n, c) \in RefMap(Commits)
  BY <1>1, SetToIsRefMap, RefMapGrows DEF RepoOK
<1>3. \A m : DOMAIN SetTo(m, n, c) = DOMAIN m \cup {n} BY DEF SetTo
<1>4. CASE r.mirror
  BY <1>1, <1>2, <1>3, <1>4 DEF CreateRef, RepoOK, RepoTypes
<1>5. CASE ~r.mirror /\ n \in Tag
  BY <1>1, <1>2, <1>3, <1>5 DEF CreateRef, RepoOK, RepoTypes
<1>6. CASE ~r.mirror /\ n \notin Tag
  BY <1>1, <1>2, <1>3, <1>6 DEF CreateRef, RepoOK, RepoTypes
<1> QED BY <1>4, <1>5, <1>6

(* So does writing a branch. *)
LEMMA SetHeadOK ==
  ASSUME NEW r, RepoOK(r), NEW n \in Branch, NEW c \in r.objs
  PROVE  /\ RepoOK([r EXCEPT !.heads = SetTo(@, n, c)])
         /\ [r EXCEPT !.heads = SetTo(@, n, c)].objs = r.objs
         /\ [r EXCEPT !.heads = SetTo(@, n, c)].exists = r.exists
<1>1. r \in RepoTypes /\ r.objs \subseteq Commits BY DEF RepoOK, RepoTypes
<1>2. SetTo(r.heads, n, c) \in RefMap(r.objs) /\ SetTo(r.heads, n, c) \in RefMap(Commits)
  BY <1>1, SetToIsRefMap, RefMapGrows DEF RepoOK, Name
<1>3. DOMAIN SetTo(r.heads, n, c) = DOMAIN r.heads \cup {n} BY DEF SetTo
<1> QED BY <1>1, <1>2, <1>3 DEF RepoOK, RepoTypes

(* Deleting references, too. *)
LEMMA DeleteRefsOK ==
  ASSUME NEW r, RepoOK(r), NEW n, NEW d,
         \/ d = [r EXCEPT !.remotes = Without(@, n), !.tags = Without(@, n)]
         \/ d = [r EXCEPT !.heads = Without(@, n)]
  PROVE  RepoOK(d) /\ d.objs = r.objs /\ d.exists = r.exists
<1>1. r \in RepoTypes /\ r.objs \subseteq Commits BY DEF RepoOK, RepoTypes
<1>2. /\ DOMAIN Without(r.heads, n) \subseteq DOMAIN r.heads
      /\ DOMAIN Without(r.tags, n) \subseteq DOMAIN r.tags
      /\ DOMAIN Without(r.remotes, n) \subseteq DOMAIN r.remotes
  BY DEF Without, Restrict
<1>3. /\ Without(r.heads, n) \in RefMap(r.objs) /\ Without(r.tags, n) \in RefMap(r.objs)
      /\ Without(r.remotes, n) \in RefMap(r.objs)
  BY WithoutIsRefMap DEF RepoOK
<1>4. /\ Without(r.heads, n) \in RefMap(Commits) /\ Without(r.tags, n) \in RefMap(Commits)
      /\ Without(r.remotes, n) \in RefMap(Commits)
  BY <1>1, <1>3, RefMapGrows
<1>5. CASE d = [r EXCEPT !.remotes = Without(@, n), !.tags = Without(@, n)]
  <2>1. d \in RepoTypes BY <1>1, <1>4, <1>5 DEF RepoTypes
  <2> QED BY <1>1, <1>2, <1>3, <1>5, <2>1 DEF RepoOK, RepoTypes
<1>6. CASE d = [r EXCEPT !.heads = Without(@, n)]
  <2>1. d \in RepoTypes BY <1>1, <1>4, <1>6 DEF RepoTypes
  <2> QED BY <1>1, <1>2, <1>3, <1>6, <2>1 DEF RepoOK, RepoTypes
<1> QED BY <1>5, <1>6

(* In the loop over the references, the reference at hand is one of the server's, and
   the repository has the commit. *)
LEMMA RefAtHand ==
  ASSUME FetchInv, f.pc \in {"refs"} \cup AtRef, f.todo # {}
  PROVE  Ref \in f.todo /\ Ref \in Name /\ f.theirs[Ref] \in repo.objs
<1>1. f.todo \in SUBSET Name /\ f.todo \subseteq DOMAIN f.theirs /\ f.theirs \in RefMap(repo.objs)
  BY DEF FetchInv, ProcessOK, ProcessTypes, RefLoop, AtRef
<1>2. f.todo \in SUBSET Nat BY <1>1, FetchConstants DEF Name
<1>3. Ref \in f.todo BY <1>2, MinIsMember DEF Ref
<1> QED BY <1>1, <1>3, RefMapIs

(* The loop goes on with the next reference, or stays with this one, after a write that
   leaves the repository in order. *)
StaysOK(pc) ==
  /\ pc \in {"branch", "createBranch"} => Ref \in Branch
  /\ pc = "tracking" <=> f.clone
LEMMA LoopInv ==
  ASSUME FetchInv, f.pc \in {"refs"} \cup AtRef, f.todo # {},
         RepoOK(repo'), repo'.objs = repo.objs, repo'.exists = repo.exists,
         UNCHANGED <<server, default>>,
         \/ NextRef
         \/ \E pc \in AtRef : Goes(pc) /\ StaysOK(pc)
  PROVE  FetchInv'
<1>0. ProcessOK(f, repo.objs) /\ f \in ProcessTypes BY DEF FetchInv, ProcessOK
<1>1. CASE NextRef
  <2>1. f' = [f EXCEPT !.pc = "refs", !.todo = f.todo \ {Ref}] BY <1>1 DEF NextRef
  <2>2. f' \in ProcessTypes BY <1>0, <2>1 DEF ProcessTypes, FetchPCs
  <2>3. ProcessOK(f', repo.objs)
    BY <1>0, <2>1, <2>2 DEF ProcessOK, ProcessTypes, PackOnTheWay, RefLoop, AtRef
  <2> QED BY <1>0, <2>1, <2>3, WriteRefsInv DEF ProcessTypes, AtRef
<1>2. ASSUME NEW pc \in AtRef, Goes(pc), StaysOK(pc)
      PROVE  FetchInv'
  <2>1. f' = [f EXCEPT !.pc = pc] BY <1>2 DEF Goes
  <2>2. f' \in ProcessTypes BY <1>0, <2>1 DEF ProcessTypes, FetchPCs, AtRef
  <2>3. ProcessOK(f', repo.objs)
    BY <1>0, <1>2, <2>1, <2>2 DEF ProcessOK, ProcessTypes, PackOnTheWay, RefLoop, AtRef, Ref, StaysOK
  <2> QED BY <1>0, <1>2, <2>1, <2>3, WriteRefsInv DEF ProcessTypes, AtRef
<1> QED BY <1>1, <1>2

(* Every step of fetch or clone, a push, a local commit, a failure and a kill keep the
   invariant. *)
LEMMA FetchStepInv == FetchInv /\ [FetchNext]_fetchVars => FetchInv'
<1> SUFFICES ASSUME FetchInv, [FetchNext]_fetchVars PROVE FetchInv'
  OBVIOUS
<1>0. /\ ServerOK /\ RepoOK(repo) /\ ProcessOK(f, repo.objs) /\ Lifetime
      /\ f \in ProcessTypes /\ repo \in RepoTypes
  BY DEF FetchInv, ProcessOK, RepoOK
<1>1. CASE UNCHANGED fetchVars
  BY <1>1 DEF fetchVars, FetchInv, ServerOK, Lifetime
<1>2. ASSUME NEW all \in BOOLEAN, NEW mirror \in BOOLEAN, NEW wantedRefs \in {{}, Other},
             NEW wanted \in {{}} \cup {{b} : b \in Branch}, Clone(all, mirror, wanted, wantedRefs)
      PROVE  FetchInv'
  <2>1. RepoOK(repo') /\ repo'.exists
    BY <1>2, NothingIsOK DEF Clone, RepoOK, RepoTypes, NoRepo
  <2>2. ProcessOK(f', repo'.objs)
    BY <1>2, NothingIsOK DEF Clone, ProcessOK, ProcessTypes, FetchPCs, PackOnTheWay, RefLoop, AtRef,
                             Name, NotRunning
  <2> QED BY <1>0, <1>2, <2>1, <2>2 DEF Clone, FetchInv, ServerOK, Lifetime, NotRunning
<1>3. ASSUME NEW all \in BOOLEAN, NEW delete \in BOOLEAN, NEW replace \in BOOLEAN,
             NEW wanted \in {{}} \cup {{b} : b \in Branch}, NEW wantedRefs \in {{}, Other},
             FetchCmd(all, delete, replace, wanted, wantedRefs)
      PROVE  FetchInv'
  <2>1. f' \in ProcessTypes
    <3> DEFINE every == all \/ (wanted = {} /\ repo.conf.all)
               bs == IF wanted = {} THEN repo.conf.branches ELSE wanted
    <3>1. bs \in SUBSET Name BY <1>0 DEF RepoTypes, Name
    <3>2. wantedRefs \in SUBSET Name BY DEF Name
    <3>3. f' = [pc |-> "connected", clone |-> FALSE, all |-> every, delete |-> delete,
                replace |-> replace, wanted |-> bs, wantedRefs |-> wantedRefs,
                have |-> Empty, theirs |-> Empty, symref |-> 0, pack |-> {}, todo |-> {},
                local |-> 0]
      BY <1>3 DEF FetchCmd, NotRunning
    <3>4. every \in BOOLEAN OBVIOUS
    <3> HIDE DEF every, bs
    <3> QED BY <3>1, <3>2, <3>3, <3>4, EmptyIsRefMap DEF ProcessTypes, FetchPCs
  <2>2. ProcessOK(f', repo.objs)
    BY <1>3, <2>1, EmptyIsRefMap DEF FetchCmd, ProcessOK, NotRunning, PackOnTheWay, RefLoop, AtRef
  <2> QED BY <1>0, <1>3, <2>2 DEF FetchCmd, FetchInv, ServerOK, Lifetime, NotRunning
<1>4. CASE HaveRefs
  <2>1. f'.have \in RefMap(repo.objs) /\ f'.have \in RefMap(Commits)
    <3>1. repo.objs \subseteq Commits BY <1>0 DEF RepoTypes
    <3>2. CASE repo.mirror BY <1>0, <1>4, <3>1, <3>2, RefMapGrows DEF HaveRefs, RepoOK, ProcessTypes
    <3>3. CASE ~repo.mirror
      <4> DEFINE names == DOMAIN repo.tags \cup (DOMAIN repo.remotes \cap Branch)
                 mine == [n \in names |-> IF n \in Tag THEN repo.tags[n] ELSE repo.remotes[n]]
      <4>1. f'.have = mine BY <1>0, <1>4, <3>3 DEF HaveRefs, ProcessTypes
      <4>2. names \subseteq Name BY <1>0, RefMapIs DEF RepoOK, Name
      <4>3. \A n \in names : mine[n] \in repo.objs
        BY <1>0, <3>3, RefMapIs DEF RepoOK
      <4>4. mine \in [names -> repo.objs] BY <4>3
      <4>5. mine \in RefMap(repo.objs) BY <4>2, <4>4, FunctionIsRefMap
      <4> QED BY <3>1, <4>1, <4>5, RefMapGrows
    <3> QED BY <3>2, <3>3
  <2>2. f' = [f EXCEPT !.pc = "have", !.have = f'.have]
    BY <1>0, <1>4 DEF HaveRefs, ProcessTypes
  <2>3. f' \in ProcessTypes BY <1>0, <2>1, <2>2 DEF ProcessTypes, FetchPCs
  <2>4. f.pc = "connected" BY <1>4 DEF HaveRefs, FetchAt
  <2>5. ProcessOK(f', repo.objs)
    BY <1>0, <2>1, <2>2, <2>3, <2>4 DEF ProcessOK, ProcessTypes, PackOnTheWay, RefLoop, AtRef
  <2> QED BY <1>0, <1>4, <2>2, <2>4, <2>5, ProcessInv DEF HaveRefs, ProcessTypes
<1>5. CASE Advertise
  <2>1. CASE ~FoundBranch BY <1>5, <2>1, EndsInv DEF Advertise
  <2>2. CASE FoundBranch
    <3>1. Restrict(server, Asked) \in RefMap(ServerCommits)
      <4>1. Asked \subseteq Name /\ \A n \in Asked : server[n] \in ServerCommits
        BY <1>0, RefMapIs DEF ServerOK, Asked
      <4>2. Restrict(server, Asked) \in [Asked -> ServerCommits] BY <4>1 DEF Restrict
      <4> QED BY <4>1, <4>2, FunctionIsRefMap
    <3>2. ProcessOK(f', repo.objs)
      <4>1. f' = [f EXCEPT !.pc = "negotiate", !.theirs = Restrict(server, Asked),
                           !.symref = default]
        BY <1>5, <2>2 DEF Advertise
      <4>2. f' \in ProcessTypes BY <1>0, <3>1, <4>1 DEF ProcessTypes, FetchPCs, ServerOK
      <4> QED BY <1>0, <1>5, <4>1, <4>2 DEF Advertise, FetchAt, ProcessOK, ProcessTypes,
                                            PackOnTheWay, RefLoop, AtRef
    <3> QED BY <1>0, <1>5, <2>2, <3>2, ProcessInv DEF Advertise, FetchAt, ProcessTypes
  <2> QED BY <2>1, <2>2
<1>6. CASE Negotiate
  <2>0. f.pc = "negotiate" /\ f.theirs \in RefMap(ServerCommits) /\ f.have \in RefMap(repo.objs)
    BY <1>0, <1>6 DEF Negotiate, SendPack, FetchAt, ProcessOK, ProcessTypes
  <2>1. Want \subseteq ServerCommits /\ Have \subseteq repo.objs
    BY <2>0, RefMapIs DEF Want, Have
  <2>2. Closure(Want) \subseteq Commits /\ IsClosed(Closure(Want)) /\ Want \subseteq Closure(Want)
    BY <2>1, AncIsClosed, FetchConstants DEF Closure, IsClosed
  <2>3. Closure(Common) \subseteq repo.objs
    BY <1>0, <2>1 DEF Closure, Common, RepoOK, IsClosed
  <2>4. \A n \in DOMAIN f.theirs : f.theirs[n] \in Want \cup repo.objs
    BY <2>0, RefMapIs DEF Want
  <2>5. CASE Want = {}
    <3>1. f' = [f EXCEPT !.pc = "refs", !.todo = DOMAIN f.theirs]
      BY <1>6, <2>5 DEF Negotiate, SendPack
    <3>2. f.theirs \in RefMap(repo.objs) BY <2>0, <2>4, <2>5, RefMapIs
    <3>3. DOMAIN f.theirs \subseteq Name BY <2>0, RefMapIs
    <3>4. f' \in ProcessTypes BY <1>0, <3>1, <3>3 DEF ProcessTypes, FetchPCs
    <3>5. ProcessOK(f', repo.objs)
      BY <1>0, <2>0, <3>1, <3>2, <3>4 DEF ProcessOK, ProcessTypes, PackOnTheWay, AtRef
    <3> QED BY <1>0, <1>6, <2>0, <3>1, <3>5, ProcessInv DEF Negotiate, SendPack, ProcessTypes
  <2>6. CASE Want # {}
    <3> DEFINE sent == Closure(Want) \ Closure(Common)
    <3>1. f' = [f EXCEPT !.pc = "download", !.pack = sent]
      BY <1>6, <2>6 DEF Negotiate, SendPack
    <3>2. sent \subseteq Commits BY <2>2
    <3>3. repo.objs \cup sent = repo.objs \cup Closure(Want) BY <2>3
    <3>4. IsClosed(repo.objs \cup sent)
      BY <1>0, <2>2, <3>3 DEF IsClosed, RepoOK
    <3>5. f.theirs \in RefMap(repo.objs \cup sent) BY <2>0, <2>2, <2>4, <3>3, RefMapIs
    <3> HIDE DEF sent
    <3>6. f' \in ProcessTypes BY <1>0, <3>1, <3>2 DEF ProcessTypes, FetchPCs
    <3>7. ProcessOK(f', repo.objs)
      BY <1>0, <2>0, <3>1, <3>4, <3>5, <3>6 DEF ProcessOK, ProcessTypes, RefLoop, AtRef
    <3> QED BY <1>0, <1>6, <2>0, <3>1, <3>7, ProcessInv DEF Negotiate, SendPack, ProcessTypes
  <2> QED BY <2>5, <2>6
<1>7. CASE CreateConfigFiles
  <2>1. repo' \in RepoTypes
    <3> DEFINE bs == IF f.all THEN {} ELSE IF f.wanted # {} THEN f.wanted ELSE {f.symref}
               conf == [written |-> TRUE, all |-> f.all, branches |-> bs]
    <3>1. bs \in SUBSET Name BY <1>0, <1>7 DEF CreateConfigFiles, ProcessTypes
    <3>2. f.all \in BOOLEAN BY <1>0 DEF ProcessTypes
    <3>3. conf \in [written : BOOLEAN, all : BOOLEAN, branches : SUBSET Name] BY <3>1, <3>2
    <3>4. repo' = [repo EXCEPT !.conf = conf] BY <1>7 DEF CreateConfigFiles
    <3> HIDE DEF conf
    <3> QED BY <1>0, <3>3, <3>4 DEF RepoTypes
  <2>2. RepoOK(repo') /\ repo'.objs = repo.objs /\ repo'.exists = repo.exists
    BY <1>0, <1>7, <2>1 DEF CreateConfigFiles, RepoOK, RepoTypes
  <2>3. f.pc # "idle" BY <1>7 DEF CreateConfigFiles, FetchAt
  <2> QED BY <1>0, <1>7, <2>2, <2>3 DEF CreateConfigFiles, FetchInv, ServerOK, Lifetime
<1>8. CASE Downloaded
  <2>0. f.pc = "download" BY <1>8 DEF Downloaded, FetchAt
  <2>1. CASE f.pack = {}
    <3>1. f' = [f EXCEPT !.pc = "refs", !.todo = DOMAIN f.theirs] BY <1>8, <2>1 DEF Downloaded
    <3>2. f.theirs \in RefMap(repo.objs)
      <4>1. repo.objs \cup f.pack = repo.objs BY <2>1
      <4> QED BY <1>0, <2>0, <4>1 DEF ProcessOK, PackOnTheWay
    <3>3. DOMAIN f.theirs \subseteq Name BY <3>2, RefMapIs
    <3>4. f' \in ProcessTypes BY <1>0, <3>1, <3>3 DEF ProcessTypes, FetchPCs
    <3>5. ProcessOK(f', repo.objs)
      BY <1>0, <2>0, <3>1, <3>2, <3>4 DEF ProcessOK, ProcessTypes, PackOnTheWay, AtRef
    <3> QED BY <1>0, <1>8, <2>0, <3>1, <3>5, ProcessInv DEF Downloaded, ProcessTypes
  <2>2. CASE f.pack # {}
    <3>1. f' = [f EXCEPT !.pc = "index"] BY <1>8, <2>2 DEF Downloaded, Goes
    <3>2. f' \in ProcessTypes BY <1>0, <3>1 DEF ProcessTypes, FetchPCs
    <3>3. ProcessOK(f', repo.objs)
      BY <1>0, <2>0, <3>1, <3>2 DEF ProcessOK, ProcessTypes, PackOnTheWay, RefLoop, AtRef
    <3> QED BY <1>0, <1>8, <2>0, <3>1, <3>3, ProcessInv DEF Downloaded, ProcessTypes
  <2> QED BY <2>1, <2>2
<1>9. CASE Index \/ InstallPack
  <2>1. PICK pc \in {"installPack", "installIndex"} : f' = [f EXCEPT !.pc = pc]
    BY <1>9 DEF Index, InstallPack, Goes
  <2>2. f.pc \in {"index", "installPack"} /\ UNCHANGED <<server, default, repo>>
    BY <1>9 DEF Index, InstallPack, FetchAt
  <2>3. f' \in ProcessTypes BY <1>0, <2>1 DEF ProcessTypes, FetchPCs
  <2>4. ProcessOK(f', repo.objs)
    BY <1>0, <2>1, <2>2, <2>3 DEF ProcessOK, ProcessTypes, PackOnTheWay, RefLoop, AtRef
  <2> QED BY <1>0, <2>1, <2>2, <2>4, ProcessInv DEF ProcessTypes
<1>10. CASE InstallIndex
  <2>0. f.pc = "installIndex" BY <1>10 DEF InstallIndex, FetchAt
  <2>1. f' = [f EXCEPT !.pc = "refs", !.todo = DOMAIN f.theirs]
    BY <1>10 DEF InstallIndex
  <2>2. repo' = [repo EXCEPT !.objs = repo.objs \cup f.pack] BY <1>10 DEF InstallIndex
  <2>3. IsClosed(repo.objs \cup f.pack) /\ f.theirs \in RefMap(repo.objs \cup f.pack)
    BY <1>0, <2>0 DEF ProcessOK, PackOnTheWay
  <2>4. RepoOK(repo') /\ repo'.objs = repo.objs \cup f.pack /\ repo'.exists = repo.exists
    <3>1. f.pack \subseteq Commits BY <1>0 DEF ProcessTypes
    <3>2. repo' \in RepoTypes BY <1>0, <2>2, <3>1 DEF RepoTypes
    <3> QED BY <1>0, <2>2, <2>3, <3>2, RefMapGrows DEF RepoOK, RepoTypes
  <2>5. ProcessOK(f', repo'.objs)
    <3>1. DOMAIN f.theirs \subseteq Name BY <2>3, RefMapIs
    <3>2. f' \in ProcessTypes BY <1>0, <2>1, <3>1 DEF ProcessTypes, FetchPCs
    <3>3. f.have \in RefMap(repo'.objs) BY <1>0, <2>4, RefMapGrows DEF ProcessOK
    <3> QED BY <1>0, <2>0, <2>1, <2>3, <2>4, <3>2, <3>3 DEF ProcessOK, ProcessTypes, PackOnTheWay, AtRef
  <2> QED BY <1>0, <1>10, <2>0, <2>1, <2>4, <2>5
          DEF InstallIndex, FetchInv, ServerOK, Lifetime, ProcessTypes
<1>11. ASSUME CloneRefs \/ TrackingRef \/ UpdateRefs \/ CreateMissing PROVE FetchInv'
  <2>0. f.pc \in {"refs"} \cup AtRef /\ f.todo # {} /\ UNCHANGED <<server, default>>
    BY <1>0, <1>11 DEF CloneRefs, TrackingRef, UpdateRefs, CreateMissing, FetchAt, ProcessOK, AtRef
  <2>1. Ref \in f.todo /\ Ref \in Name /\ f.theirs[Ref] \in repo.objs BY <2>0, RefAtHand
  <2>2. RepoOK(repo') /\ repo'.objs = repo.objs /\ repo'.exists = repo.exists
    <3>1. CASE repo' = repo BY <1>0, <3>1
    <3>2. CASE repo' = CreateRef(repo, Ref, f.theirs[Ref]) BY <1>0, <2>1, <3>2, CreateRefOK
    <3>3. CASE Ref \in Branch /\ repo' = [repo EXCEPT !.heads = SetTo(@, Ref, f.theirs[Ref])]
      BY <1>0, <2>1, <3>3, SetHeadOK
    <3> QED BY <1>11, <3>1, <3>2, <3>3
            DEF CloneRefs, TrackingRef, UpdateRefs, CreateMissing, UpdateRef
  <2>3. NextRef \/ \E pc \in AtRef : Goes(pc) /\ StaysOK(pc)
    BY <1>0, <1>11 DEF StaysOK, FetchAt, ProcessOK, CloneRefs, TrackingRef, UpdateRefs, CreateMissing, HasLocalBranch, AtRef
  <2> QED BY <2>0, <2>2, <2>3, LoopInv
<1>12. ASSUME LookForBranch \/ CreateLocalBranch PROVE FetchInv'
  <2>0. /\ f.pc \in {"refs"} \cup AtRef /\ f.todo # {} /\ UNCHANGED <<server, default>>
        /\ Ref \in Branch
    BY <1>0, <1>12 DEF LookForBranch, CreateLocalBranch, FetchAt, ProcessOK, AtRef, Ref
  <2>1. Ref \in f.todo /\ Ref \in Name /\ f.theirs[Ref] \in repo.objs BY <2>0, RefAtHand
  <2>2. RepoOK(repo') /\ repo'.objs = repo.objs /\ repo'.exists = repo.exists
    <3>1. CASE repo' = repo BY <1>0, <3>1
    <3>2. CASE repo' = [repo EXCEPT !.heads = SetTo(@, Ref, f.theirs[Ref])]
      BY <1>0, <2>0, <2>1, <3>2, SetHeadOK
    <3> QED BY <1>12, <3>1, <3>2 DEF LookForBranch, CreateLocalBranch
  <2>3. NextRef \/ \E pc \in AtRef : Goes(pc) /\ StaysOK(pc)
    BY <1>0, <1>12, <2>0 DEF StaysOK, FetchAt, ProcessOK, LookForBranch, CreateLocalBranch, AtRef
  <2> QED BY <2>0, <2>2, <2>3, LoopInv
<1>13. CASE RefsDone
  <2>0. f.pc = "refs" /\ UNCHANGED <<server, default, repo>> BY <1>13 DEF RefsDone, FetchAt
  <2>1. CASE f.delete
    <3> DEFINE all == IF repo.mirror THEN DOMAIN repo.heads
                      ELSE DOMAIN repo.remotes \cup DOMAIN repo.tags
    <3>1. f' = [f EXCEPT !.pc = "delete", !.todo = all] BY <1>13, <2>1 DEF RefsDone
    <3>2. all \in SUBSET Name BY <1>0, RefMapIs DEF RepoOK
    <3> HIDE DEF all
    <3>3. f' \in ProcessTypes BY <1>0, <3>1, <3>2 DEF ProcessTypes, FetchPCs
    <3>4. ProcessOK(f', repo.objs)
      BY <1>0, <2>0, <2>1, <3>1, <3>3 DEF ProcessOK, ProcessTypes, PackOnTheWay, RefLoop, AtRef
    <3> QED BY <1>0, <2>0, <3>1, <3>4, ProcessInv DEF ProcessTypes
  <2>2. CASE ~f.delete
    <3>1. f' = [f EXCEPT !.pc = "head"] BY <1>13, <2>2 DEF RefsDone, Goes
    <3>2. f' \in ProcessTypes BY <1>0, <3>1 DEF ProcessTypes, FetchPCs
    <3>3. ProcessOK(f', repo.objs)
      BY <1>0, <2>0, <3>1, <3>2 DEF ProcessOK, ProcessTypes, PackOnTheWay, RefLoop, AtRef
    <3> QED BY <1>0, <2>0, <3>1, <3>3, ProcessInv DEF ProcessTypes
  <2> QED BY <2>1, <2>2
<1>14. CASE DeleteMissingRefs
  <2> DEFINE n == NextMine
             local == LocalRefname(n)
             rest == [f EXCEPT !.todo = f.todo \ {n}, !.local = local]
  <2>0. f.pc = "delete" /\ f.todo # {} /\ UNCHANGED <<server, default>>
    BY <1>14 DEF DeleteMissingRefs, FetchAt
  <2>1. CASE Ends /\ UNCHANGED repo BY <1>14, <2>0, <2>1, EndsInv
  <2>2. CASE local # 0 /\ TheirRef(local) /\ f' = rest /\ UNCHANGED repo
    <3>1. local \in DOMAIN f.theirs \cap Branch BY <2>2 DEF TheirRef
    <3>2. local \in Name BY <3>1 DEF Name
    <3> HIDE DEF local, n
    <3>3. f' \in ProcessTypes BY <1>0, <2>2, <3>2 DEF ProcessTypes
    <3>4. ProcessOK(f', repo.objs)
      BY <1>0, <2>0, <2>2, <3>1, <3>3 DEF ProcessOK, ProcessTypes, PackOnTheWay, RefLoop, AtRef
    <3> QED BY <1>0, <2>0, <2>2, <3>4, ProcessInv DEF ProcessTypes
  <2>3. CASE /\ local # 0 /\ ~TheirRef(local) /\ f' = [rest EXCEPT !.pc = "deleteLocal"]
             /\ \/ repo' = [repo EXCEPT !.remotes = Without(@, n), !.tags = Without(@, n)]
                \/ UNCHANGED repo
    <3>1. RepoOK(repo') /\ repo'.objs = repo.objs /\ repo'.exists = repo.exists
      <4> HIDE DEF n, local
      <4>1. CASE UNCHANGED repo BY <1>0, <4>1
      <4>2. CASE repo' = [repo EXCEPT !.remotes = Without(@, n), !.tags = Without(@, n)]
        BY <1>0, <4>2, DeleteRefsOK
      <4> QED BY <2>3, <4>1, <4>2
    <3>2. f' = [f EXCEPT !.pc = "deleteLocal", !.todo = f.todo \ {n}, !.local = local]
      <4> HIDE DEF n, local
      <4> QED BY <1>0, <2>3 DEF ProcessTypes
    <3>3. local \in Name
      <4>1. f.todo \in SUBSET Name /\ f.local \in Name \cup {0} BY <1>0 DEF ProcessTypes
      <4>2. f.todo \in SUBSET Nat /\ f.todo \ Tag \in SUBSET Nat BY <4>1, FetchConstants DEF Name
      <4>3. n \in Name BY <2>0, <4>1, <4>2, MinIsMember DEF NextMine
      <4> QED BY <2>3, <4>1, <4>3 DEF LocalRefname
    <3>4. local \notin DOMAIN f.theirs \cap Branch BY <2>3 DEF TheirRef
    <3> HIDE DEF n, local
    <3>5. f' \in ProcessTypes BY <1>0, <3>2, <3>3 DEF ProcessTypes, FetchPCs
    <3>6. ProcessOK(f', repo.objs)
      BY <1>0, <2>0, <3>2, <3>4, <3>5 DEF ProcessOK, ProcessTypes, PackOnTheWay, RefLoop, AtRef
    <3> QED BY <1>0, <2>0, <3>1, <3>2, <3>6, WriteRefsInv DEF ProcessTypes
  <2> QED BY <1>14, <2>1, <2>2, <2>3 DEF DeleteMissingRefs
<1>21. CASE DeleteLocalBranch
  <2>0. f.pc = "deleteLocal" /\ UNCHANGED <<server, default>> BY <1>21 DEF DeleteLocalBranch, FetchAt
  <2>1. RepoOK(repo') /\ repo'.objs = repo.objs /\ repo'.exists = repo.exists
    <3>1. CASE UNCHANGED repo BY <1>0, <3>1
    <3>2. CASE repo' = [repo EXCEPT !.heads = Without(@, f.local)] BY <1>0, <3>2, DeleteRefsOK
    <3> QED BY <1>21, <3>1, <3>2 DEF DeleteLocalBranch
  <2>2. f' = [f EXCEPT !.pc = "delete", !.local = 0] BY <1>21 DEF DeleteLocalBranch
  <2>3. f' \in ProcessTypes BY <1>0, <2>2 DEF ProcessTypes, FetchPCs
  <2>4. ProcessOK(f', repo.objs)
    BY <1>0, <2>0, <2>2, <2>3 DEF ProcessOK, ProcessTypes, PackOnTheWay, RefLoop, AtRef
  <2> QED BY <1>0, <2>0, <2>1, <2>2, <2>4, WriteRefsInv DEF ProcessTypes
<1>15. CASE DeleteDone
  <2>0. f.pc = "delete" /\ UNCHANGED <<server, default, repo>> BY <1>15 DEF DeleteDone, FetchAt
  <2>1. f' = [f EXCEPT !.pc = "head"] BY <1>15 DEF DeleteDone, Goes
  <2>2. f' \in ProcessTypes BY <1>0, <2>1 DEF ProcessTypes, FetchPCs
  <2>3. ProcessOK(f', repo.objs)
    BY <1>0, <2>0, <2>1, <2>2 DEF ProcessOK, ProcessTypes, PackOnTheWay, RefLoop, AtRef
  <2> QED BY <1>0, <2>0, <2>1, <2>3, ProcessInv DEF ProcessTypes
<1>16. CASE UpdateSymref
  <2>1. PICK h, m : repo' = [repo EXCEPT !.remoteHead = h, !.head = m]
    BY <1>16 DEF UpdateSymref
  <2>2. repo' \in RepoTypes
    <3> DEFINE fetched == f.wanted \cap DOMAIN repo.heads
    <3>1. fetched # {} => Min(fetched) \in Name
      <4>1. fetched \in SUBSET Nat BY <1>0, FetchConstants DEF ProcessTypes, Name
      <4> QED BY <1>0, <4>1, MinIsMember DEF ProcessTypes
    <3>2. repo'.remoteHead = IF ~repo.mirror /\ f.symref \in DOMAIN repo.remotes
                             THEN f.symref ELSE repo.remoteHead
      BY <1>0, <1>16 DEF UpdateSymref, RepoTypes
    <3>3. repo'.head = IF f.clone THEN ClonedHead ELSE repo.head
      BY <1>0, <1>16 DEF UpdateSymref, RepoTypes
    <3>4. ClonedHead = IF fetched # {} THEN Min(fetched)
                       ELSE IF f.symref \in DOMAIN repo.heads THEN f.symref ELSE repo.head
      BY DEF ClonedHead
    <3> HIDE DEF fetched
    <3>5. repo'.remoteHead \in Name \cup {0} /\ repo'.head \in Name \cup {0}
      BY <1>0, <3>1, <3>2, <3>3, <3>4 DEF RepoTypes, ProcessTypes
    <3> QED BY <1>0, <2>1, <3>5 DEF RepoTypes
  <2>3. RepoOK(repo') /\ repo'.objs = repo.objs /\ repo'.exists = repo.exists
    BY <1>0, <2>1, <2>2 DEF RepoOK, RepoTypes
  <2>4. f' = NotRunning /\ f.pc # "idle" /\ UNCHANGED <<server, default>>
    BY <1>16 DEF UpdateSymref, Ends, FetchAt
  <2> QED BY <2>3, <2>4, NothingIsOK, WriteRefsInv
<1>17. CASE Die
  BY <1>17, EndsInv DEF Die
<1>18. ASSUME NEW n \in Name, NEW c \in ServerCommits, Push(n, c) PROVE FetchInv'
  <2>1. server' \in RefMap(ServerCommits)
    BY <1>0, <1>18, SetToIsRefMap, WithoutIsRefMap DEF Push, ServerOK
  <2> QED BY <1>0, <1>18, <2>1 DEF Push, FetchInv, ServerOK, Lifetime
<1>19. ASSUME NEW c \in Commits, LocalObjects(c) PROVE FetchInv'
  <2>1. repo' = [repo EXCEPT !.objs = repo.objs \cup {c}] /\ repo.exists
        /\ Anc[c] \subseteq repo.objs \cup {c}
    BY <1>19 DEF LocalObjects
  <2>2. repo'.objs = repo.objs \cup {c} /\ repo'.exists = repo.exists BY <1>0, <2>1 DEF RepoTypes
  <2>3. IsClosed(repo'.objs) BY <1>0, <2>1, <2>2 DEF IsClosed, RepoOK
  <2>4. RepoOK(repo')
    <3>1. repo' \in RepoTypes BY <1>0, <2>1 DEF RepoTypes
    <3> QED BY <1>0, <2>1, <2>2, <2>3, <3>1, RefMapGrows DEF RepoOK, RepoTypes
  <2>5. ProcessOK(f, repo'.objs) BY <1>0, <2>2, <2>3, ProcessOKGrows
  <2> QED BY <1>0, <1>19, <2>1, <2>2, <2>4, <2>5 DEF LocalObjects, FetchInv, ServerOK, Lifetime
<1>20. ASSUME NEW b \in Branch, NEW c \in Commits, LocalCommit(b, c) PROVE FetchInv'
  <2>1. repo' = [repo EXCEPT !.heads = SetTo(@, b, c)] /\ c \in repo.objs
    BY <1>20 DEF LocalCommit
  <2>2. RepoOK(repo') /\ repo'.objs = repo.objs /\ repo'.exists = repo.exists
    BY <1>0, <2>1, SetHeadOK
  <2>3. repo.exists BY <1>0, <2>1, NothingIsOK DEF Lifetime
  <2> QED BY <1>0, <1>20, <2>2, <2>3 DEF LocalCommit, FetchInv, ServerOK, Lifetime
<1>22. ASSUME NEW t \in Tag, NEW c \in Commits, LocalTag(t, c) PROVE FetchInv'
  <2>1. repo' = CreateRef(repo, t, c) /\ c \in repo.objs /\ t \in Name
    BY <1>22 DEF LocalTag, CreateRef, Name
  <2>2. RepoOK(repo') /\ repo'.objs = repo.objs /\ repo'.exists = repo.exists
    BY <1>0, <2>1, CreateRefOK
  <2>3. repo.exists BY <1>0, <2>1, NothingIsOK DEF Lifetime
  <2> QED BY <1>0, <1>22, <2>2, <2>3 DEF LocalTag, FetchInv, ServerOK, Lifetime
<1> QED
  BY <1>1, <1>2, <1>3, <1>4, <1>5, <1>6, <1>7, <1>8, <1>9, <1>10, <1>11, <1>12, <1>13, <1>14,
     <1>15, <1>16, <1>17, <1>18, <1>19, <1>20, <1>21, <1>22 DEF FetchNext, FetchProcess

-----------------------------------------------------------------------------
(* The references of a repository in order name objects that it has. *)
LEMMA RefsNameObjects == RepoOK(repo) => Range(RepoRefs) \subseteq repo.objs
<1> SUFFICES ASSUME RepoOK(repo), NEW c \in Range(RepoRefs) PROVE c \in repo.objs
  OBVIOUS
<1> DEFINE space == [heads |-> repo.heads, remotes |-> repo.remotes, tags |-> repo.tags]
<1>1. PICK r \in DOMAIN RepoRefs : c = RepoRefs[r] BY DEF Range
<1>2. PICK k \in {"heads", "remotes", "tags"} : r \in {k} \X DOMAIN space[k]
  BY <1>1 DEF RepoRefs
<1>3. c = space[k][r[2]] /\ r[2] \in DOMAIN space[k] BY <1>1, <1>2 DEF RepoRefs
<1>4. space[k] \in RefMap(repo.objs) BY <1>2 DEF RepoOK
<1> QED BY <1>3, <1>4, RefMapIs

(* The mapping depends on the references only. *)
LEMMA SameRefs ==
  ASSUME repo'.heads = repo.heads, repo'.remotes = repo.remotes, repo'.tags = repo.tags
  PROVE  RepoRefs' = RepoRefs
  BY DEF RepoRefs

(* Every step of Fetch is one of ObjectStore's, or leaves objects and references alone:
   objects arrive when the index is installed and when the user commits; all else
   writes references, if anything. *)
LEMMA FetchStepRefines ==
  FetchInv /\ FetchInv' /\ [FetchNext]_fetchVars
    => [FetchedObjects!StoreNext]_(FetchedObjects!storeVars)
<1> SUFFICES ASSUME FetchInv, FetchInv', [FetchNext]_fetchVars
             PROVE  [FetchedObjects!StoreNext]_(FetchedObjects!storeVars)
  OBVIOUS
<1>0. RepoOK(repo) /\ RepoOK(repo') /\ repo \in RepoTypes /\ ProcessOK(f, repo.objs) /\ Lifetime
  BY DEF FetchInv, RepoOK
<1>1. ASSUME repo'.objs = repo.objs PROVE FetchedObjects!SetRefs
  <2>1. (RepoOK(repo) => Range(RepoRefs) \subseteq repo.objs)' BY RefsNameObjects, PTL
  <2>2. Range(RepoRefs') \subseteq repo'.objs BY <1>0, <2>1
  <2> QED BY <1>1, <2>2 DEF FetchedObjects!SetRefs, FetchedObjects!Range, Range
<1>2. CASE repo'.objs = repo.objs
  BY <1>1, <1>2 DEF FetchedObjects!StoreNext
<1>3. ASSUME NEW S, repo' = [repo EXCEPT !.objs = repo.objs \cup S]
      PROVE  FetchedObjects!AddObjects
  <2>1. repo.objs \subseteq repo'.objs BY <1>0, <1>3 DEF RepoTypes
  <2>2. RepoRefs' = RepoRefs BY <1>0, <1>3, SameRefs DEF RepoTypes
  <2>3. IsClosed(repo'.objs) BY <1>0 DEF RepoOK
  <2> QED BY <2>1, <2>2, <2>3
          DEF FetchedObjects!AddObjects, FetchedObjects!Complete, FetchNeeds, IsClosed
<1>4. CASE InstallIndex
  BY <1>3, <1>4 DEF InstallIndex, FetchedObjects!StoreNext
<1>5. ASSUME NEW c \in Commits, LocalObjects(c) PROVE FetchedObjects!StoreNext
  BY <1>3, <1>5 DEF LocalObjects, FetchedObjects!StoreNext
<1>6. ASSUME NEW all, NEW mirror, NEW wanted, NEW wantedRefs, Clone(all, mirror, wanted, wantedRefs)
      PROVE  repo'.objs = repo.objs
  BY <1>0, <1>6 DEF Clone, Lifetime, NoRepo
<1>7. CASE UNCHANGED repo BY <1>2, <1>7
<1>8. CASE CreateConfigFiles BY <1>0, <1>2, <1>8 DEF CreateConfigFiles, RepoTypes
<1>9. CASE \/ CloneRefs \/ TrackingRef \/ UpdateRefs \/ CreateMissing
           \/ LookForBranch \/ CreateLocalBranch
  <2>1. CASE UNCHANGED repo BY <1>7, <2>1
  <2>2. CASE repo' = CreateRef(repo, Ref, f.theirs[Ref])
    BY <1>0, <1>2, <2>2 DEF CreateRef, RepoTypes
  <2>3. CASE repo' = [repo EXCEPT !.heads = SetTo(@, Ref, f.theirs[Ref])]
    BY <1>0, <1>2, <2>3 DEF RepoTypes
  <2> QED BY <1>9, <2>1, <2>2, <2>3
          DEF CloneRefs, TrackingRef, UpdateRefs, UpdateRef, CreateMissing, LookForBranch,
              CreateLocalBranch
<1>10. CASE DeleteMissingRefs \/ DeleteLocalBranch
  <2>1. CASE UNCHANGED repo BY <1>7, <2>1
  <2>2. ASSUME NEW a, NEW b, \/ repo' = [repo EXCEPT !.remotes = a, !.tags = b]
                             \/ repo' = [repo EXCEPT !.heads = a]
        PROVE  repo'.objs = repo.objs
    BY <1>0, <2>2 DEF RepoTypes
  <2>3. UNCHANGED repo \/ \E a, b : \/ repo' = [repo EXCEPT !.remotes = a, !.tags = b]
                                    \/ repo' = [repo EXCEPT !.heads = a]
    BY <1>10 DEF DeleteMissingRefs, DeleteLocalBranch
  <2>4. UNCHANGED repo \/ repo'.objs = repo.objs BY <2>2, <2>3
  <2> QED BY <1>2, <2>1, <2>4
<1>11. CASE UpdateSymref
  <2>1. PICK h, m : repo' = [repo EXCEPT !.remoteHead = h, !.head = m]
    BY <1>11 DEF UpdateSymref
  <2> QED BY <1>0, <1>2, <2>1 DEF RepoTypes
<1>12. ASSUME NEW b, NEW c, LocalCommit(b, c) PROVE repo'.objs = repo.objs
  BY <1>0, <1>12 DEF LocalCommit, RepoTypes
<1>14. ASSUME NEW t, NEW c, LocalTag(t, c) PROVE repo'.objs = repo.objs
  BY <1>0, <1>14 DEF LocalTag, RepoTypes
<1>13. CASE \/ \E all, delete, replace, wanted, wantedRefs :
                   FetchCmd(all, delete, replace, wanted, wantedRefs)
            \/ HaveRefs \/ Advertise \/ Negotiate \/ Downloaded \/ Index \/ InstallPack
            \/ RefsDone \/ DeleteDone \/ Die
            \/ \E n \in Name, c \in ServerCommits : Push(n, c)
            \/ UNCHANGED fetchVars
  BY <1>7, <1>13 DEF FetchCmd, HaveRefs, Advertise, Negotiate, SendPack, Downloaded, Index,
                     InstallPack, RefsDone, DeleteDone, Die, Push, fetchVars
<1> QED
  BY <1>2, <1>4, <1>5, <1>6, <1>8, <1>9, <1>10, <1>11, <1>12, <1>13, <1>14
     DEF FetchNext, FetchProcess

(* The rules by which objects and references come into a repository hold for clone and
   fetch: every step of theirs, and of the server and the user beside them, is a step of
   ObjectStore, so that by StoreStaysReadable whatever a reference leads to can be read
   (got_fetch_pack, cmd_clone, cmd_fetch), wherever a process dies. *)
THEOREM FetchRefinesStore == FetchSpec => FetchImplementsStore
<1>1. FetchInit => FetchedObjects!StoreInit
  <2> SUFFICES ASSUME FetchInit PROVE FetchedObjects!StoreInit
    OBVIOUS
  <2>1. repo = NoRepo BY DEF FetchInit
  <2>2. RepoRefs = [n \in {} |-> 0] BY <2>1 DEF RepoRefs, NoRepo, Empty
  <2> QED BY <2>1, <2>2, NothingIsOK DEF FetchedObjects!StoreInit
<1>2. FetchInit => FetchInv BY FetchInitInv
<1>3. FetchInv /\ [FetchNext]_fetchVars => FetchInv' BY FetchStepInv
<1>4. FetchInv /\ FetchInv' /\ [FetchNext]_fetchVars
        => [FetchedObjects!StoreNext]_(FetchedObjects!storeVars)
  BY FetchStepRefines
<1> QED BY <1>1, <1>2, <1>3, <1>4, PTL DEF FetchSpec, FetchImplementsStore, FetchedObjects!StoreSpec

-----------------------------------------------------------------------------
(* What the first of the two deletions deletes is never a tag, since a tag is looked up
   by the branch looked at before. *)
LEMMA DeleteStepKeeps ==
  ASSUME FetchInv, ~repo.mirror, f.pc = "delete", f.todo # {}, LocalRefname(NextMine) # 0,
         ~TheirRef(LocalRefname(NextMine))
  PROVE  NextMine \notin Tag
  BY DEF FetchInv, ProcessOK, LocalRefname, TheirRef

(* With the invariant, no step of a fetch changes what LocalRefsKept is about. *)
LEMMA FetchStepKeeps == FetchInv /\ [FetchNext]_fetchVars => [KeepsLocalRefs]_fetchVars
<1> SUFFICES ASSUME FetchInv, FetchNext, f' # f, ~f.clone, ~repo.mirror
             PROVE  /\ \A n \in DOMAIN repo.heads :
                         \/ n \in DOMAIN repo'.heads /\ (repo'.heads[n] = repo.heads[n] \/ Missing(n))
                         \/ f.delete /\ n \notin DOMAIN f.theirs /\ n \notin DOMAIN repo'.heads
                    /\ \A n \in DOMAIN repo.tags :
                         /\ n \in DOMAIN repo'.tags
                         /\ repo'.tags[n] = repo.tags[n] \/ f.replace \/ Missing(n)
  BY DEF KeepsLocalRefs
<1>0. RepoOK(repo) /\ repo \in RepoTypes /\ ProcessOK(f, repo.objs) /\ Lifetime
  BY DEF FetchInv, RepoOK
<1>1. CASE repo'.heads = repo.heads /\ repo'.tags = repo.tags BY <1>1
<1>2. ASSUME NEW all, NEW mirror, NEW wanted, NEW wantedRefs, Clone(all, mirror, wanted, wantedRefs)
      PROVE  DOMAIN repo.heads = {} /\ DOMAIN repo.tags = {}
  BY <1>0, <1>2 DEF Clone, Lifetime, NoRepo, Empty
<1>3. CASE UpdateRefs
  <2>1. CASE repo' = repo BY <1>1, <2>1
  <2>2. CASE /\ repo' = CreateRef(repo, Ref, f.theirs[Ref])
             /\ ~(Ref \in Tag /\ HasRef(repo, Ref) /\ ~f.replace)
    <3>1. CASE Ref \notin Tag
      BY <1>0, <1>1, <2>2, <3>1 DEF CreateRef, RepoTypes
    <3>2. CASE Ref \in Tag
      <4>1. repo'.heads = repo.heads /\ repo'.tags = SetTo(repo.tags, Ref, f.theirs[Ref])
        BY <1>0, <2>2, <3>2 DEF CreateRef, RepoTypes
      <4>2. Ref \notin DOMAIN repo.tags \/ f.replace BY <2>2, <3>2 DEF HasRef
      <4> QED BY <4>1, <4>2 DEF SetTo
    <3> QED BY <3>1, <3>2
  <2> QED BY <1>3, <2>1, <2>2 DEF UpdateRefs, UpdateRef
<1>4. CASE CreateMissing
  <2>1. f.pc = "create" /\ repo' = CreateRef(repo, Ref, f.theirs[Ref])
    BY <1>4 DEF CreateMissing, FetchAt
  <2>2. CASE Ref \notin Tag BY <1>0, <1>1, <2>1, <2>2 DEF CreateRef, RepoTypes
  <2>3. CASE Ref \in Tag
    <3>1. repo'.heads = repo.heads /\ repo'.tags = SetTo(repo.tags, Ref, f.theirs[Ref])
      BY <1>0, <2>1, <2>3 DEF CreateRef, RepoTypes
    <3> QED BY <2>1, <3>1 DEF SetTo, Missing
  <2> QED BY <2>2, <2>3
<1>9. CASE CreateLocalBranch
  <2>1. f.pc = "createBranch" /\ repo' = [repo EXCEPT !.heads = SetTo(@, Ref, f.theirs[Ref])]
    BY <1>9 DEF CreateLocalBranch, FetchAt
  <2>2. repo'.tags = repo.tags /\ repo'.heads = SetTo(repo.heads, Ref, f.theirs[Ref])
    BY <1>0, <2>1 DEF RepoTypes
  <2> QED BY <2>1, <2>2 DEF SetTo, Missing
<1>5. CASE DeleteMissingRefs
  <2> DEFINE n == NextMine
             local == LocalRefname(n)
  <2>1. CASE repo' = repo BY <1>1, <2>1
  <2>2. CASE /\ local # 0 /\ ~TheirRef(local)
             /\ repo' = [repo EXCEPT !.remotes = Without(@, n), !.tags = Without(@, n)]
    <3>1. f.pc = "delete" /\ f.todo # {} BY <1>5 DEF DeleteMissingRefs, FetchAt
    <3>2. n \notin Tag BY <2>2, <3>1, DeleteStepKeeps
    <3> HIDE DEF n, local
    <3>3. repo'.tags = Without(repo.tags, n) /\ repo'.heads = repo.heads
      BY <1>0, <2>2 DEF RepoTypes
    <3>4. DOMAIN repo.tags \subseteq Tag BY <1>0 DEF RepoOK
    <3>5. \A x \in DOMAIN repo.tags : x \in DOMAIN repo'.tags /\ repo'.tags[x] = repo.tags[x]
      BY <3>2, <3>3, <3>4 DEF Without, Restrict
    <3> QED BY <3>3, <3>5
  <2> QED BY <1>5, <2>1, <2>2 DEF DeleteMissingRefs
<1>10. CASE DeleteLocalBranch
  <2>1. CASE repo' = repo BY <1>1, <2>1
  <2>2. CASE repo' = [repo EXCEPT !.heads = Without(@, f.local)]
    <3>1. f.delete /\ f.local \notin DOMAIN f.theirs \cap Branch
      BY <1>0, <1>10 DEF DeleteLocalBranch, FetchAt, ProcessOK
    <3>2. repo'.tags = repo.tags /\ repo'.heads = Without(repo.heads, f.local)
      BY <1>0, <2>2 DEF RepoTypes
    <3>3. DOMAIN repo.heads \subseteq Branch BY <1>0 DEF RepoOK
    <3>4. ASSUME NEW x \in DOMAIN repo.heads
          PROVE  \/ x \in DOMAIN repo'.heads /\ repo'.heads[x] = repo.heads[x]
                 \/ f.delete /\ x \notin DOMAIN f.theirs /\ x \notin DOMAIN repo'.heads
      <4>1. CASE x = f.local BY <3>1, <3>2, <3>3, <4>1 DEF Without, Restrict
      <4>2. CASE x # f.local BY <3>2, <4>2 DEF Without, Restrict
      <4> QED BY <4>1, <4>2
    <3> QED BY <3>2, <3>4
  <2> QED BY <1>10, <2>1, <2>2 DEF DeleteLocalBranch
<1>6. CASE UpdateSymref
  <2>1. PICK h, m : repo' = [repo EXCEPT !.remoteHead = h, !.head = m]
    BY <1>6 DEF UpdateSymref
  <2> QED BY <1>0, <1>1, <2>1 DEF RepoTypes
<1>7. CASE InstallIndex BY <1>0, <1>1, <1>7 DEF InstallIndex, RepoTypes
<1>8. CASE \/ \E all, delete, replace, wanted, wantedRefs :
                  FetchCmd(all, delete, replace, wanted, wantedRefs)
           \/ LookForBranch \/ HaveRefs \/ Advertise \/ Negotiate \/ Downloaded \/ Index \/ InstallPack
           \/ RefsDone \/ DeleteDone \/ Die
  BY <1>1, <1>8 DEF FetchCmd, LookForBranch, HaveRefs, Advertise, Negotiate, SendPack, Downloaded,
                    Index, InstallPack, RefsDone, DeleteDone, Die
<1>11. CASE CloneRefs \/ TrackingRef
  <2>1. ~(f.clone) OBVIOUS
  <2>2. CASE CloneRefs BY <2>1, <2>2 DEF CloneRefs
  <2>3. CASE TrackingRef BY <1>0, <2>1, <2>3 DEF TrackingRef, FetchAt, ProcessOK, AtRef
  <2> QED BY <1>11, <2>2, <2>3
<1>12. CASE \/ CreateConfigFiles
            \/ \E n \in Name, c \in ServerCommits : Push(n, c)
            \/ \E c \in Commits : \/ LocalObjects(c)
                                  \/ \E b \in Branch : LocalCommit(b, c)
                                  \/ \E t \in Tag : LocalTag(t, c)
  BY <1>12 DEF CreateConfigFiles, Push, LocalObjects, LocalCommit, LocalTag
<1> QED
  BY <1>2, <1>3, <1>4, <1>5, <1>6, <1>7, <1>8, <1>9, <1>10, <1>11, <1>12
     DEF FetchNext, FetchProcess

(* However a fetch is interleaved with pushes, commits, new tags and the death of its
   process, a branch or tag that exists when fetch looks for it is not moved, a tag but
   with -t, nor a branch deleted that the server has, nor any tag (update_ref,
   delete_missing_refs and the loop of cmd_fetch).  One that the user makes between
   this look and create_ref is overwritten. *)
THEOREM FetchKeepsLocalRefs == FetchSpec => LocalRefsKept
<1>1. FetchInit => FetchInv BY FetchInitInv
<1>2. FetchInv /\ [FetchNext]_fetchVars => FetchInv' BY FetchStepInv
<1>3. FetchInv /\ [FetchNext]_fetchVars => [KeepsLocalRefs]_fetchVars BY FetchStepKeeps
<1> QED BY <1>1, <1>2, <1>3, PTL DEF FetchSpec, LocalRefsKept

-----------------------------------------------------------------------------
(***************************************************************************)
(* ObjectCreate, for any directories, edits, processes and kills: the      *)
(* object files and references that import, commit and tag write are an    *)
(* object store.  What is needed beside the store's own promise is what    *)
(* the processes have in memory: every entry of a tree that is being put   *)
(* together was written before, and so was all that the object at hand     *)
(* needs.                                                                  *)
(***************************************************************************)
Creating == {"open", "mkdir", "lock", "rename", "unlock", "created"}

(* A call of write_tree: the entries collected so far name files.             *)
FrameOK(fr, F) == "te" \in DOMAIN fr /\ Range(fr.te) \subseteq F
FramesOK(s, F) == s \in Seq(Range(s)) /\ \A fr \in Range(s) : FrameOK(fr, F)

(* A process, when the files are F.                                           *)
WriterOK(r, F) ==
    /\ {"pc", "stack", "obj", "ref", "base"} \subseteq DOMAIN r
    /\ FramesOK(r.stack, F)
    /\ r.base = NoObj \/ r.base \in F
    /\ r.pc = "walk" => r.stack # <<>>
    /\ r.pc \in Creating => /\ WriterNeeds(r.obj) \subseteq F
                            /\ r.obj.type \in {"blob", "tree"} => r.stack # <<>>
    /\ r.pc \in {"unlock", "created"} => r.obj \in F

CreateInv ==
    /\ WrittenObjects!Complete(files) /\ Range(heads) \subseteq files
    /\ DOMAIN w = Writer /\ w = [p \in Writer |-> w[p]]
    /\ \A p \in Writer : WriterOK(w[p], files)

-----------------------------------------------------------------------------
(* Stacks of frames.                                                          *)

(* The frame at hand, and those above it.                                     *)
LEMMA PopFrame ==
    ASSUME NEW s, NEW F, FramesOK(s, F), s # <<>>
    PROVE  FrameOK(Last(s), F) /\ FramesOK(Front(s), F)
<1> DEFINE S == Range(s)
           r == Front(s)
<1>1. s \in Seq(S) BY DEF FramesOK
<1> HIDE DEF S
<1>2. Len(s) \in Nat /\ Len(s) # 0 BY <1>1, EmptySeq
<1>3. Last(s) \in S BY <1>1, <1>2 DEF Last
<1>4. r \in Seq(S) BY <1>1, <1>2 DEF Front
<1> HIDE DEF r
<1>5. r \in Seq(Range(r)) /\ Range(r) \subseteq S BY <1>4, SeqOfRange, RangeOfSeq
<1>6. FramesOK(r, F) BY <1>5 DEF FramesOK, S
<1> QED BY <1>3, <1>6 DEF FramesOK, S, r

(* A frame is added.                                                          *)
LEMMA PushFrame ==
    ASSUME NEW s, NEW F, FramesOK(s, F), NEW fr, FrameOK(fr, F)
    PROVE  FramesOK(s \o <<fr>>, F) /\ s \o <<fr>> # <<>>
<1> DEFINE S == Range(s) \cup {fr}
           r == s \o <<fr>>
<1>1. s \in Seq(Range(s)) BY DEF FramesOK
<1>2. s \in Seq(S) /\ <<fr>> \in Seq(S) BY <1>1
<1>3. Len(s) \in Nat BY <1>1
<1>4. r \in Seq(S) /\ Len(r) = Len(s) + 1 BY <1>2, ConcatProperties
<1>5. r \in Seq(Range(r)) /\ Range(r) \subseteq S BY <1>4, SeqOfRange, RangeOfSeq
<1>6. r # <<>> BY <1>3, <1>4, EmptySeq
<1> QED BY <1>5, <1>6 DEF FramesOK

(* The frame at hand is replaced.                                             *)
LEMMA ReplaceFrame ==
    ASSUME NEW s, NEW F, FramesOK(s, F), s # <<>>, NEW fr, FrameOK(fr, F)
    PROVE  FramesOK(Front(s) \o <<fr>>, F) /\ Front(s) \o <<fr>> # <<>>
  BY PopFrame, PushFrame

(* An entry is put into a frame (insert_tree_entry).                          *)
LEMMA InsertFrame ==
    ASSUME NEW fr, NEW F, FrameOK(fr, F), NEW n, NEW o \in F
    PROVE  FrameOK(InsertTreeEntry(fr, n, o), F)
<1>1. Range(With(fr.te, n, o)) \subseteq F BY DEF With, Range, FrameOK
<1>2. InsertTreeEntry(fr, n, o) = [fr EXCEPT !.te = With(fr.te, n, o)] BY DEF InsertTreeEntry
<1>3. InsertTreeEntry(fr, n, o).te = With(fr.te, n, o) /\ "te" \in DOMAIN InsertTreeEntry(fr, n, o)
  BY <1>2 DEF FrameOK
<1> QED BY <1>1, <1>3 DEF FrameOK

(* The frame of a directory that is entered.                                  *)
LEMMA EmptyFrame ==
    ASSUME NEW F, NEW name, NEW dir
    PROVE  FrameOK(Frame(name, dir, NoEntries), F)
<1>1. Range(NoEntries) = {} BY DEF NoEntries, Range
<1> QED BY <1>1 DEF FrameOK, Frame

(* More files do no harm.                                                     *)
LEMMA MoreFiles ==
    ASSUME NEW r, NEW F, NEW G, F \subseteq G, WriterOK(r, F)
    PROVE  WriterOK(r, G)
<1>1. \A s : FramesOK(s, F) => FramesOK(s, G) BY DEF FramesOK, FrameOK
<1> QED BY <1>1 DEF WriterOK

(* The step of a process: the store, and the process afterwards.              *)
LEMMA WriterStep ==
    ASSUME CreateInv, NEW p \in Writer, NEW r, Does(p, r), files \subseteq files',
           WrittenObjects!Complete(files'), Range(heads') \subseteq files', WriterOK(r, files')
    PROVE  CreateInv'
<1>1. w' = [w EXCEPT ![p] = r] /\ DOMAIN w = Writer BY DEF Does, CreateInv
<1>2. DOMAIN w' = Writer /\ w' = [q \in Writer |-> w'[q]] BY <1>1
<1>3. w'[p] = r /\ \A q \in Writer \ {p} : w'[q] = w[q] BY <1>1
<1>4. \A q \in Writer : WriterOK(w[q], files') BY MoreFiles DEF CreateInv
<1>5. \A q \in Writer : WriterOK(w'[q], files') BY <1>3, <1>4
<1> QED BY <1>2, <1>5 DEF CreateInv

(* The state of a process that runs no command.                               *)
LEMMA NotWritingOK == \A F : WriterOK(NotWriting, F)
<1>1. <<>> \in Seq(Range(<<>>)) /\ Range(<<>>) = {} BY DEF Range
<1>2. /\ NotWriting.stack = <<>> /\ NotWriting.base = NoObj /\ NotWriting.pc = "idle"
      /\ {"pc", "stack", "obj", "ref", "base"} \subseteq DOMAIN NotWriting
  BY DEF NotWriting
<1> QED BY <1>1, <1>2 DEF WriterOK, FramesOK, Creating

(* What the objects need that are created.                                    *)
LEMMA NeedsOf ==
    ASSUME NEW x, NEW y
    PROVE  /\ WriterNeeds(Blob(x)) = {} /\ Blob(x).type = "blob"
           /\ WriterNeeds(TreeObj(x)) = Range(x) /\ TreeObj(x).type = "tree"
           /\ WriterNeeds(Commit(x, y)) = {x} \cup (IF y = NoObj THEN {} ELSE {y})
           /\ Commit(x, y).type = "commit"
           /\ WriterNeeds(TagObj(x, y)) = {y} /\ TagObj(x, y).type = "tag"
<1>1. WriterNeeds(Blob(x)) = {} /\ Blob(x).type = "blob" BY DEF WriterNeeds, Blob
<1>2. WriterNeeds(TreeObj(x)) = Range(x) /\ TreeObj(x).type = "tree" BY DEF WriterNeeds, TreeObj
<1>3. /\ WriterNeeds(Commit(x, y)) = {x} \cup (IF y = NoObj THEN {} ELSE {y})
      /\ Commit(x, y).type = "commit"
  BY DEF WriterNeeds, Commit
<1>4. WriterNeeds(TagObj(x, y)) = {y} /\ TagObj(x, y).type = "tag" BY DEF WriterNeeds, TagObj
<1> QED BY <1>1, <1>2, <1>3, <1>4

-----------------------------------------------------------------------------
(* Steps that change neither the object files nor the references.             *)
LEMMA QuietStep ==
    ASSUME CreateInv, NEW p \in Writer, NEW r, Does(p, r), files' = files, heads' = heads,
           WriterOK(r, files)
    PROVE  CreateInv'
  BY WriterStep DEF CreateInv

(* The commands begin.                                                        *)
LEMMA BeginInv ==
    ASSUME CreateInv, NEW p \in Writer, NEW n \in RefNames,
           \/ \E dir \in Dirs : Import(p, dir, n)
           \/ \E edit \in Edits : CommitWorktree(p, edit, n)
           \/ \E m \in RefNames : AddTag(p, n, m)
    PROVE  CreateInv' /\ files' = files /\ heads' = heads
<1>1. files' = files /\ heads' = heads BY DEF Import, CommitWorktree, AddTag
<1>2. ASSUME NEW dir \in Dirs, Import(p, dir, n) PROVE CreateInv'
  <2> DEFINE s == <<Frame("/", dir, NoEntries)>>
             r == [NotWriting EXCEPT !.pc = "walk", !.stack = s, !.ref = n]
  <2>1. Does(p, r) BY <1>2 DEF Import
  <2>2. FramesOK(s, files) /\ s # <<>>
    <3>1. FrameOK(Frame("/", dir, NoEntries), files) BY EmptyFrame
    <3>2. s \in Seq({Frame("/", dir, NoEntries)}) OBVIOUS
    <3>3. s \in Seq(Range(s)) /\ Range(s) \subseteq {Frame("/", dir, NoEntries)}
      BY <3>2, SeqOfRange, RangeOfSeq
    <3> QED BY <3>1, <3>3 DEF FramesOK
  <2> HIDE DEF s
  <2>3. /\ r.pc = "walk" /\ r.stack = s /\ r.base = NoObj
        /\ {"pc", "stack", "obj", "ref", "base"} \subseteq DOMAIN r
    BY DEF NotWriting
  <2> HIDE DEF r
  <2>4. WriterOK(r, files) BY <2>2, <2>3 DEF WriterOK, Creating
  <2> QED BY <1>1, <2>1, <2>4, QuietStep
<1>3. ASSUME NEW edit \in Edits, CommitWorktree(p, edit, n) PROVE CreateInv'
  <2>1. PICK trees \in OpenTrees(heads[n].tree, edit[1]) :
          Does(p, [pc |-> "open", obj |-> Blob(edit[3]), ref |-> n, base |-> heads[n],
                   stack |-> CommitFrames(trees, edit[1], edit[2])])
    BY <1>3 DEF CommitWorktree
  <2> DEFINE s == CommitFrames(trees, edit[1], edit[2])
             r == [pc |-> "open", obj |-> Blob(edit[3]), ref |-> n, base |-> heads[n],
                   stack |-> s]
  <2>2. heads[n] \in files BY <1>3 DEF CommitWorktree, CreateInv, Range
  <2>3. FramesOK(s, files) /\ s # <<>>
    <3> DEFINE k == Len(edit[1]) + 1
    <3>1. /\ DOMAIN trees = 1..k
          /\ \A i \in 1..k : trees[i] \in files /\ trees[i].type = "tree"
      BY DEF OpenTrees
    <3>2. \A i \in 1..k : Range(trees[i].entries) \subseteq files
      BY <3>1 DEF CreateInv, WrittenObjects!Complete, WriterNeeds
    <3>3. DOMAIN s = 1..k /\ \A i \in 1..k : FrameOK(s[i], files)
      BY <3>1, <3>2 DEF CommitFrames, Frame, FrameOK
    <3>4. s = [i \in 1..k |-> s[i]] BY <3>1 DEF CommitFrames
    <3>5. k \in Nat /\ k # 0
      <4>1. Len(edit[1]) \in Nat BY EditPaths
      <4> QED BY <4>1
    <3> HIDE DEF s, k
    <3>6. s \in [1..k -> Range(s)] /\ \A fr \in Range(s) : FrameOK(fr, files)
      BY <3>3, <3>4 DEF Range
    <3>7. s \in Seq(Range(s)) BY <3>5, <3>6, SeqDef
    <3>8. s # <<>> BY <3>3, <3>5
    <3> QED BY <3>6, <3>7, <3>8 DEF FramesOK
  <2>4. r.pc = "open" /\ r.stack = s /\ r.base = heads[n] /\ r.obj = Blob(edit[3])
        /\ {"pc", "stack", "obj", "ref", "base"} \subseteq DOMAIN r
    OBVIOUS
  <2>5. Does(p, r) BY <2>1
  <2> HIDE DEF r, s
  <2>6. WriterNeeds(r.obj) \subseteq files BY <2>4, NeedsOf
  <2>7. WriterOK(r, files) BY <2>2, <2>3, <2>4, <2>6 DEF WriterOK
  <2> QED BY <1>1, <2>5, <2>7, QuietStep
<1>4. ASSUME NEW m \in RefNames, AddTag(p, n, m) PROVE CreateInv'
  <2> DEFINE r == [NotWriting EXCEPT !.pc = "open", !.obj = TagObj(n, heads[m]), !.ref = n]
  <2>1. Does(p, r) /\ m \in DOMAIN heads BY <1>4 DEF AddTag
  <2>2. heads[m] \in files BY <2>1 DEF CreateInv, Range
  <2>3. /\ r.pc = "open" /\ r.obj = TagObj(n, heads[m]) /\ r.stack = NotWriting.stack
        /\ r.base = NoObj /\ {"pc", "stack", "obj", "ref", "base"} \subseteq DOMAIN r
    BY DEF NotWriting
  <2> HIDE DEF r
  <2>4. FramesOK(r.stack, files) BY <2>3, NotWritingOK DEF WriterOK
  <2>5. WriterNeeds(r.obj) \subseteq files /\ r.obj.type = "tag" BY <2>2, <2>3, NeedsOf
  <2>6. WriterOK(r, files) BY <2>3, <2>4, <2>5 DEF WriterOK
  <2> QED BY <1>1, <2>1, <2>6, QuietStep
<1> QED BY <1>1, <1>2, <1>3, <1>4

(* The walk over a directory.                                                 *)
LEMMA WalkInv ==
    ASSUME CreateInv, NEW p \in Writer,
           \/ w[p].stack # <<>> /\ \E n \in Top(p).left : ReadDirent(p, n)
           \/ WriteTree(p)
    PROVE  CreateInv' /\ files' = files /\ heads' = heads
<1> DEFINE me == w[p]
<1>1. files' = files /\ heads' = heads BY DEF ReadDirent, WriteTree
<1>2. WriterOK(me, files) /\ me.pc = "walk" /\ me.stack # <<>>
  BY DEF CreateInv, WriterOK, ReadDirent, WriteTree, At
<1>3. FramesOK(me.stack, files) /\ FrameOK(Top(p), files) /\ FramesOK(Front(me.stack), files)
  BY <1>2, PopFrame DEF WriterOK, Top
<1>4. ASSUME NEW n, ReadDirent(p, n) PROVE CreateInv'
  <2> DEFINE frame == [Top(p) EXCEPT !.left = @ \ {n}, !.cur = n]
             entry == Top(p).dir[n]
  <2>1. FrameOK(frame, files)
    <3>1. frame.te = Top(p).te /\ "te" \in DOMAIN frame BY <1>3 DEF FrameOK
    <3> QED BY <1>3, <3>1 DEF FrameOK
  <2> HIDE DEF frame
  <2>2. FramesOK(WithTop(p, frame), files) /\ WithTop(p, frame) # <<>>
    BY <1>2, <1>3, <2>1, ReplaceFrame DEF WithTop
  <2>3. CASE Does(p, [me EXCEPT !.stack = WithTop(p, frame)])
    <3> DEFINE r == [me EXCEPT !.stack = WithTop(p, frame)]
    <3>1. /\ r.stack = WithTop(p, frame) /\ r.pc = "walk" /\ r.base = me.base
          /\ DOMAIN r = DOMAIN me
      BY <1>2 DEF WriterOK
    <3> HIDE DEF r
    <3>2. WriterOK(r, files) BY <1>2, <2>2, <3>1 DEF WriterOK, Creating
    <3> QED BY <1>1, <2>3, <3>2, QuietStep DEF r
  <2>4. CASE Does(p, [me EXCEPT !.stack = WithTop(p, frame), !.pc = "open",
                               !.obj = Blob(entry.content)])
    <3> DEFINE r == [me EXCEPT !.stack = WithTop(p, frame), !.pc = "open",
                               !.obj = Blob(entry.content)]
    <3>1. /\ r.stack = WithTop(p, frame) /\ r.pc = "open" /\ r.base = me.base
          /\ r.obj = Blob(entry.content) /\ DOMAIN r = DOMAIN me
      BY <1>2 DEF WriterOK
    <3> HIDE DEF r
    <3>2. WriterNeeds(r.obj) \subseteq files BY <3>1, NeedsOf
    <3>3. WriterOK(r, files) BY <1>2, <2>2, <3>1, <3>2 DEF WriterOK
    <3> QED BY <1>1, <2>4, <3>3, QuietStep DEF r
  <2>5. CASE Does(p, [me EXCEPT !.stack =
                        WithTop(p, frame) \o <<Frame(n, entry.entries, NoEntries)>>])
    <3> DEFINE new == Frame(n, entry.entries, NoEntries)
               r == [me EXCEPT !.stack = WithTop(p, frame) \o <<new>>]
    <3>1. FramesOK(WithTop(p, frame) \o <<new>>, files) /\ WithTop(p, frame) \o <<new>> # <<>>
      BY <2>2, EmptyFrame, PushFrame
    <3>2. /\ r.stack = WithTop(p, frame) \o <<new>> /\ r.pc = "walk" /\ r.base = me.base
          /\ DOMAIN r = DOMAIN me
      BY <1>2 DEF WriterOK
    <3>3. Does(p, r) BY <2>5
    <3> HIDE DEF r, new
    <3>4. WriterOK(r, files) BY <1>2, <3>1, <3>2 DEF WriterOK, Creating
    <3> QED BY <1>1, <3>3, <3>4, QuietStep
  <2> QED BY <1>4, <2>3, <2>4, <2>5 DEF ReadDirent, frame
<1>5. CASE WriteTree(p)
  <2>1. CASE Does(p, [me EXCEPT !.pc = "open", !.obj = TreeObj(Top(p).te)])
    <3> DEFINE r == [me EXCEPT !.pc = "open", !.obj = TreeObj(Top(p).te)]
    <3>1. /\ r.stack = me.stack /\ r.pc = "open" /\ r.base = me.base
          /\ r.obj = TreeObj(Top(p).te) /\ DOMAIN r = DOMAIN me
      BY <1>2 DEF WriterOK
    <3> HIDE DEF r
    <3>2. WriterNeeds(r.obj) \subseteq files
      <4>1. WriterNeeds(TreeObj(Top(p).te)) = Range(Top(p).te) BY NeedsOf
      <4> QED BY <1>3, <3>1, <4>1 DEF FrameOK
    <3>3. WriterOK(r, files) BY <1>2, <3>1, <3>2 DEF WriterOK
    <3> QED BY <1>1, <2>1, <3>3, QuietStep DEF r
  <2>2. CASE Fail(p) BY <1>1, <2>2, NotWritingOK, QuietStep DEF Fail
  <2>3. CASE Len(me.stack) # 1 /\ Does(p, [me EXCEPT !.stack = Front(@)])
    <3> DEFINE r == [me EXCEPT !.stack = Front(me.stack)]
    <3>1. /\ r.stack = Front(me.stack) /\ r.pc = "walk" /\ r.base = me.base
          /\ DOMAIN r = DOMAIN me
      BY <1>2 DEF WriterOK
    <3>2. Front(me.stack) # <<>>
      <4>1. me.stack \in Seq(Range(me.stack)) BY <1>3 DEF FramesOK
      <4>2. Len(me.stack) \in Nat /\ Len(me.stack) # 0 BY <1>2, <4>1, EmptySeq
      <4>3. Front(me.stack) \in Seq(Range(me.stack)) /\ Len(Front(me.stack)) = Len(me.stack) - 1
        BY <4>1, <4>2 DEF Front
      <4>4. Len(me.stack) # 1 BY <2>3
      <4>5. Len(Front(me.stack)) # 0 BY <4>2, <4>3, <4>4
      <4> QED BY <4>5
    <3>3. Does(p, r) BY <2>3
    <3> HIDE DEF r
    <3>4. WriterOK(r, files) BY <1>2, <1>3, <3>1, <3>2 DEF WriterOK, Creating
    <3> QED BY <1>1, <3>3, <3>4, QuietStep
  <2> QED BY <1>5, <2>1, <2>2, <2>3 DEF WriteTree
<1> QED BY <1>1, <1>4, <1>5

(* An object is written: the temporary file, the lock, the final name.        *)
LEMMA CreateObjectInv ==
    ASSUME CreateInv, NEW p \in Writer, CreateObjectFile(p)
    PROVE  CreateInv' /\ files \subseteq files' /\ WrittenObjects!Complete(files') /\ heads' = heads
<1> DEFINE me == w[p]
<1>1. heads' = heads /\ WriterOK(me, files) /\ me.pc \in Creating
  BY DEF CreateObjectFile, OpenTemp, Mkdir, LockObject, LockTimeout, RenameObject, UnlockObject,
         CreateInv, At, Creating
<1>2. files' = files \/ files' = files \cup {me.obj}
  BY DEF CreateObjectFile, OpenTemp, Mkdir, LockObject, LockTimeout, RenameObject, UnlockObject
<1>3. files \subseteq files' /\ WrittenObjects!Complete(files')
  BY <1>1, <1>2 DEF CreateInv, WriterOK, WrittenObjects!Complete
<1>4. Range(heads') \subseteq files' BY <1>1, <1>3 DEF CreateInv
<1>5. CASE Fail(p)
  <2>1. Does(p, NotWriting) BY <1>5 DEF Fail
  <2>2. WriterOK(NotWriting, files') BY NotWritingOK
  <2> QED BY <1>1, <1>3, <1>4, <2>1, <2>2, WriterStep
<1>6. CASE ~Fail(p)
  <2>1. PICK pc \in Creating : /\ Does(p, [me EXCEPT !.pc = pc])
                               /\ pc \in {"unlock", "created"} => me.obj \in files'
    <3>1. me.pc = "unlock" => me.obj \in files BY <1>1 DEF WriterOK
    <3> QED BY <1>6, <3>1 DEF CreateObjectFile, OpenTemp, Mkdir, LockObject, LockTimeout,
                RenameObject, UnlockObject, At, Creating
  <2> DEFINE r == [me EXCEPT !.pc = pc]
  <2>2. /\ r.stack = me.stack /\ r.pc = pc /\ r.base = me.base /\ r.obj = me.obj
        /\ DOMAIN r = DOMAIN me
    BY <1>1 DEF WriterOK
  <2>3. Does(p, r) BY <2>1
  <2> HIDE DEF r
  <2>4. WriterOK(me, files') BY <1>1, <1>3, MoreFiles
  <2>5. WriterOK(r, files') BY <1>1, <2>1, <2>2, <2>4 DEF WriterOK, Creating
  <2> QED BY <1>1, <1>3, <1>4, <2>3, <2>5, WriterStep
<1> QED BY <1>1, <1>3, <1>5, <1>6
(* The id of the new object is used: in the tree above, or in the commit.     *)
LEMMA CreatedInv ==
    ASSUME CreateInv, NEW p \in Writer, BlobCreated(p) \/ TreeCreated(p)
    PROVE  CreateInv' /\ files' = files /\ heads' = heads
<1> DEFINE me == w[p]
<1>1. files' = files /\ heads' = heads BY DEF BlobCreated, TreeCreated
<1>2. /\ WriterOK(me, files) /\ me.pc = "created" /\ me.obj \in files
      /\ me.obj.type \in {"blob", "tree"}
  BY DEF CreateInv, WriterOK, BlobCreated, TreeCreated, At
<1>3. me.stack # <<>> /\ FramesOK(me.stack, files) BY <1>2 DEF WriterOK, Creating
<1>4. FrameOK(Top(p), files) /\ FramesOK(Front(me.stack), files) BY <1>3, PopFrame DEF Top
<1>5. ASSUME NEW s, FramesOK(s, files), s # <<>>, Does(p, [me EXCEPT !.pc = "walk", !.stack = s])
      PROVE  CreateInv'
  <2> DEFINE r == [me EXCEPT !.pc = "walk", !.stack = s]
  <2>1. r.stack = s /\ r.pc = "walk" /\ r.base = me.base /\ DOMAIN r = DOMAIN me
    BY <1>2 DEF WriterOK
  <2>2. Does(p, r) BY <1>5
  <2> HIDE DEF r
  <2>3. WriterOK(r, files) BY <1>2, <1>5, <2>1 DEF WriterOK, Creating
  <2> QED BY <1>1, <2>2, <2>3, QuietStep
<1>6. CASE BlobCreated(p)
  <2> DEFINE fr == InsertTreeEntry(Top(p), Top(p).cur, me.obj)
             s == WithTop(p, fr)
  <2>1. FrameOK(fr, files) BY <1>2, <1>4, InsertFrame
  <2> HIDE DEF fr
  <2>2. FramesOK(s, files) /\ s # <<>> BY <1>3, <2>1, ReplaceFrame DEF WithTop
  <2>3. Does(p, [me EXCEPT !.pc = "walk", !.stack = s]) BY <1>6 DEF BlobCreated, fr
  <2> HIDE DEF s
  <2> QED BY <1>1, <1>5, <2>2, <2>3
<1>7. CASE TreeCreated(p) /\ Len(me.stack) > 1
  <2> DEFINE above == Front(me.stack)
             fr == InsertTreeEntry(Last(above), Top(p).name, me.obj)
             s == Front(above) \o <<fr>>
  <2>1. above # <<>>
    <3>1. me.stack \in Seq(Range(me.stack)) BY <1>3 DEF FramesOK
    <3>2. Len(me.stack) \in Nat /\ Len(me.stack) > 1 BY <1>7, <3>1
    <3>3. above \in Seq(Range(me.stack)) /\ Len(above) = Len(me.stack) - 1
      BY <3>1, <3>2 DEF Front
    <3> HIDE DEF above, me
    <3>4. Len(above) # 0 BY <3>2, <3>3
    <3> QED BY <3>4
  <2>2. FrameOK(Last(above), files) BY <1>4, <2>1, PopFrame
  <2>3. FrameOK(fr, files) BY <1>2, <2>2, InsertFrame
  <2>4. Does(p, [me EXCEPT !.pc = "walk", !.stack = s]) BY <1>7 DEF TreeCreated
  <2> HIDE DEF fr
  <2>5. FramesOK(s, files) /\ s # <<>> BY <1>4, <2>1, <2>3, ReplaceFrame
  <2> HIDE DEF s
  <2> QED BY <1>1, <1>5, <2>4, <2>5
<1>8. CASE TreeCreated(p) /\ ~(Len(me.stack) > 1)
  <2> DEFINE r == [me EXCEPT !.pc = "open", !.obj = Commit(me.obj, me.base)]
  <2>1. Does(p, r) BY <1>8 DEF TreeCreated
  <2>2. /\ r.stack = me.stack /\ r.pc = "open" /\ r.base = me.base
        /\ r.obj = Commit(me.obj, me.base) /\ DOMAIN r = DOMAIN me
    BY <1>2 DEF WriterOK
  <2> HIDE DEF r
  <2>3. WriterNeeds(r.obj) \subseteq files /\ r.obj.type = "commit"
    <3>1. /\ WriterNeeds(r.obj) = {me.obj} \cup (IF me.base = NoObj THEN {} ELSE {me.base})
          /\ r.obj.type = "commit"
      BY <2>2, NeedsOf
    <3>2. me.base = NoObj \/ me.base \in files BY <1>2 DEF WriterOK
    <3> QED BY <1>2, <3>1, <3>2
  <2>4. WriterOK(r, files) BY <1>2, <1>3, <2>2, <2>3 DEF WriterOK
  <2> QED BY <1>1, <2>1, <2>4, QuietStep
<1> QED BY <1>1, <1>6, <1>7, <1>8

(* The command ends: the reference is written, or left when the branch moved. *)
LEMMA SetRefInv ==
    ASSUME CreateInv, NEW p \in Writer, SetRef(p)
    PROVE  CreateInv' /\ files' = files /\ Range(heads') \subseteq files
<1> DEFINE me == w[p]
<1>1. files' = files /\ Does(p, NotWriting) BY DEF SetRef
<1>2. WriterOK(me, files) /\ me.pc = "created" BY DEF CreateInv, SetRef, At
<1>3. me.obj \in files /\ Range(heads) \subseteq files BY <1>2 DEF WriterOK, CreateInv
<1>4. heads' = heads \/ heads' = With(heads, me.ref, me.obj) BY DEF SetRef
<1>5. Range(With(heads, me.ref, me.obj)) \subseteq files BY <1>3 DEF With, Range
<1>6. Range(heads') \subseteq files BY <1>3, <1>4, <1>5
<1>7. WriterOK(NotWriting, files') BY NotWritingOK
<1>8. WrittenObjects!Complete(files') BY <1>1 DEF CreateInv
<1>9. CreateInv' BY <1>1, <1>6, <1>7, <1>8, WriterStep
<1> QED BY <1>1, <1>6, <1>9

(* A process is killed: its files and lock files stay.                        *)
LEMMA KillInv ==
    ASSUME CreateInv, NEW p \in Writer, Kill(p)
    PROVE  CreateInv' /\ files' = files /\ heads' = heads
<1>1. files' = files /\ heads' = heads /\ Does(p, NotWriting) BY DEF Kill
<1>2. WriterOK(NotWriting, files) BY NotWritingOK
<1> QED BY <1>1, <1>2, QuietStep

-----------------------------------------------------------------------------
(* At first there are no objects, no references and no commands.              *)
LEMMA CreateInitInv == CreateInit => CreateInv /\ WrittenObjects!StoreInit
<1> SUFFICES ASSUME CreateInit PROVE CreateInv /\ WrittenObjects!StoreInit OBVIOUS
<1>1. files = {} /\ heads = NoEntries /\ w = [p \in Writer |-> NotWriting]
  BY DEF CreateInit, CreateStart
<1>2. Range(heads) = {} BY <1>1 DEF Range, NoEntries
<1>3. \A p \in Writer : WriterOK(w[p], files) BY <1>1, NotWritingOK
<1>4. WrittenObjects!Complete(files) BY <1>1 DEF WrittenObjects!Complete
<1>5. DOMAIN w = Writer /\ w = [p \in Writer |-> w[p]] BY <1>1
<1>6. CreateInv BY <1>2, <1>3, <1>4, <1>5 DEF CreateInv
<1> QED BY <1>1, <1>6 DEF WrittenObjects!StoreInit, NoEntries

(* Every step keeps the invariant, and is one of the store or leaves it alone. *)
LEMMA CreateStepInv ==
    ASSUME CreateInv, [CreateNext]_createVars
    PROVE  CreateInv' /\ [WrittenObjects!StoreNext]_(WrittenObjects!storeVars)
<1>1. CASE UNCHANGED createVars
  <2>1. files' = files /\ heads' = heads /\ w' = w BY <1>1 DEF createVars
  <2>2. CreateInv' BY <2>1 DEF CreateInv
  <2> QED BY <2>1, <2>2 DEF WrittenObjects!storeVars
<1>2. ASSUME CreateInv', files' = files, heads' = heads
      PROVE  CreateInv' /\ [WrittenObjects!StoreNext]_(WrittenObjects!storeVars)
  BY <1>2 DEF WrittenObjects!storeVars
<1>3. ASSUME NEW p \in Writer,
             \/ \E n \in RefNames : \/ \E dir \in Dirs : Import(p, dir, n)
                                    \/ \E edit \in Edits : CommitWorktree(p, edit, n)
                                    \/ \E m \in RefNames : AddTag(p, n, m)
             \/ w[p].stack # <<>> /\ \E n \in Top(p).left : ReadDirent(p, n)
             \/ WriteTree(p) \/ CreateObjectFile(p) \/ BlobCreated(p) \/ TreeCreated(p)
             \/ SetRef(p) \/ Kill(p)
      PROVE  CreateInv' /\ [WrittenObjects!StoreNext]_(WrittenObjects!storeVars)
  <2>1. ASSUME NEW n \in RefNames,
               \/ \E dir \in Dirs : Import(p, dir, n)
               \/ \E edit \in Edits : CommitWorktree(p, edit, n)
               \/ \E m \in RefNames : AddTag(p, n, m)
        PROVE  CreateInv' /\ files' = files /\ heads' = heads
    BY <2>1, BeginInv
  <2>2. CASE \/ w[p].stack # <<>> /\ \E n \in Top(p).left : ReadDirent(p, n)
             \/ WriteTree(p)
    BY <1>2, <2>2, WalkInv
  <2>3. CASE CreateObjectFile(p)
    <3>1. /\ CreateInv' /\ files \subseteq files' /\ WrittenObjects!Complete(files')
          /\ heads' = heads
      BY <2>3, CreateObjectInv
    <3> QED BY <3>1 DEF WrittenObjects!StoreNext, WrittenObjects!AddObjects
  <2>4. CASE BlobCreated(p) \/ TreeCreated(p) BY <1>2, <2>4, CreatedInv
  <2>5. CASE SetRef(p)
    <3>1. CreateInv' /\ files' = files /\ Range(heads') \subseteq files BY <2>5, SetRefInv
    <3> QED BY <3>1 DEF WrittenObjects!StoreNext, WrittenObjects!SetRefs, WrittenObjects!Range, Range
  <2>6. CASE Kill(p) BY <1>2, <2>6, KillInv
  <2> QED BY <1>2, <1>3, <2>1, <2>2, <2>3, <2>4, <2>5, <2>6
<1> QED BY <1>1, <1>3 DEF CreateNext

(* Whatever import, commit and tag write, at once, killed anywhere and with lock files
   left behind, is a complete store: no object file whose parts are missing, and no
   reference to an object that is not there (create_object_file, write_tree and their
   callers). *)
THEOREM WritersRefineStore == CreateSpec => WritersImplementStore
<1>1. CreateInit => CreateInv /\ WrittenObjects!StoreInit BY CreateInitInv
<1>2. CreateInv /\ [CreateNext]_createVars
        => CreateInv' /\ [WrittenObjects!StoreNext]_(WrittenObjects!storeVars)
  BY CreateStepInv
<1> QED
  BY <1>1, <1>2, PTL DEF CreateSpec, WritersImplementStore, WrittenObjects!StoreSpec
=============================================================================
