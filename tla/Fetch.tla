------------------------------- MODULE Fetch -------------------------------
(***************************************************************************)
(* `got clone' and `got fetch' (got/got.c, lib/fetch.c and the helper      *)
(* got-fetch-pack): the server advertises its references, the helper asks  *)
(* for the ones that differ, the pack file is downloaded and indexed in    *)
(* temporary files, the two files are renamed into place, and only then    *)
(* are the local references created, moved and, with -d, deleted, one at a *)
(* time.  The process may fail or be killed between any two of these       *)
(* steps; meanwhile the server moves on and the user commits.              *)
(*                                                                         *)
(* A reference is named by a number, in the order in which its name sorts: *)
(* branches (refs/heads), then tags (refs/tags), then the rest, which are  *)
(* fetched with -R only.  A commit is the set of the objects one needs to  *)
(* read it, Anc[c].  An open or a write of one reference is one step;      *)
(* module RefStore looks inside it.                                        *)
(***************************************************************************)
EXTENDS Integers, FiniteSets, FiniteSetsExt, Functions

CONSTANTS Branch, Tag, Other, \* the reference names: three sets of numbers
          Commits,            \* the commits
          ServerCommits,      \* the ones the server has
          Anc,                \* Anc[c]: c and its ancestors
          MaxPushes, MaxRuns  \* bounds on what the server and the user do

ASSUME AncIsClosed ==
  \A c \in Commits : c \in Anc[c] /\ \A d \in Anc[c] : d \in Commits /\ Anc[d] \subseteq Anc[c]
ASSUME ServerIsClosed == \A c \in ServerCommits : Anc[c] \subseteq ServerCommits
ASSUME FetchConstants ==
  /\ Branch # {} /\ Branch \cup Tag \cup Other \subseteq Nat \ {0}
  /\ Branch \cap Tag = {} /\ (Branch \cup Tag) \cap Other = {}
  /\ ServerCommits # {} /\ ServerCommits \subseteq Commits \cap Nat

VARIABLES
  server,   \* the server's references: [a set of names -> ServerCommits]
  default,  \* the branch its HEAD points to, 0: its HEAD is no symbolic ref
  repo,     \* the local repository, see NoRepo
  f,        \* the running got process, see NotRunning
  pushes, runs

fetchVars == <<server, default, repo, f, pushes, runs>>

Name == Branch \cup Tag \cup Other
Empty == [n \in {} |-> 0]
SetTo(refs, n, c) == [x \in DOMAIN refs \cup {n} |-> IF x = n THEN c ELSE refs[x]]
Without(refs, n) == Restrict(refs, DOMAIN refs \ {n})
Closure(cs) == UNION {Anc[c] : c \in cs}

(* A repository: its branches (a mirror's holds every name), the tracking
   references below refs/remotes, tags, the objects its pack indexes give access to,
   the branches its HEAD and the tracking HEAD point to, and what got.conf says. *)
NoConf == [written |-> FALSE, all |-> FALSE, branches |-> {}]
NoRepo == [exists |-> FALSE, heads |-> Empty, remotes |-> Empty, tags |-> Empty,
           objs |-> {}, head |-> 0, remoteHead |-> 0, conf |-> NoConf, mirror |-> FALSE]

NotRunning == [pc |-> "idle", clone |-> FALSE, all |-> FALSE, delete |-> FALSE,
               replace |-> FALSE, wanted |-> {}, wantedRefs |-> {}, have |-> Empty,
               theirs |-> Empty, symref |-> 0, pack |-> {}, todo |-> {}, local |-> 0]

FetchAt(pc) == f.pc = pc
Goes(pc) == f' = [f EXCEPT !.pc = pc]

(* The process ends, done or failed or killed: its temporary files are never looked at
   again, and what is installed stays. *)
Ends == f' = NotRunning
Die ==
  /\ f.pc # "idle"
  /\ Ends
  /\ UNCHANGED <<server, default, repo, pushes, runs>>

--------------------------------------------------------------------------
(* cmd_clone: connect, then create the repository.  cmd_fetch: the remote, and the
   branches to fetch unless the user names some, are read from got.conf.  (-l, which
   only lists what the server advertises, is a process that dies there.) *)
Clone(all, mirror, wanted, wantedRefs) ==
  /\ FetchAt("idle") /\ ~repo.exists /\ runs < MaxRuns
  /\ ~(all /\ wanted # {})
  /\ repo' = [NoRepo EXCEPT !.exists = TRUE, !.mirror = mirror]
  /\ f' = [NotRunning EXCEPT !.pc = "connected", !.clone = TRUE, !.all = all,
                             !.wanted = wanted, !.wantedRefs = wantedRefs]
  /\ runs' = runs + 1
  /\ UNCHANGED <<server, default, pushes>>

FetchCmd(all, delete, replace, wanted, wantedRefs) ==
  /\ FetchAt("idle") /\ repo.exists /\ repo.conf.written /\ runs < MaxRuns
  /\ ~(all /\ wanted # {})
  /\ f' = [NotRunning EXCEPT !.pc = "connected", !.delete = delete, !.replace = replace,
             !.all = all \/ (wanted = {} /\ repo.conf.all),
             !.wanted = IF wanted = {} THEN repo.conf.branches ELSE wanted,
             !.wantedRefs = wantedRefs]
  /\ runs' = runs + 1
  /\ UNCHANGED <<server, default, repo, pushes>>

(* got_fetch_pack tells the helper what we have: what a mirror has under the name
   itself, the tags, and for a branch the tracking reference. *)
HaveRefs ==
  /\ FetchAt("connected")
  /\ LET mine == IF repo.mirror THEN repo.heads
                 ELSE [n \in (DOMAIN repo.tags \cup (DOMAIN repo.remotes \cap Branch)) |->
                         IF n \in Tag THEN repo.tags[n] ELSE repo.remotes[n]]
     IN f' = [f EXCEPT !.pc = "have", !.have = mine]
  /\ UNCHANGED <<server, default, repo, pushes, runs>>

MatchBranch(n) ==
  IF f.all THEN TRUE
  ELSE IF f.wanted # {} THEN n \in f.wanted
  ELSE default # 0 => n = default
MatchWantedRef(n) == n \in f.wantedRefs

(* The advertised references which the user asked for; some branch, or a reference
   named with -R, must be among them. *)
Asked == {n \in DOMAIN server :
            CASE n \in Branch -> MatchBranch(n)
              [] n \in Tag -> TRUE
              [] n \in Other -> MatchWantedRef(n)}
FoundBranch ==
  \/ Asked \cap Other # {}
  \/ Asked \cap Branch # {} /\ (f.all \/ f.wanted # {} \/ default # 0)

Advertise ==
  /\ FetchAt("have")
  /\ IF FoundBranch
     THEN f' = [f EXCEPT !.pc = "negotiate", !.theirs = Restrict(server, Asked),
                         !.symref = default]
     ELSE Ends
  /\ UNCHANGED <<server, default, repo, pushes, runs>>

(* want what differs, have what we have under an advertised name; the helper then
   waits until the server acknowledges one of them.  The server sends what the wanted
   commits need and the acknowledged ones do not. *)
Have == {f.have[n] : n \in DOMAIN f.have \cap DOMAIN f.theirs}
Want == {f.theirs[n] : n \in {m \in DOMAIN f.theirs :
                                 m \notin DOMAIN f.have \/ f.have[m] # f.theirs[m]}}
WantLocal == {f.theirs[n] : n \in {m \in DOMAIN f.theirs : m \notin DOMAIN f.have}}
Common == Have \cap ServerCommits

SendPack(want) ==
  /\ FetchAt("negotiate")
  /\ IF want = {}
     THEN f' = [f EXCEPT !.pc = "refs", !.todo = DOMAIN f.theirs]
     ELSE /\ Have # {} => Common # {}
          /\ f' = [f EXCEPT !.pc = "download", !.pack = Closure(want) \ Closure(Common)]
  /\ UNCHANGED <<server, default, repo, pushes, runs>>
NegotiateNewNamesOnly == SendPack(WantLocal)
Negotiate == SendPack(Want)

(* fetch_progress is called while data arrives: a clone writes its configuration
   files once it knows the default branch, so that `got fetch' can resume it. *)
CreateConfigFiles ==
  /\ FetchAt("download") /\ f.clone /\ ~repo.conf.written /\ f.symref # 0
  /\ repo' = [repo EXCEPT !.conf =
                [written |-> TRUE, all |-> f.all,
                 branches |-> IF f.all THEN {} ELSE
                              IF f.wanted # {} THEN f.wanted ELSE {f.symref}]]
  /\ UNCHANGED <<server, default, f, pushes, runs>>

(* The download is complete and its checksum right (a wrong one, or a short or odd
   pack, is an error: Die).  A pack without objects means that only references are to
   be updated; any other is indexed. *)
Downloaded ==
  /\ FetchAt("download")
  /\ f.clone /\ f.symref # 0 => repo.conf.written
  /\ IF f.pack = {}
     THEN f' = [f EXCEPT !.pc = "refs", !.todo = DOMAIN f.theirs]
     ELSE Goes("index")
  /\ UNCHANGED <<server, default, repo, pushes, runs>>

(* got-index-pack writes the temporary index (see module IndexPack). *)
Index ==
  /\ FetchAt("index") /\ Goes("installPack")
  /\ UNCHANGED <<server, default, repo, pushes, runs>>

(* The pack file is renamed first: without its index nobody looks at it. *)
InstallPack ==
  /\ FetchAt("installPack") /\ Goes("installIndex")
  /\ UNCHANGED <<server, default, repo, pushes, runs>>

InstallIndex ==
  /\ FetchAt("installIndex")
  /\ f' = [f EXCEPT !.pc = "refs", !.todo = DOMAIN f.theirs]
  /\ repo' = [repo EXCEPT !.objs = @ \cup f.pack]
  /\ UNCHANGED <<server, default, pushes, runs>>

--------------------------------------------------------------------------
(* The references, in the order of their names. *)
Ref == Min(f.todo)

(* Where create_ref and update_ref put reference n: the name of a mirror's is the
   server's; of the others a tag keeps its own and the rest is below refs/remotes. *)
CreateRef(r, n, c) ==
  IF r.mirror THEN [r EXCEPT !.heads = SetTo(@, n, c)]
  ELSE IF n \in Tag THEN [r EXCEPT !.tags = SetTo(@, n, c)]
  ELSE [r EXCEPT !.remotes = SetTo(@, n, c)]
HasRef(r, n) ==
  n \in DOMAIN (IF r.mirror THEN r.heads ELSE IF n \in Tag THEN r.tags ELSE r.remotes)

(* update_ref rejects another value for an existing tag unless it may replace tags. *)
UpdateRefAnyTag(r, n, c) == CreateRef(r, n, c)
UpdateRef(r, n, c) ==
  IF n \in Tag /\ HasRef(r, n) /\ ~f.replace THEN r ELSE CreateRef(r, n, c)

NextRef == f' = [f EXCEPT !.pc = "refs", !.todo = @ \ {Ref}]
HasLocalBranch == ~repo.mirror /\ Ref \in Branch

(* cmd_clone creates the reference under its own name, a branch's tracking reference
   after it. *)
CloneRefs ==
  /\ FetchAt("refs") /\ f.clone /\ f.todo # {}
  /\ repo' = IF Ref \in Branch THEN [repo EXCEPT !.heads = SetTo(@, Ref, f.theirs[Ref])]
             ELSE CreateRef(repo, Ref, f.theirs[Ref])
  /\ IF HasLocalBranch THEN Goes("tracking") ELSE NextRef
  /\ UNCHANGED <<server, default, pushes, runs>>

TrackingRef ==
  /\ FetchAt("tracking") /\ NextRef
  /\ repo' = CreateRef(repo, Ref, f.theirs[Ref])
  /\ UNCHANGED <<server, default, pushes, runs>>

(* cmd_fetch opens the reference with its lock and updates it.  An open that finds no
   reference has given the lock back: create_ref then writes whatever is there now. *)
UpdateRefs ==
  /\ FetchAt("refs") /\ ~f.clone /\ f.todo # {}
  /\ IF HasRef(repo, Ref)
     THEN /\ repo' = UpdateRef(repo, Ref, f.theirs[Ref])
          /\ IF HasLocalBranch THEN Goes("branch") ELSE NextRef
     ELSE Goes("create") /\ UNCHANGED repo
  /\ UNCHANGED <<server, default, pushes, runs>>

CreateMissing ==
  /\ FetchAt("create")
  /\ repo' = CreateRef(repo, Ref, f.theirs[Ref])
  /\ IF HasLocalBranch THEN Goes("branch") ELSE NextRef
  /\ UNCHANGED <<server, default, pushes, runs>>

(* `Also create a local branch if none exists yet': the same for the branch. *)
LookForBranch ==
  /\ FetchAt("branch")
  /\ IF Ref \in DOMAIN repo.heads THEN NextRef ELSE Goes("createBranch")
  /\ UNCHANGED <<server, default, repo, pushes, runs>>

CreateLocalBranch ==
  /\ FetchAt("createBranch") /\ NextRef
  /\ repo' = [repo EXCEPT !.heads = SetTo(@, Ref, f.theirs[Ref])]
  /\ UNCHANGED <<server, default, pushes, runs>>

RefsDone ==
  /\ FetchAt("refs") /\ f.todo = {}
  /\ IF f.delete
     THEN f' = [f EXCEPT !.pc = "delete", !.todo =
                   IF repo.mirror THEN DOMAIN repo.heads
                   ELSE DOMAIN repo.remotes \cup DOMAIN repo.tags]
     ELSE Goes("head")
  /\ UNCHANGED <<server, default, repo, pushes, runs>>

(* delete_missing_refs, in the order of the names (tracking references of branches
   and others, then tags).  local is local_refname: the branch of the tracking
   reference looked at last, unless that one was deleted.  It is also what a tag is
   looked up by, and in a mirror there is none: the lookup of a null pointer ends the
   process.  The tracking reference is deleted first, then its branch, which is opened
   anew; a deletion that fails is not reported, and the loop goes on. *)
NextMine == IF \E n \in f.todo : n \notin Tag THEN Min(f.todo \ Tag) ELSE Min(f.todo)
LocalRefname(n) == IF repo.mirror THEN 0 ELSE IF n \in Tag THEN f.local ELSE n
TheirRef(local) == local \in DOMAIN f.theirs \cap Branch

DeleteMissingRefs ==
  /\ FetchAt("delete") /\ f.todo # {}
  /\ LET n == NextMine
         local == LocalRefname(n)
         rest == [f EXCEPT !.todo = @ \ {n}, !.local = local]
     IN \/ local = 0 /\ Ends /\ UNCHANGED repo
        \/ /\ local # 0 /\ TheirRef(local)
           /\ f' = rest /\ UNCHANGED repo
        \/ /\ local # 0 /\ ~TheirRef(local)
           /\ \/ repo' = [repo EXCEPT !.remotes = Without(@, n), !.tags = Without(@, n)]
              \/ UNCHANGED repo
           /\ f' = [rest EXCEPT !.pc = "deleteLocal"]
  /\ UNCHANGED <<server, default, pushes, runs>>

DeleteLocalBranch ==
  /\ FetchAt("deleteLocal")
  /\ \/ repo' = [repo EXCEPT !.heads = Without(@, f.local)]
     \/ UNCHANGED repo
  /\ f' = [f EXCEPT !.pc = "delete", !.local = 0]
  /\ UNCHANGED <<server, default, pushes, runs>>

DeleteDone ==
  /\ FetchAt("delete") /\ f.todo = {} /\ Goes("head")
  /\ UNCHANGED <<server, default, repo, pushes, runs>>

(* The tracking HEAD follows the server's, if its branch was fetched.  A clone sets
   HEAD too, to the first of the wanted branches that was fetched if any were named. *)
ClonedHead ==
  LET fetched == f.wanted \cap DOMAIN repo.heads
  IN IF fetched # {} THEN Min(fetched)
     ELSE IF f.symref \in DOMAIN repo.heads THEN f.symref ELSE repo.head
UpdateSymref ==
  /\ FetchAt("head")
  /\ repo' = [repo EXCEPT
       !.remoteHead = IF ~repo.mirror /\ f.symref \in DOMAIN repo.remotes THEN f.symref ELSE @,
       !.head = IF f.clone THEN ClonedHead ELSE @]
  /\ Ends
  /\ UNCHANGED <<server, default, pushes, runs>>

--------------------------------------------------------------------------
(* The server: somebody pushes to, or deletes, one of its references.  A process reads
   the references once, so a push while it does the rest is the same as one after it. *)
Push(n, c) ==
  /\ pushes < MaxPushes /\ (FetchAt("idle") \/ FetchAt("have"))
  /\ \/ server' = SetTo(server, n, c)
     \/ n \in DOMAIN server /\ server' = Without(server, n)
  /\ pushes' = pushes + 1
  /\ UNCHANGED <<default, repo, f, runs>>

(* Another got command commits to a local branch, or creates one, or creates a tag:
   first the objects, then the reference. *)
LocalObjects(c) ==
  /\ repo.exists /\ ~repo.mirror /\ pushes < MaxPushes
  /\ c \notin ServerCommits \cup repo.objs /\ Anc[c] \ {c} \subseteq repo.objs
  /\ repo' = [repo EXCEPT !.objs = @ \cup {c}]
  /\ UNCHANGED <<server, default, f, pushes, runs>>
LocalCommit(b, c) ==
  /\ pushes < MaxPushes /\ c \in repo.objs \ ServerCommits
  /\ repo' = [repo EXCEPT !.heads = SetTo(@, b, c)]
  /\ pushes' = pushes + 1
  /\ UNCHANGED <<server, default, f, runs>>
LocalTag(t, c) ==
  /\ pushes < MaxPushes /\ c \in repo.objs \ ServerCommits
  /\ ~repo.mirror /\ t \notin DOMAIN repo.tags
  /\ repo' = [repo EXCEPT !.tags = SetTo(@, t, c)]
  /\ pushes' = pushes + 1
  /\ UNCHANGED <<server, default, f, runs>>

FetchInit ==
  /\ \E names \in {Name, {Min(Branch)}} : server = [n \in names |-> Min(ServerCommits)]
  /\ default \in {Min(Branch), 0}
  /\ repo = NoRepo /\ f = NotRunning
  /\ pushes = 0 /\ runs = 0
FetchIdle ==
  /\ server = Empty /\ default = 0 /\ repo = NoRepo /\ f = NotRunning
  /\ pushes = MaxPushes /\ runs = MaxRuns

FetchProcess ==
  \/ \E all \in BOOLEAN, wanted \in {{}} \cup {{b} : b \in Branch}, wantedRefs \in {{}, Other} :
        \/ \E mirror \in BOOLEAN : Clone(all, mirror, wanted, wantedRefs)
        \/ \E delete, replace \in BOOLEAN : FetchCmd(all, delete, replace, wanted, wantedRefs)
  \/ HaveRefs \/ Advertise \/ Negotiate \/ CreateConfigFiles \/ Downloaded \/ Index
  \/ InstallPack \/ InstallIndex \/ CloneRefs \/ TrackingRef \/ UpdateRefs \/ CreateMissing
  \/ LookForBranch \/ CreateLocalBranch \/ RefsDone
  \/ DeleteMissingRefs \/ DeleteLocalBranch \/ DeleteDone \/ UpdateSymref \/ Die

FetchNext ==
  \/ FetchProcess
  \/ \E n \in Name, c \in ServerCommits : Push(n, c)
  \/ \E c \in Commits : \/ LocalObjects(c)
                        \/ \E b \in Branch : LocalCommit(b, c)
                        \/ \E t \in Tag : LocalTag(t, c)

FetchSpec == FetchInit /\ [][FetchNext]_fetchVars

--------------------------------------------------------------------------
(* Whatever is pushed meanwhile and wherever a clone or fetch dies, every reference of
   the local repository names a commit all of whose objects the repository can read:
   references are written after the index is in place, and what the helper says it has
   is complete (got_fetch_pack, the reference loops of cmd_clone and cmd_fetch). *)
RepoRefs ==
  LET space == [heads |-> repo.heads, remotes |-> repo.remotes, tags |-> repo.tags]
  IN [r \in UNION {{k} \X DOMAIN space[k] : k \in DOMAIN space} |-> space[r[1]][r[2]]]
FetchNeeds(c) == Anc[c]
FetchedObjects ==
  INSTANCE ObjectStore WITH Needs <- FetchNeeds, objs <- repo.objs, refs <- RepoRefs
FetchImplementsStore == FetchedObjects!StoreSpec

(* What one step of fetch may do to the branches and tags of a repository; Missing is
   the one that its last step looked for and did not find. *)
Missing(n) == f.pc \in {"create", "createBranch"} /\ n = Ref
KeepsLocalRefs ==
  f' # f /\ ~f.clone /\ ~repo.mirror =>
    /\ \A n \in DOMAIN repo.heads :
         \/ n \in DOMAIN repo'.heads /\ (repo'.heads[n] = repo.heads[n] \/ Missing(n))
         \/ f.delete /\ n \notin DOMAIN f.theirs /\ n \notin DOMAIN repo'.heads
    /\ \A n \in DOMAIN repo.tags :
         n \in DOMAIN repo'.tags /\ (repo'.tags[n] = repo.tags[n] \/ f.replace \/ Missing(n))

(* `got fetch' moves no branch the user may have committed to, and a tag only with -t:
   whatever is committed or tagged during the download, each step keeps the branches
   and tags that are there, except the one it looked for and did not find.  -d removes
   branches which the server does not advertise among those asked for, and no tag.
   A mirror follows the server (update_ref, cmd_fetch's loop, delete_missing_refs). *)
LocalRefsKept == [][KeepsLocalRefs]_fetchVars
=============================================================================
