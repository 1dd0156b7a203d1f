------------------------------ MODULE Objects ------------------------------
(***************************************************************************)
(* Reading objects: the repository handle of a got program with its caches *)
(* of objects, pack indexes and pack files (lib/repository.c and           *)
(* lib/object_cache.c), and the helper processes which read the object     *)
(* files for it (libexec/got-read-...), each at the other end of a socket  *)
(* pair (lib/privsep.c).  An object is looked up in its cache, in the pack *)
(* indexes, those cached first, and then among the loose files; a helper   *)
(* is started when first needed and asked; its answer takes one or more    *)
(* messages.  A helper which meets an error reports it and exits.          *)
(*                                                                         *)
(* Objects handed out are reference counted: the program holds some, the   *)
(* cache holds some, and the cache evicts what it likes.                   *)
(***************************************************************************)
EXTENDS Integers, Sequences, FiniteSets, SequencesExt

CONSTANTS
  Obj, TypeOf,       \* object ids; TypeOf[o]: "commit", "tree", "blob" or "tag"
  Pack, InPack,      \* pack files; InPack[p]: the objects in p
  Loose,             \* the objects which have a file of their own
  Late,              \* the packs that `got fetch' installs while the program runs
  TooLarge,          \* the objects whose size exceeds what a cache accepts
  PackidxCacheSize, PackCacheSize, ObjectCacheSize,
  MaxOpens           \* bound on the objects the program opens

ASSUME CacheSizes == {PackidxCacheSize, PackCacheSize - 1, ObjectCacheSize} \subseteq Nat \ {0}
ASSUME ObjectTypes == TypeOf \in [Obj -> {"commit", "tree", "blob", "tag"}]

Cached == {"object", "commit", "tree", "tag"}      \* blobs are not cached
Helper == {"object", "commit", "tree", "blob", "tag"} \cup Pack
ASSUME PacksAreNoTypes == Pack \cap {"object", "commit", "tree", "blob", "tag"} = {}

VARIABLES
  packdir,   \* the packs whose index is in the repository
  indexes,   \* packidx_cache: a sequence of packs
  packs,     \* repo->packs: a sequence of packs, their files open
  helper,    \* the helper processes, see NoHelper
  cache,     \* per type: the instances in the cache and the count of its id set
  mem,       \* the instances made so far: what was asked for, what they hold, refcnt
  held,      \* per instance: how many references the program has
  op,        \* the call in progress, see NoOp
  fault      \* some helper was killed

objectsVars == <<packdir, indexes, packs, helper, cache, mem, held, op, fault>>

NoHelper == [state |-> "none", asked |-> <<>>, out |-> <<>>]
NoOp == [pc |-> "idle", kind |-> "none", id |-> 0, pack |-> "none", seen |-> {}, ask |-> "none",
         to |-> "object", got |-> <<>>]

Has(p, o) == o \in InPack[p]
Exists(o) == o \in Loose \/ \E p \in packdir : Has(p, o)
Type(kind) == IF kind = "traverse" THEN "commit" ELSE kind

(* A call returns to the program: with an error which its callers expect (no such
   object, not a tag), or with one that ends the program. *)
Return == op' = NoOp
Tolerated == op' = [NoOp EXCEPT !.pc = "idle"]
Fails == op' = [op EXCEPT !.pc = "failed"]

--------------------------------------------------------------------------
(* The cache of one type of objects (got_object_cache_add).  Eviction closes what the
   id set has at its root.  The set counts an id that it has already and keeps the old
   element. *)
Evictable(k) == IF cache[k].count >= ObjectCacheSize THEN cache[k].items ELSE {0}

EvictFree(m, i) == IF i = 0 THEN m ELSE [m EXCEPT ![i].refcnt = 0]
Evict(m, i) == IF i = 0 THEN m ELSE [m EXCEPT ![i].refcnt = @ - 1]

CacheAdd(k, i, out) ==
  LET items == cache[k].items \ {out}
      count == IF out = 0 THEN cache[k].count ELSE cache[k].count - 1
      isNew == \A j \in items : mem[j].id # op.id
  IN cache' = [cache EXCEPT ![k] = [items |-> IF isNew THEN items \cup {i} ELSE items,
                                    count |-> count + 1]]

(* The end of open_commit, open_tree, open_tag and got_object_open: one reference for
   the caller, one for the cache.  got_traverse_packed_commits drops the caller's. *)
Finish(content) ==
  LET i == Len(mem) + 1
      k == Type(op.kind)
      caller == IF op.kind = "traverse" THEN 0 ELSE 1
      new == [kind |-> k, id |-> op.id, content |-> content, refcnt |-> caller]
  IN /\ held' = Append(held, caller)
     /\ IF k \in Cached /\ op.id \notin TooLarge
        THEN \E out \in Evictable(k) :
               /\ mem' = Append(Evict(mem, out), [new EXCEPT !.refcnt = @ + 1])
               /\ CacheAdd(k, i, out)
        ELSE mem' = Append(mem, new) /\ UNCHANGED cache
     /\ Return

(* When the object is in the cache. *)
OpenCached(kind, o) ==
  /\ op.pc = "idle" /\ kind \in Cached
  /\ \E i \in cache[kind].items :
       /\ mem[i].id = o /\ held[i] < MaxOpens
       /\ mem' = [mem EXCEPT ![i].refcnt = @ + 1]
       /\ held' = [held EXCEPT ![i] = @ + 1]
  /\ UNCHANGED <<packdir, indexes, packs, helper, cache, op, fault>>

(* When it is not: start to look for it. *)
OpenUncached(kind, o) ==
  /\ op.pc = "idle" /\ Len(mem) < MaxOpens
  /\ kind \in Cached => \A i \in cache[kind].items : mem[i].id # o
  /\ op' = [NoOp EXCEPT !.pc = "search", !.kind = kind, !.id = o]
  /\ UNCHANGED <<packdir, indexes, packs, helper, cache, mem, held, fault>>

OpenObject(o) == OpenCached("object", o) \/ OpenUncached("object", o)
OpenCommit(o) == OpenCached("commit", o) \/ OpenUncached("commit", o)
OpenTree(o) == OpenCached("tree", o) \/ OpenUncached("tree", o)
OpenTag(o) == OpenCached("tag", o) \/ OpenUncached("tag", o)
OpenBlob(o) == OpenUncached("blob", o)
TraversePackedCommits(o) == OpenUncached("traverse", o)

(* got_object_close: the program is done with one reference. *)
Close(i) ==
  /\ op.pc = "idle" /\ held[i] > 0
  /\ held' = [held EXCEPT ![i] = @ - 1]
  /\ mem' = [mem EXCEPT ![i].refcnt = @ - 1]
  /\ UNCHANGED <<packdir, indexes, packs, helper, cache, op, fault>>

--------------------------------------------------------------------------
(* got_repo_search_packidx: the cached indexes first; the one which has the object
   changes places with the first. *)
Hits == {i \in DOMAIN indexes : Has(indexes[i], op.id)}
SearchCache ==
  /\ op.pc = "search"
  /\ \E i \in Hits : /\ \A j \in Hits : i <= j
                     /\ indexes' = [indexes EXCEPT ![1] = indexes[i], ![i] = indexes[1]]
                     /\ op' = [op EXCEPT !.pc = "pack", !.pack = indexes[i]]
  /\ UNCHANGED <<packdir, packs, helper, cache, mem, held, fault>>

(* Then the directory: cache_packidx puts an index opened in front of the others and
   closes the last one if there is no room. *)
CachePackidx(p) == SubSeq(<<p>> \o indexes, 1, Min({Len(indexes) + 1, PackidxCacheSize}))
SearchDirectory(p) ==
  /\ \/ op.pc = "search" /\ Hits = {}
     \/ op.pc = "scan"
  /\ p \in packdir \ op.seen
  /\ IF p \in ToSet(indexes)
     THEN /\ op' = [op EXCEPT !.pc = "scan", !.seen = @ \cup {p}]
          /\ UNCHANGED indexes
     ELSE /\ indexes' = CachePackidx(p)
          /\ op' = [op EXCEPT !.pc = IF Has(p, op.id) THEN "pack" ELSE "scan",
                              !.seen = @ \cup {p}, !.pack = p]
  /\ UNCHANGED <<packdir, packs, helper, cache, mem, held, fault>>

(* No pack has it: the loose file, whose helper is the one of its type; for a tag it is
   asked for its header first.  Packed commits only are traversed. *)
AskFirstTag(kind) == kind
AskFirst(kind) == IF kind = "tag" THEN "object" ELSE kind

OpenLoose ==
  /\ \/ op.pc = "search" /\ Hits = {}
     \/ op.pc = "scan"
  /\ packdir \subseteq op.seen
  /\ IF op.kind = "traverse" \/ op.id \notin Loose
     THEN Tolerated
     ELSE op' = [op EXCEPT !.pc = "ask", !.ask = AskFirst(op.kind), !.to = AskFirst(op.kind)]
  /\ UNCHANGED <<packdir, indexes, packs, helper, cache, mem, held, fault>>

(* got_repo_get_cached_pack, got_repo_cache_pack: the last slot of the array stays
   empty; when the others are taken, the pack in the last of them is closed, which
   stops its helper, and the new one goes to the front. *)
CachePack ==
  /\ op.pc = "pack"
  /\ IF op.pack \in ToSet(packs)
     THEN UNCHANGED <<packs, helper>>
     ELSE IF Len(packs) < PackCacheSize - 1
     THEN packs' = Append(packs, op.pack) /\ UNCHANGED helper
     ELSE /\ packs' = <<op.pack>> \o Front(packs)
          /\ helper' = [helper EXCEPT ![Last(packs)] = NoHelper]
  /\ op' = [op EXCEPT !.pc = "ask", !.ask = AskFirst(op.kind), !.to = op.pack]
  /\ UNCHANGED <<packdir, indexes, cache, mem, held, fault>>

--------------------------------------------------------------------------
(* start_pack_privsep_child, read_object_header_privsep and the like: start the helper
   unless there is one, and send the request; a helper that has exited does not take
   it. *)
SendRequest ==
  /\ op.pc = "ask"
  /\ IF helper[op.to].state = "dead"
     THEN Fails /\ UNCHANGED helper
     ELSE /\ helper' = [helper EXCEPT ![op.to].state = "running",
                                      ![op.to].asked = <<[kind |-> op.ask, id |-> op.id]>>]
          /\ op' = [op EXCEPT !.pc = "wait", !.got = <<>>]
  /\ UNCHANGED <<packdir, indexes, packs, cache, mem, held, fault>>

Msg(type, o) == [type |-> type, id |-> o]
Error(o) == Msg("error", o)

(* What the helpers send: got_privsep_send_obj, _commit (the log message comes after
   it), _tree (one message per entry), _blob, _tag, and of a traversal the ids, the
   commit where the path changed, and the end. *)
SendObj(o) == <<Msg("object", o)>>
SendCommit(o) == <<Msg("commit", o), Msg("logmsg", o)>>
SendTree(o) == <<Msg("tree", o), Msg("entry", o)>>
SendBlob(o) == <<Msg("blob", o)>>
SendTag(o) == <<Msg("tag", o), Msg("tagmsg", o)>>
SendTraversal(o) == <<Msg("traversed", o)>> \o SendCommit(o) \o <<Msg("done", o)>>
SendReply(kind, o) ==
  CASE kind = "object" -> SendObj(o)
    [] kind = "commit" -> SendCommit(o)
    [] kind = "tree" -> SendTree(o)
    [] kind = "blob" -> SendBlob(o)
    [] kind = "tag" -> SendTag(o)
    [] kind = "traverse" -> SendTraversal(o)

(* A request's object is not of the type asked for: the data does not parse. *)
Parses(req) == req.kind = "object" \/ TypeOf[req.id] = Type(req.kind)

(* The handlers of got-read-pack, and the loops of got-read-object, -commit, -tree,
   -blob and -tag: answer, or report the error and exit; got-read-pack reports twice. *)
PackReply(req) == IF Parses(req) THEN SendReply(req.kind, req.id)
                  ELSE <<Error(req.id), Error(req.id)>>
ReadObjectReply(req) == SendObj(req.id)
ReadCommitReply(req) == IF Parses(req) THEN SendCommit(req.id) ELSE <<Error(req.id)>>
ReadTreeReply(req) == IF Parses(req) THEN SendTree(req.id) ELSE <<Error(req.id)>>
ReadBlobReply(req) == IF Parses(req) THEN SendBlob(req.id) ELSE <<Error(req.id)>>
ReadTagReply(req) == IF Parses(req) THEN SendTag(req.id) ELSE <<Error(req.id)>>
Reply(h, req) ==
  CASE h \in Pack -> PackReply(req)
    [] h = "object" -> ReadObjectReply(req)
    [] h = "commit" -> ReadCommitReply(req)
    [] h = "tree" -> ReadTreeReply(req)
    [] h = "blob" -> ReadBlobReply(req)
    [] h = "tag" -> ReadTagReply(req)

Serve(h) ==
  /\ helper[h].state = "running" /\ helper[h].asked # <<>>
  /\ LET req == Head(helper[h].asked)
         reply == Reply(h, req)
     IN helper' = [helper EXCEPT ![h] =
                     [state |-> IF Parses(req) THEN "running" ELSE "dead",
                      asked |-> <<>>, out |-> @.out \o reply]]
  /\ UNCHANGED <<packdir, indexes, packs, cache, mem, held, op, fault>>

(* A helper dies, for example of a signal, perhaps in the middle of an answer. *)
KillHelper(h) ==
  /\ helper[h].state = "running"
  /\ \E n \in 0..Len(helper[h].out) :
       helper' = [helper EXCEPT ![h] = [state |-> "dead", asked |-> <<>>,
                                        out |-> SubSeq(@.out, 1, n)]]
  /\ fault' = TRUE
  /\ UNCHANGED <<packdir, indexes, packs, cache, mem, held, op>>

(* The types of the messages which the receiver of an answer waits for. *)
RecvObj == <<"object">>
RecvCommit == <<"commit", "logmsg">>
RecvTree == <<"tree", "entry">>
RecvBlob == <<"blob">>
RecvTag == <<"tag", "tagmsg">>
RecvTraversedCommits == <<"traversed">> \o RecvCommit \o <<"done">>
Expected ==
  CASE op.ask = "object" -> RecvObj
    [] op.ask = "commit" -> RecvCommit
    [] op.ask = "tree" -> RecvTree
    [] op.ask = "blob" -> RecvBlob
    [] op.ask = "tag" -> RecvTag
    [] op.ask = "traverse" -> RecvTraversedCommits

(* One message is received; an error, another message than expected, or the end of the
   connection fails the call. *)
RecvImsg ==
  /\ op.pc = "wait" /\ helper[op.to].asked = <<>>
  /\ LET out == helper[op.to].out
     IN \/ /\ out = <<>> /\ helper[op.to].state = "dead"
           /\ Fails /\ UNCHANGED helper
        \/ /\ out # <<>>
           /\ helper' = [helper EXCEPT ![op.to].out = Tail(@)]
           /\ IF Head(out).type # Expected[Len(op.got) + 1]
              THEN Fails
              ELSE op' = [op EXCEPT !.got = Append(@, Head(out)),
                            !.pc = IF Len(op.got) + 1 = Len(Expected) THEN "received" ELSE @]
  /\ UNCHANGED <<packdir, indexes, packs, cache, mem, held, fault>>

(* open_tag: only a tag object is asked for as a tag; a reference may well point to a
   commit. *)
CheckTagType ==
  /\ op.pc = "received" /\ op.kind = "tag" /\ op.ask = "object"
  /\ IF TypeOf[op.got[1].id] # "tag" THEN Tolerated
     ELSE op' = [op EXCEPT !.pc = "ask", !.ask = "tag",
                           !.to = IF @ \in Pack THEN @ ELSE "tag"]
  /\ UNCHANGED <<packdir, indexes, packs, helper, cache, mem, held, fault>>

Received ==
  /\ op.pc = "received" /\ op.ask = op.kind
  /\ Finish(op.got[1].id)
  /\ UNCHANGED <<packdir, indexes, packs, helper, fault>>

(* got fetch, elsewhere, has installed a pack and its index. *)
InstallPackidx(p) ==
  /\ p \in Late \ packdir
  /\ packdir' = packdir \cup {p}
  /\ UNCHANGED <<indexes, packs, helper, cache, mem, held, op, fault>>

--------------------------------------------------------------------------
ObjectsStart ==
  /\ indexes = <<>> /\ packs = <<>>
  /\ helper = [h \in Helper |-> NoHelper]
  /\ cache = [k \in Cached |-> [items |-> {}, count |-> 0]]
  /\ mem = <<>> /\ held = <<>> /\ op = NoOp /\ fault = FALSE
ObjectsInit == packdir = Pack \ Late /\ ObjectsStart
ObjectsIdle == packdir = {} /\ ObjectsStart

ObjectsNext ==
  \/ \E o \in Obj : /\ packdir # {}
                     /\ \/ OpenObject(o) \/ OpenCommit(o) \/ OpenTree(o) \/ OpenTag(o)
                        \/ OpenBlob(o) \/ TraversePackedCommits(o)
  \/ \E i \in DOMAIN mem : Close(i)
  \/ SearchCache \/ OpenLoose \/ CachePack \/ SendRequest \/ RecvImsg
  \/ CheckTagType \/ Received
  \/ \E p \in Pack : SearchDirectory(p) \/ (packdir # {} /\ InstallPackidx(p))
  \/ \E h \in Helper : Serve(h) \/ (~fault /\ KillHelper(h))
ObjectsSpec == ObjectsInit /\ [][ObjectsNext]_objectsVars

(* An object the program or a cache refers to has not been freed, however calls, hits,
   evictions and duplicate additions are mixed (refcnt in got_repo_cache_commit,
   got_object_cache_add, got_traverse_packed_commits and the close functions). *)
HeldObjectsAreLive ==
  \A i \in DOMAIN mem :
    mem[i].refcnt >= held[i] + Cardinality({k \in Cached : i \in cache[k].items})

(* An object handed out is the one that was asked for, and reading one that exists and
   is of the type asked for fails only after a helper was killed: lookups of things that are
   no tags, evicted packs, indexes and objects, and packs that arrive meanwhile do not
   get a helper out of step with its requests, or make it exit. *)
ReadsReturnTheObject ==
  /\ \A i \in DOMAIN mem : mem[i].content = mem[i].id
  /\ op.pc = "failed" => fault \/ ~Exists(op.id)
                           \/ ~(op.kind = "tag" \/ Parses([kind |-> op.kind, id |-> op.id]))
=============================================================================
