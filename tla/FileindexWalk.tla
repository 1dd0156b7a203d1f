--------------------------- MODULE FileindexWalk ----------------------------
(***************************************************************************)
(* The parallel walks of the file index and a tree (update, checkout) or a *)
(* directory (status and everything built on it) of lib/fileindex.c, and   *)
(* the callbacks of lib/worktree.c that change the index meanwhile.        *)
(*                                                                         *)
(* Both sides are sorted by got_path_cmp, which compares characters but    *)
(* keeps the files of a directory together.  A path is a sequence of       *)
(* names; Str gives its characters.  Index and tree paths have neither     *)
(* repeated nor trailing separators.                                       *)
(***************************************************************************)
EXTENDS Integers, Sequences, FiniteSets, SequencesExt

CONSTANTS Chars,         \* the characters of a name
          Trees,         \* from paths to "file", "dir" or "submodule"
          Indexes,       \* sets of paths
          PathArgs,      \* lists of arguments: paths, <<>> for the whole work tree
          IgnoreFiles    \* per directory: the patterns in .cvsignore and .gitignore

VARIABLES
  tree,    \* the tree or directory that is walked
  index,   \* entries: path -> "kept", "new" (NOT_FLUSHED) or "removed" (REMOVE_ON_FLUSH);
           \* nentries; old: the paths it had at first
  walk     \* [pc, kind, args, todo, stack, ie, entry, seen, ignores, err]

walkVars == <<tree, index, walk>>

Slash == 47
Str(p) == IF p = <<>> THEN <<>>
          ELSE FoldLeft(LAMBDA s, n : s \o <<Slash>> \o Chars[n], Chars[Head(p)], Tail(p))
CharAt(s, i) == IF i <= Len(s) THEN s[i] ELSE 0

(* got_path_cmp: children directly after their parents, otherwise by the character that
   follows the common prefix. *)
FirstDifference(s, t) == CHOOSE i \in 1..(Len(s) + 1) :
                           CharAt(s, i) # CharAt(t, i) /\ \A j \in 1..(i - 1) : s[j] = CharAt(t, j)
GotPathCmpBytes(p, q) ==
  LET s == Str(p)  t == Str(q)
      a == CharAt(s, FirstDifference(s, t))  b == CharAt(t, FirstDifference(s, t))
  IN IF p = q THEN 0 ELSE IF a < b THEN -1 ELSE 1
GotPathCmp(p, q) ==
  LET s == Str(p)  t == Str(q)
      a == CharAt(s, FirstDifference(s, t))  b == CharAt(t, FirstDifference(s, t))
  IN IF p = q THEN 0
     ELSE IF a = Slash /\ b = 0 THEN 1
     ELSE IF b = Slash /\ a = 0 THEN -1
     ELSE IF a = Slash THEN -1
     ELSE IF b = Slash THEN 1
     ELSE IF a < b THEN -1 ELSE 1

GotPathIsChild(p, parent) ==
  LET s == Str(p)  t == Str(parent)
  IN parent = <<>> \/ (IsPrefix(t, s) /\ CharAt(s, Len(t) + 1) = Slash)

(* A tree's entries come from got_object_parse_tree, a directory's from read_dirlist;
   both insert them in order (got_pathlist_insert). *)
Entries(d) == {p \in DOMAIN tree : Front(p) = d}
Listing(d) == SetToSortSeq(Entries(d), LAMBDA p, q : GotPathCmp(p, q) < 0)

(* walk_fileindex, and the search for the first entry below a path.  Entries which
   were added or removed by callbacks are skipped, but not at the very beginning. *)
NoEntry == <<>>
Smallest(S) == IF S = {} THEN NoEntry
               ELSE CHOOSE p \in S : \A q \in S : GotPathCmp(p, q) <= 0
WalkFileindex(entries, ie) ==
  Smallest({p \in DOMAIN entries : GotPathCmp(p, ie) > 0 /\ entries[p] = "kept"})
FirstBelow(entries, path) ==
  Smallest({p \in DOMAIN entries :
              /\ GotPathIsChild(p, path)
              /\ entries[p] = "kept" \/ p = Smallest(DOMAIN entries)})

(* got_fileindex_entry_add and got_fileindex_entry_remove. *)
EntryAdd(idx, p) ==
  [idx EXCEPT !.nentries = @ + 1,
              !.entries = IF p \in DOMAIN @ THEN @
                          ELSE [q \in DOMAIN @ \cup {p} |-> IF q = p THEN "new" ELSE @[q]]]
EntryRemove(idx, p) == [idx EXCEPT !.nentries = @ - 1, !.entries[p] = "removed"]

--------------------------------------------------------------------------
Level == Head(walk.stack)
HasTe == Level.rest # <<>>
Te == Head(Level.rest)
Walking == walk.pc = "walk" /\ walk.stack # <<>>
Cmp == GotPathCmp(walk.ie, Te)

Seen(w, how, p) == [w EXCEPT !.seen = Append(@, <<how, p>>)]
NextIe(w, idx) == [w EXCEPT !.ie = WalkFileindex(idx.entries, @)]
LeaveLevel(w) == [w EXCEPT !.stack = Tail(@)]

(* walk_tree and walk_dir: into the entry if it is a directory, then to the next.  A
   directory that may not be opened is passed over like an empty one. *)
Visit(w) ==
  LET next == [w EXCEPT !.stack[1].rest = Tail(@)]
  IN IF tree[Te] # "dir" THEN next
     ELSE [next EXCEPT !.stack = <<[path |-> Te, rest |-> Listing(Te)]>> \o @]

(* An update of one file has an entry_name; its name alone is compared, in
   subdirectories too. *)
Wanted(p) == walk.entry = NoEntry \/ Last(p) = Last(walk.entry)

(* diff_old_new, diff_old and diff_new of worktree.c: update_blob keeps the entry or
   creates one; delete_blob removes it, or keeps it for a file with local changes. *)
DiffOldNew(w, p) == Seen(w, "both", p)
DiffNew(w, p) == IF tree[p] = "submodule" THEN w ELSE Seen(w, "new", p)
NewEntry(idx, p) == IF tree[p] = "file" THEN EntryAdd(idx, p) ELSE idx
DiffOld(w, p) == Seen(w, "old", p)
OldEntry(idx, p) == {idx, EntryRemove(idx, p)}

(* diff_fileindex_tree, one turn of the loop; with an entry_name it ends after the
   first callback, and so do the calls for subdirectories. *)
TreeOldNew ==
  /\ Walking /\ walk.kind = "tree" /\ HasTe /\ walk.ie # NoEntry /\ Cmp = 0
  /\ LET report == GotPathIsChild(walk.ie, Level.path) /\ tree[Te] # "submodule" /\ Wanted(Te)
         w == IF report THEN DiffOldNew(walk, Te) ELSE walk
     IN walk' = IF report /\ walk.entry # NoEntry THEN LeaveLevel(w) ELSE Visit(NextIe(w, index))
  /\ UNCHANGED <<tree, index>>
TreeOld ==
  /\ Walking /\ walk.kind = "tree" /\ walk.ie # NoEntry
  /\ IF HasTe THEN Cmp < 0 ELSE GotPathIsChild(walk.ie, Level.path)
  /\ LET report == /\ GotPathIsChild(walk.ie, Level.path)
                   /\ walk.entry = NoEntry \/ (HasTe /\ Wanted(Te))
         w == IF report THEN DiffOld(walk, walk.ie) ELSE walk
     IN /\ index' \in IF report THEN OldEntry(index, walk.ie) ELSE {index}
        /\ walk' = IF report /\ walk.entry # NoEntry THEN LeaveLevel(w) ELSE NextIe(w, index)
  /\ UNCHANGED tree
TreeNew ==
  /\ Walking /\ walk.kind = "tree" /\ HasTe /\ (walk.ie = NoEntry \/ Cmp > 0)
  /\ IF Wanted(Te) /\ (walk.ie # NoEntry \/ tree[Te] # "submodule")
     THEN /\ index' = NewEntry(index, Te)
          /\ walk' = LET w == DiffNew(walk, Te)
                     IN IF walk.entry # NoEntry THEN LeaveLevel(w) ELSE Visit(w)
     ELSE index' = index /\ walk' = Visit(walk)
  /\ UNCHANGED tree

(* The loop's condition fails. *)
WalkReturn ==
  /\ Walking /\ ~HasTe /\ (walk.ie = NoEntry \/ ~GotPathIsChild(walk.ie, Level.path))
  /\ walk' = LeaveLevel(walk) /\ UNCHANGED <<tree, index>>

(* A callback fails or the user cancels: the walk ends. *)
WalkFails ==
  /\ Walking /\ walk' = [walk EXCEPT !.stack = <<>>, !.todo = <<>>, !.err = TRUE]
  /\ UNCHANGED <<tree, index>>

--------------------------------------------------------------------------
(* add_ignores for both files of a directory.  got_pathlist_insert refuses a second
   list for one directory: with a .cvsignore there, .gitignore has no effect. *)
ReadIgnores(ign, d) ==
  LET lists == SelectSeq(IgnoreFiles[d], LAMBDA l : l # {})
  IN IF d \in DOMAIN ign \/ lists = <<>> THEN ign
     ELSE [e \in DOMAIN ign \cup {d} |-> IF e = d THEN Head(lists) ELSE ign[e]]
AddIgnores(ign, d) == IF d \in DOMAIN IgnoreFiles THEN ReadIgnores(ign, d) ELSE ign
AddIgnoresFromParentPaths(d) ==
  FoldLeft(AddIgnores, [e \in {} |-> {}],
           <<(<<>>)>> \o [i \in 1..(IF d = <<>> THEN 0 ELSE Len(d) - 1) |-> SubSeq(d, 1, Len(d) - i)])

(* match_ignores: "**/name" in the top directory matches in all directories; below, at
   least one directory lies between. *)
MatchIgnores(ign, p) ==
  \E d \in DOMAIN ign : \E pattern \in ign[d] :
    /\ GotPathIsChild(p, d)
    /\ IF pattern.deep THEN \E i \in Len(d) + (IF d = <<>> THEN 1 ELSE 2)..Len(p) : p[i] = pattern.name
       ELSE p[Len(d) + 1] = pattern.name

(* status_traverse: called by diff_fileindex_dir for each directory it enters. *)
StatusTraverse(w) ==
  IF w.stack = <<>> THEN w ELSE [w EXCEPT !.ignores = AddIgnores(@, Head(w.stack).path)]
VisitDir(w) == IF tree[Te] = "dir" THEN StatusTraverse(Visit(w)) ELSE Visit(w)

(* status_old_new, status_old and status_new report a path, unless it is a directory or
   ignored; what is done with it may remove its entry (got revert) or add one (got add). *)
StatusOldNew(w, p) == Seen(w, "both", p)
StatusOld(w, p) == Seen(w, "old", p)
StatusNew(w, p) == IF tree[p] = "dir" \/ MatchIgnores(w.ignores, p) THEN w ELSE Seen(w, "new", p)

(* diff_fileindex_dir, one turn of the loop. *)
DirOldNew ==
  /\ Walking /\ walk.kind = "dir" /\ HasTe /\ walk.ie # NoEntry /\ Cmp = 0
  /\ index' \in {index, EntryRemove(index, walk.ie)}
  /\ walk' = VisitDir(NextIe(StatusOldNew(walk, Te), index'))
  /\ UNCHANGED tree
DirOld ==
  /\ Walking /\ walk.kind = "dir" /\ walk.ie # NoEntry
  /\ IF HasTe THEN Cmp < 0 ELSE GotPathIsChild(walk.ie, Level.path)
  /\ index' \in {index, EntryRemove(index, walk.ie)}
  /\ walk' = NextIe(StatusOld(walk, walk.ie), index')
  /\ UNCHANGED tree
DirNew ==
  /\ Walking /\ walk.kind = "dir" /\ HasTe /\ (walk.ie = NoEntry \/ Cmp > 0)
  /\ index' \in {index} \cup (IF StatusNew(walk, Te) = walk THEN {} ELSE {EntryAdd(index, Te)})
  /\ walk' = VisitDir(StatusNew(walk, Te))
  /\ UNCHANGED tree

--------------------------------------------------------------------------
Arg == Head(walk.todo)
Start(path, entry) ==
  walk' = [walk EXCEPT !.todo = Tail(@), !.stack = <<[path |-> path, rest |-> Listing(path)]>>,
                       !.ie = FirstBelow(index.entries, path), !.entry = entry]
NextArg == walk.pc = "walk" /\ walk.stack = <<>> /\ walk.todo # <<>>

(* find_tree_entry_for_checkout and checkout_files: a path that is a directory in the
   tree is walked, of a file's directory one entry; other paths are an error which is
   found before the index is read. *)
CheckoutFiles ==
  /\ NextArg /\ walk.kind = "tree"
  /\ IF Arg = <<>> \/ tree[Arg] = "dir" THEN Start(Arg, NoEntry) ELSE Start(Front(Arg), Arg)
  /\ UNCHANGED <<tree, index>>

(* worktree_status; report_single_file_status where there is no directory. *)
WorktreeStatus ==
  /\ NextArg /\ walk.kind = "dir"
  /\ IF Arg = <<>> \/ (Arg \in DOMAIN tree /\ tree[Arg] = "dir")
     THEN walk' = StatusTraverse(
            [walk EXCEPT !.todo = Tail(@), !.stack = <<[path |-> Arg, rest |-> Listing(Arg)]>>,
                         !.ie = FirstBelow(index.entries, Arg), !.entry = NoEntry,
                         !.ignores = AddIgnoresFromParentPaths(Arg)])
     ELSE walk' = [walk EXCEPT
            !.todo = Tail(@),
            !.seen = IF Arg \in DOMAIN index.entries /\ index.entries[Arg] # "removed"
                     THEN Append(@, <<IF Arg \in DOMAIN tree THEN "both" ELSE "old", Arg>>)
                     ELSE Append(@, <<IF Arg \in DOMAIN tree THEN "new" ELSE "none", Arg>>)]
  /\ UNCHANGED <<tree, index>>

(* got_fileindex_write: the number of entries is in the header, entries to be removed
   are left out. *)
FileindexWrite ==
  /\ walk.pc = "walk" /\ walk.stack = <<>> /\ walk.todo = <<>>
  /\ walk' = [walk EXCEPT !.pc = "done"]
  /\ index' = [index EXCEPT !.entries =
                 [p \in {q \in DOMAIN @ : @[q] # "removed"} |-> "kept"]]
  /\ UNCHANGED tree

--------------------------------------------------------------------------
NoWalk == [pc |-> "none", kind |-> "tree", args |-> <<>>, todo |-> <<>>, stack |-> <<>>,
           ie |-> NoEntry, entry |-> NoEntry, seen |-> <<>>, ignores |-> [e \in {} |-> {}],
           err |-> FALSE]
IndexOf(S) == [entries |-> [p \in S |-> "kept"], nentries |-> Cardinality(S), old |-> S]

WalkInit ==
  /\ tree \in Trees
  /\ index \in {IndexOf(S) : S \in Indexes}
  /\ \E kind \in {"tree", "dir"}, args \in PathArgs :
       /\ kind = "tree" => \A i \in DOMAIN args :
            args[i] = <<>> \/ (args[i] \in DOMAIN tree /\ tree[args[i]] # "submodule")
       /\ kind = "dir" => "submodule" \notin Range(tree)
       /\ walk = [NoWalk EXCEPT !.pc = "walk", !.kind = kind, !.args = args, !.todo = args]
WalkIdle == tree = [p \in {} |-> "file"] /\ index = IndexOf({}) /\ walk = NoWalk

WalkNext ==
  \/ TreeOldNew \/ TreeOld \/ TreeNew \/ DirOldNew \/ DirOld \/ DirNew \/ WalkReturn
  \/ WalkFails \/ CheckoutFiles \/ WorktreeStatus \/ FileindexWrite

--------------------------------------------------------------------------
(* What is to be reported of the paths an argument names. *)
Below(p, arg) == p # arg /\ GotPathIsChild(p, arg)
IsFileArg(arg) == arg # <<>> /\ ~(arg \in DOMAIN tree /\ tree[arg] = "dir")
Named(p) == \E i \in DOMAIN walk.args :
              IF IsFileArg(walk.args[i]) THEN p = walk.args[i] ELSE Below(p, walk.args[i])
How(p) ==
  IF p \in index.old THEN IF p \in DOMAIN tree THEN "both" ELSE "old"
  ELSE IF p \in DOMAIN tree THEN "new" ELSE "none"
IsIgnored(p) ==
  \E d \in DOMAIN IgnoreFiles : MatchIgnores(AddIgnores([e \in {} |-> {}], d), p)
Unreported(p) ==
  \/ p \in DOMAIN tree /\ tree[p] = "submodule"
  \/ /\ walk.kind = "dir" /\ How(p) = "new"
     /\ tree[p] = "dir" \/ (IsIgnored(p) /\ p \notin Range(walk.args))
ToBeReported ==
  {<<How(p), p>> : p \in {q \in index.old \cup DOMAIN tree \cup (Range(walk.args) \ {<<>>}) :
                            Named(q) /\ ~Unreported(q)}}

(* An update of one file meets an entry that is no longer in the tree where it should
   meet the file, or a file of the same name in a subdirectory before it. *)
Shadowed(arg) ==
  /\ walk.kind = "tree" /\ IsFileArg(arg)
  /\ \/ \E p \in index.old \ DOMAIN tree :
          /\ GotPathIsChild(p, Front(arg)) /\ GotPathCmp(p, arg) < 0
          /\ \A q \in Entries(Front(arg)) : GotPathCmp(q, p) < 0 \/ GotPathCmp(q, arg) >= 0
     \/ \E q \in DOMAIN tree : /\ Below(q, Front(arg)) /\ q # arg /\ Last(q) = Last(arg)
                               /\ GotPathCmp(q, arg) < 0

(* A walk that is not cut short reports each path below its arguments exactly once, as
   in the index, in the tree or directory, or in both, whatever the callbacks add to and
   remove from the index meanwhile, and no other path: unignored files only, and of a
   file that is to be updated alone only this one (diff_fileindex_tree,
   diff_fileindex_dir).  However the walk ends, the number in the header of the index is
   the number of entries that follow (got_fileindex_write), as got_fileindex_read
   requires.  The update of a Shadowed file is excluded. *)
EachPathReportedOnce ==
  walk.pc = "done" /\ (\A i \in DOMAIN walk.args : ~Shadowed(walk.args[i])) =>
    /\ index.nentries = Cardinality(DOMAIN index.entries)
    /\ walk.err \/ (ToSet(walk.seen) = ToBeReported /\ Len(walk.seen) = Cardinality(ToBeReported))
=============================================================================
