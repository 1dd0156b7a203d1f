------------------------- MODULE WorktreeOpsProofs -------------------------
(* Proofs about WorktreeOps: for any files, regions and commits, any number   *)
(* of commands, edits and kills, and whatever others commit, a file that      *)
(* passes for unmodified is, a commit has the changes that were collected,    *)
(* and what the user wrote stays.                                             *)
EXTENDS WorktreeOps, TLAPS

(* No file that the index does not know, or that is scheduled for deletion,   *)
(* is where the branch has a file.  Otherwise update may record it as         *)
(* unmodified (worktree.c:2037 and 2010).                                     *)
NoFileInTheWay ==
    \A p \in Paths : disk[p] # None /\ (fi[p] = None \/ fi[p].nofile) => Tree(head)[p] = None

(* The texts commits have for a path.                                         *)
Trees == {Tree(c) : c \in DOMAIN hist} \cup {Side.from, Side.to}
Texts(p) == {t[p].c : t \in {s \in Trees : s[p] # None}}

(* What the user has written is in no commit: text that is equal to a         *)
(* commit's is no local change.                                               *)
NewText ==
    \A p \in Paths, r \in Regions :
        mine[p][r] # None => \A b \in Texts(p) : mine[p][r] \notin b[r]

-----------------------------------------------------------------------------
(* The invariants, in four layers.                                            *)
OnDisk == File \cup {None}
Index == Entry \cup {None}

HistOK ==
    /\ hist \in Seq([tree : TreeType, parent : Nat]) /\ Len(hist) <= MaxCommits
    /\ \A c \in DOMAIN hist : hist[c].parent < c
    /\ head \in DOMAIN hist /\ base \in DOMAIN hist

(* An entry is staged with a staged blob, or for deletion; only an entry that *)
(* was checked out or committed has a blob.                                   *)
EntryFormed(ie) ==
    /\ ie \in Entry /\ ie.commit \in DOMAIN hist \cup {None}
    /\ ie.stage = "-" => ie.sblob = None
    /\ ie.stage \in {"A", "M"} => ie.sblob # None
    /\ ie.stage = "M" => ie.blob # None
    /\ ie.stage = "D" => ie.nofile
    /\ ie.blob # None => ie.hasCommit /\ ie.commit # None
    /\ ie.hasCommit => ie.blob # None

(* An entry of the head's version without a blob: the head has no such file.  *)
PathFormed(p, ie, f) ==
    /\ f \in OnDisk /\ ie \in Index
    /\ ie # None => EntryFormed(ie) /\ (ie.commit = head /\ ie.blob = None => Tree(head)[p] = None)

(* The commitable paths, from when they are collected until the index is      *)
(* written.                                                                   *)
Commitable == [st : Status, stage : {"-", "A", "M", "D"}, blob : Content \cup {None},
               commit : Commits \cup {None}, x : BOOLEAN, c : Content \cup {None}]
Unstaged(ct) == ct.stage = "-" /\ ct.st # "D"
Deletes(ct) == ct.stage = "D" \/ (ct.stage = "-" /\ ct.st = "D")

(* A commitable of a path with entry ie.                                      *)
CtFormed(ct, ie) ==
    /\ ct \in Commitable /\ ie # None
    /\ ct.stage = ie.stage /\ ct.blob = ie.blob /\ (ct.st = "D" <=> ie.nofile)
    /\ ct.stage = "-" => ct.st \in {"M", "m", "A", "D"}
    /\ ct.stage = "-" /\ ct.st \in {"M", "m"} => ct.blob # None
    /\ ct.stage \in {"A", "M"} => ct.c = ie.sblob /\ ct.c # None
    /\ ct.stage = "M" => ct.st # "A" /\ ct.blob # None
    /\ ct.stage = "D" => ct.st = "D"
    /\ Deletes(ct) => ct.c = None

CommitFormed ==
    pc # "idle" =>
        /\ DOMAIN cts \subseteq Paths /\ \A p \in DOMAIN cts : CtFormed(cts[p], fi[p])
        /\ tip \in DOMAIN hist
        /\ pc # "editor" =>
             new \in DOMAIN hist /\ \A p \in DOMAIN cts : Unstaged(cts[p]) => cts[p].c # None

OpsInv ==
    /\ HistOK /\ pc \in {"idle", "editor", "base", "index"}
    /\ disk \in [Paths -> OnDisk] /\ fi \in [Paths -> Index]
    /\ mine \in [Paths -> [Regions -> Vals \cup {None}]]
    /\ \A p \in Paths : PathFormed(p, fi[p], disk[p])
    /\ CommitFormed

(* Recorded time stamps mean that the file has the recorded mode and, unless  *)
(* it is scheduled for addition or deletion, the text it is compared with.    *)
Stamped(ie, f) ==
    ie # None /\ f # None /\ ie.fresh =>
        /\ f.x = ie.x
        /\ ~ie.nofile /\ (ie.blob # None \/ ie.stage = "A") => f.c = ComparedBlob(ie)

StampInv ==
    /\ \A p \in Paths : Stamped(fi[p], disk[p])
    /\ pc \in {"base", "index"} =>
        \A p \in DOMAIN cts : Unstaged(cts[p]) => disk[p] # None /\ cts[p].c = disk[p].c

(* What was collected has been compared with the tip of the branch.           *)
Based(ct, te) ==
    IsAdded(ct) \/ IF ct.blob = None THEN te = None ELSE te # None /\ te.c = ct.blob

RecordInv ==
    /\ pc # "idle" => \A p \in DOMAIN cts : Based(cts[p], Tree(tip)[p])
    /\ CommitRecordsChanges

(* The user's text m of a path is in the file; where a merge has deleted the  *)
(* file, it is in the staged blob.                                            *)
Safe(m, ie, f) ==
    \A r \in Regions : m[r] # None =>
        IF f # None THEN m[r] \in f.c[r]
        ELSE ie # None /\ ie.stage \in {"A", "M"} /\ ie.nofile /\ m[r] \in ie.sblob[r]

MineInv == \A p \in Paths : Safe(mine[p], fi[p], disk[p])

(* Somebody who works alone on a branch, without kills, and neither deletes   *)
(* files but with got remove nor uses the executable bit.                     *)
PlainTree(t) == \A p \in Paths : t[p] # None => ~t[p].x
Alone ==
    /\ Others = {} /\ MaxCrashes = 0 /\ UserActs \subseteq {"edit", "create"}
    /\ PlainTree(InitTree) /\ PlainTree(Side.from) /\ PlainTree(Side.to)

(* Then no file is missing unless it is scheduled for deletion, and the blob  *)
(* of an entry is in the entry's commit as well as in the head h.             *)
Plain == \A t \in Trees : PlainTree(t)
At(p, b, c) == Tree(c)[p] # None /\ Tree(c)[p].c = b
Settles(p, ie, f, h) ==
    /\ f # None => ~f.x
    /\ ie # None =>
        /\ ~ie.x /\ (f = None => ie.nofile)
        /\ ie.blob # None => At(p, ie.blob, ie.commit) /\ At(p, ie.blob, h)

(* The index follows the branch when a commit is complete.                    *)
AloneInv ==
    /\ crashes = 0 /\ Plain
    /\ \A p \in Paths : Settles(p, fi[p], disk[p], IF pc \in {"base", "index"} THEN tip ELSE head)
    /\ pc \in {"idle", "editor"} => base = head
    /\ pc = "editor" => tip = head
    /\ pc \in {"base", "index"} => new = head
    /\ pc = "index" => base = head
    /\ pc # "idle" => \A p \in DOMAIN cts : ~cts[p].x

-----------------------------------------------------------------------------
(* Files, entries and trees.                                                  *)

(* Fields of a file; it is none of the things that are not files.             *)
LEMMA FileIs ==
    ASSUME NEW f \in File
    PROVE  f.x \in BOOLEAN /\ f.c \in Content /\ f # None /\ f # Dir /\ f.c # None
  BY FileConstants DEF File

(* A file with other text.                                                    *)
LEMMA FileBy ==
    ASSUME NEW f \in File, NEW c \in Content, NEW g, g = [f EXCEPT !.c = c]
    PROVE  g \in File /\ g.c = c /\ g.x = f.x
  BY DEF File

(* A file made from its fields.                                               *)
LEMMA NewFileIs ==
    ASSUME NEW x \in BOOLEAN, NEW c \in Content, NEW g, g = [x |-> x, c |-> c]
    PROVE  g \in File /\ g.c = c /\ g.x = x
  BY DEF File

(* Fields of an entry.                                                        *)
LEMMA EntryFields ==
    ASSUME NEW ie \in Entry
    PROVE  /\ ie.blob \in Content \cup {None} /\ ie.commit \in Commits \cup {None}
           /\ ie.hasCommit \in BOOLEAN /\ ie.nofile \in BOOLEAN
           /\ ie.stage \in {"-", "A", "M", "D"} /\ ie.sblob \in Content \cup {None}
           /\ ie.x \in BOOLEAN /\ ie.fresh \in BOOLEAN /\ ie # None
           /\ DOMAIN ie = {"blob", "commit", "hasCommit", "nofile", "stage", "sblob", "x", "fresh"}
<1>1. ie # None BY FileConstants
<1> QED BY <1>1 DEF Entry

(* An entry whose time stamps are old.                                        *)
LEMMA TouchedIs ==
    ASSUME NEW ie \in Entry, NEW e, e = Touched(ie)
    PROVE  /\ e \in Entry /\ e # None /\ e.blob = ie.blob /\ e.commit = ie.commit
           /\ e.hasCommit = ie.hasCommit /\ e.nofile = ie.nofile /\ e.stage = ie.stage
           /\ e.sblob = ie.sblob /\ e.x = ie.x /\ ~e.fresh
<1>1. ie # None BY FileConstants
<1>2. e = [ie EXCEPT !.fresh = FALSE] BY <1>1 DEF Touched
<1>3. /\ e \in Entry /\ e.blob = ie.blob /\ e.commit = ie.commit
      /\ e.hasCommit = ie.hasCommit /\ e.nofile = ie.nofile /\ e.stage = ie.stage
      /\ e.sblob = ie.sblob /\ e.x = ie.x /\ ~e.fresh
  BY <1>2 DEF Entry
<1> QED BY <1>3, FileConstants

(* An entry scheduled for deletion.                                           *)
Deleted(ie) == [ie EXCEPT !.nofile = TRUE]

(* Its other fields are the same.                                             *)
LEMMA DeletedIs ==
    ASSUME NEW ie \in Entry, NEW e, e = Deleted(ie)
    PROVE  /\ e \in Entry /\ e # None /\ e.blob = ie.blob /\ e.commit = ie.commit
           /\ e.hasCommit = ie.hasCommit /\ e.nofile /\ e.stage = ie.stage
           /\ e.sblob = ie.sblob /\ e.x = ie.x /\ e.fresh = ie.fresh
<1>1. /\ e \in Entry /\ e.blob = ie.blob /\ e.commit = ie.commit
      /\ e.hasCommit = ie.hasCommit /\ e.nofile /\ e.stage = ie.stage
      /\ e.sblob = ie.sblob /\ e.x = ie.x /\ e.fresh = ie.fresh
  BY DEF Deleted, Entry
<1> QED BY <1>1, FileConstants

(* An entry with nothing staged any more.                                     *)
Cleared(ie) == [ie EXCEPT !.stage = "-", !.sblob = None]

(* Its other fields are the same.                                             *)
LEMMA ClearedIs ==
    ASSUME NEW ie \in Entry, NEW e, e = Cleared(ie)
    PROVE  /\ e \in Entry /\ e # None /\ e.blob = ie.blob /\ e.commit = ie.commit
           /\ e.hasCommit = ie.hasCommit /\ e.nofile = ie.nofile /\ e.stage = "-"
           /\ e.sblob = None /\ e.x = ie.x /\ e.fresh = ie.fresh
<1> DEFINE a == [ie EXCEPT !.stage = "-"]
<1>1. /\ a \in Entry /\ a.blob = ie.blob /\ a.commit = ie.commit
      /\ a.hasCommit = ie.hasCommit /\ a.nofile = ie.nofile /\ a.stage = "-"
      /\ a.x = ie.x /\ a.fresh = ie.fresh
  BY DEF Entry
<1>2. e = [a EXCEPT !.sblob = None] BY DEF Cleared
<1> HIDE DEF a
<1>3. /\ e \in Entry /\ e.blob = a.blob /\ e.commit = a.commit
      /\ e.hasCommit = a.hasCommit /\ e.nofile = a.nofile /\ e.stage = a.stage
      /\ e.sblob = None /\ e.x = a.x /\ e.fresh = a.fresh
  BY <1>1, <1>2 DEF Entry
<1> QED BY <1>1, <1>3, FileConstants

(* bump_base_commit_id.                                                       *)
LEMMA BumpedIs ==
    ASSUME NEW ie \in Entry, NEW c \in Commits, NEW e, e = BumpBaseCommitId(ie, c)
    PROVE  /\ e \in Entry /\ e # None /\ e.blob = ie.blob /\ e.commit = c
           /\ e.hasCommit = ie.hasCommit /\ e.nofile = ie.nofile /\ e.stage = ie.stage
           /\ e.sblob = ie.sblob /\ e.x = ie.x /\ e.fresh = ie.fresh
<1>1. ie # None BY FileConstants
<1>2. e = [ie EXCEPT !.commit = c] BY <1>1 DEF BumpBaseCommitId
<1>3. /\ e \in Entry /\ e.blob = ie.blob /\ e.commit = c
      /\ e.hasCommit = ie.hasCommit /\ e.nofile = ie.nofile /\ e.stage = ie.stage
      /\ e.sblob = ie.sblob /\ e.x = ie.x /\ e.fresh = ie.fresh
  BY <1>2 DEF Entry
<1> QED BY <1>3, FileConstants

(* got_fileindex_entry_alloc.                                                 *)
LEMMA EmptyEntryIs ==
    /\ EmptyEntry \in Entry /\ EmptyEntry.stage = "-" /\ EmptyEntry.sblob = None
    /\ EmptyEntry.commit = None /\ ~EmptyEntry.nofile /\ EmptyEntry.blob = None
    /\ ~EmptyEntry.fresh /\ ~EmptyEntry.hasCommit
  BY DEF EmptyEntry, Entry

(* got_fileindex_entry_update.                                                *)
LEMMA EntryUpdateIs ==
    ASSUME NEW ie \in Entry, NEW f \in OnDisk, NEW blob \in Content \cup {None},
           NEW commit \in Commits \cup {None}, NEW ts \in BOOLEAN, NEW e,
           e = EntryUpdate(ie, f, blob, commit, ts)
    PROVE  /\ e \in Entry /\ e # None /\ e.blob = blob /\ e.stage = ie.stage /\ e.sblob = ie.sblob
           /\ commit # None => e.commit = commit /\ e.hasCommit
           /\ commit = None => e.commit = ie.commit /\ ~e.hasCommit
           /\ f # None => e.x = f.x /\ ~e.nofile /\ (e.fresh <=> ie.fresh \/ ts)
           /\ f = None => e.x = ie.x /\ (e.nofile <=> ie.nofile) /\ (e.fresh <=> ie.fresh)
<1> DEFINE c == IF commit = None THEN ie.commit ELSE commit
           fresh == IF f = None THEN ie.fresh ELSE ie.fresh \/ ts
           x == IF f = None THEN ie.x ELSE f.x
           h == commit # None
           n == ie.nofile /\ f = None
<1>1. f # None => f \in File BY DEF OnDisk
<1>2. fresh \in BOOLEAN /\ c \in Commits \cup {None} /\ h \in BOOLEAN /\ n \in BOOLEAN /\ x \in BOOLEAN
  BY <1>1, EntryFields, FileIs
<1>3. e = [ie EXCEPT !.nofile = n, !.fresh = fresh, !.x = x, !.blob = blob,
                     !.commit = c, !.hasCommit = h]
  BY Zenon DEF EntryUpdate
<1> HIDE DEF c, fresh, x, h, n
<1>4. /\ e \in Entry /\ e.stage = ie.stage /\ e.sblob = ie.sblob /\ e.nofile = n /\ e.blob = blob
      /\ e.x = x /\ e.fresh = fresh /\ e.commit = c /\ e.hasCommit = h
  <2>1. DOMAIN ie = {"blob", "commit", "hasCommit", "nofile", "stage", "sblob", "x", "fresh"}
    BY EntryFields
  <2>2. /\ e.stage = ie.stage /\ e.sblob = ie.sblob /\ e.nofile = n /\ e.blob = blob
        /\ e.x = x /\ e.fresh = fresh /\ e.commit = c /\ e.hasCommit = h
    BY <1>3, <2>1
  <2>3. e \in Entry BY <1>2, <1>3 DEF Entry
  <2> QED BY <2>2, <2>3
<1>5. e # None BY <1>4, FileConstants
<1>6. /\ commit # None => h /\ c = commit
      /\ commit = None => ~h /\ c = ie.commit
  BY Zenon DEF c, h
<1>7. f # None => x = f.x /\ ~n /\ (fresh <=> ie.fresh \/ ts)
  BY Zenon DEF x, n, fresh
<1>8. f = None => x = ie.x /\ (n <=> ie.nofile) /\ (fresh <=> ie.fresh)
  BY Zenon DEF x, n, fresh
<1> QED BY <1>4, <1>5, <1>6, <1>7, <1>8

(* The version of a path in a commit.                                         *)
LEMMA TreeIs ==
    ASSUME HistOK, NEW c \in DOMAIN hist
    PROVE  /\ Tree(c) \in TreeType /\ c \in Commits /\ c \in Nat
           /\ \A p \in Paths : Tree(c)[p] \in OnDisk
<1> DEFINE R == [tree : TreeType, parent : Nat]
<1>0. hist \in Seq(R) BY DEF HistOK
<1> HIDE DEF R
<1>1. hist[c] \in R BY <1>0
<1>2. Tree(c) \in TreeType BY <1>1 DEF Tree, R
<1>3. c \in 1..Len(hist) /\ Len(hist) \in Nat /\ Len(hist) <= MaxCommits BY DEF HistOK
<1>4. MaxCommits \in Nat /\ Commits = 1..MaxCommits BY OpsConstants
<1>6. c \in Commits /\ c \in Nat BY <1>3, <1>4
<1>5. \A p \in Paths : Tree(c)[p] \in File \cup {None} BY <1>2 DEF TreeType
<1> QED BY <1>2, <1>6, <1>5 DEF OnDisk

(* An unmodified file has a status of its own.                                *)
LEMMA NoChangeIs == NoChange \notin {"M", "A", "D", "C", "!", "m", "~", "?"}
  BY Zenon DEF NoChange

(* get_file_status.                                                           *)
LEMMA StatusIs ==
    ASSUME NEW ie \in Entry, NEW f \in OnDisk, NEW st, st = GetFileStatus(ie, f)
    PROVE  /\ st \in {NoChange, "M", "A", "D", "C", "!", "m"} /\ st \in Status
           /\ st = "D" <=> ie.nofile
           /\ st = "!" <=> f = None /\ ~ie.nofile
           /\ st = "A" <=> f # None /\ ~ie.nofile /\ ie.blob = None /\ ie.stage # "A"
           /\ st \in {NoChange, "M", "C", "m"} <=>
                f # None /\ ~ie.nofile /\ (ie.blob # None \/ ie.stage = "A")
           /\ st \in {"M", "C", "m"} => ~ie.fresh \/ ie.x # f.x
           /\ st = NoChange => (ie.fresh /\ ie.x = f.x) \/ f.c = ComparedBlob(ie)
           /\ st = "m" => ie.x # f.x
           /\ Stamped(ie, f) /\ st = NoChange => f.c = ComparedBlob(ie)
           /\ Stamped(ie, f) /\ st \in {"M", "C", "m"} => ~ie.fresh
<1>0. ie # None /\ f # Dir BY FileConstants DEF OnDisk
<1>1. CASE f = None
  <2>1. st = IF ie.nofile THEN "D" ELSE "!" BY <1>0, <1>1 DEF GetFileStatus
  <2> QED BY <1>1, <2>1, NoChangeIs DEF Status
<1>2. CASE f # None /\ ie.nofile
  <2>1. st = "D" BY <1>0, <1>2 DEF GetFileStatus
  <2> QED BY <1>2, <2>1, NoChangeIs DEF Status
<1>3. CASE f # None /\ ~ie.nofile /\ ie.blob = None /\ ie.stage # "A"
  <2>1. st = "A" BY <1>0, <1>3 DEF GetFileStatus
  <2> QED BY <1>3, <2>1, NoChangeIs DEF Status
<1>4. CASE f # None /\ ~ie.nofile /\ (ie.blob # None \/ ie.stage = "A")
  <2>1. st = IF ~StatInfoDiffers(ie, f) THEN NoChange
             ELSE IF f.c # ComparedBlob(ie) THEN IF HasMarkers(f.c) THEN "C" ELSE "M"
                  ELSE IF XbitDiffers(ie, f) THEN "m" ELSE NoChange
    BY <1>0, <1>4 DEF GetFileStatus
  <2>2. st \in {NoChange, "M", "C", "m"} /\ st \in Status BY <2>1 DEF Status
  <2>3. st \in {"M", "C", "m"} => StatInfoDiffers(ie, f) BY <2>1, NoChangeIs
  <2>4. st \in {"M", "C", "m"} => ~ie.fresh \/ ie.x # f.x
    BY <2>3 DEF StatInfoDiffers, XbitDiffers
  <2>5. st = NoChange => (ie.fresh /\ ie.x = f.x) \/ f.c = ComparedBlob(ie)
    BY <2>1, NoChangeIs DEF StatInfoDiffers, XbitDiffers
  <2>6. st = "m" => ie.x # f.x BY <2>1, NoChangeIs DEF XbitDiffers
  <2>7. ASSUME Stamped(ie, f)
        PROVE  (st = NoChange => f.c = ComparedBlob(ie)) /\ (st \in {"M", "C", "m"} => ~ie.fresh)
    BY <1>0, <1>4, <2>4, <2>5, <2>7 DEF Stamped
  <2>8. st \notin {"D", "!", "A"} BY <2>2, NoChangeIs
  <2> QED BY <1>4, <2>2, <2>4, <2>5, <2>6, <2>7, <2>8
<1> QED BY <1>1, <1>2, <1>3, <1>4

-----------------------------------------------------------------------------
(* What is kept of the user's text.                                           *)

(* Where nothing is in the way of the branch's file.                          *)
Clear(p, ie, f) == f # None /\ (ie = None \/ ie.nofile) => Tree(head)[p] = None

(* The blob of an entry is a commit's.                                        *)
Known(p, ie) == ie # None /\ ie.blob # None => ie.blob \in Texts(p)

(* Text that is in no commit.                                                 *)
Unseen(p, m) == \A r \in Regions : m[r] # None => \A b \in Texts(p) : m[r] \notin b[r]
Nothing(m) == \A r \in Regions : m[r] = None

(* A command that takes a path from entry ie and file f to ie2 and f2 leaves  *)
(* the path well-formed and its time stamps reliable, keeps the text m, and   *)
(* settles the path where it was settled.                                     *)
Sound(p, m, ie, f, ie2, f2) ==
    /\ PathFormed(p, ie2, f2)
    /\ Stamped(ie, f) /\ Clear(p, ie, f) => Stamped(ie2, f2)
    /\ Stamped(ie, f) /\ Known(p, ie) /\ Unseen(p, m) /\ Safe(m, ie, f) => Safe(m, ie2, f2)
    /\ Plain /\ Settles(p, ie, f, head) => Settles(p, ie2, f2, head)

(* Where the user wrote nothing, nothing can be lost.                         *)
LEMMA NothingIsSafe ==
    ASSUME NEW m, Nothing(m), NEW ie, NEW f
    PROVE  Safe(m, ie, f)
  BY DEF Nothing, Safe

(* As long as a file stays as it is, its entry does not matter.               *)
LEMMA FileKeeps ==
    ASSUME NEW m, NEW ie, NEW f, Safe(m, ie, f), f # None, NEW ie2
    PROVE  Safe(m, ie2, f)
  BY DEF Safe

(* A file with a commit's text has nothing of the user's.                     *)
LEMMA CommittedText ==
    ASSUME NEW p, NEW m, Unseen(p, m), NEW ie, NEW f, Safe(m, ie, f), f # None, f.c \in Texts(p)
    PROVE  Nothing(m)
  BY DEF Unseen, Safe, Nothing

(* A file that is not there has nothing of the user's, if nothing is staged   *)
(* or it was not a command that deleted it.                                   *)
LEMMA MissingText ==
    ASSUME NEW m, NEW ie, Safe(m, ie, None), ie = None \/ ie.stage \notin {"A", "M"} \/ ~ie.nofile
    PROVE  Nothing(m)
  BY DEF Safe, Nothing

(* diff3 keeps what is in the file but not in the common ancestor.            *)
LEMMA MergeKeeps ==
    ASSUME NEW orig \in Content \cup {None}, NEW ours \in Content, NEW theirs \in Content,
           NEW m, m = MergeFile(orig, ours, theirs)
    PROVE  /\ m \in Content
           /\ \A r \in Regions : \A w :
                w \in ours[r] /\ (orig # None => w \notin orig[r]) => w \in m[r]
<1> DEFINE Part(r) == CASE ours[r] = theirs[r] -> ours[r]
             [] orig # None /\ ours[r] # theirs[r] /\ ours[r] = orig[r] -> theirs[r]
             [] orig # None /\ ours[r] # theirs[r] /\ theirs[r] = orig[r] -> ours[r]
             [] OTHER -> ours[r] \cup theirs[r]
<1>0. m = [r \in Regions |-> Part(r)] BY DEF MergeFile
<1>1. ASSUME NEW r \in Regions
      PROVE  /\ m[r] \in (SUBSET Vals) \ {{}}
             /\ \A w : w \in ours[r] /\ (orig # None => w \notin orig[r]) => w \in m[r]
  <2>1. ours[r] \in (SUBSET Vals) \ {{}} /\ theirs[r] \in (SUBSET Vals) \ {{}} BY DEF Content
  <2>2. m[r] = Part(r) BY <1>0
  <2>3. CASE ours[r] = theirs[r]
    <3>1. m[r] = ours[r] BY <2>2, <2>3
    <3> QED BY <2>1, <3>1
  <2>4. CASE orig # None /\ ours[r] # theirs[r] /\ ours[r] = orig[r]
    <3>1. m[r] = theirs[r] BY <2>2, <2>4
    <3> QED BY <2>1, <2>4, <3>1
  <2>5. CASE orig # None /\ ours[r] # theirs[r] /\ ours[r] # orig[r] /\ theirs[r] = orig[r]
    <3>1. m[r] = ours[r] BY <2>2, <2>5
    <3> QED BY <2>1, <3>1
  <2>6. CASE ours[r] # theirs[r] /\ ~(orig # None /\ (ours[r] = orig[r] \/ theirs[r] = orig[r]))
    <3>1. m[r] = ours[r] \cup theirs[r] BY <2>2, <2>6
    <3> QED BY <2>1, <3>1
  <2> QED BY <2>3, <2>4, <2>5, <2>6
<1> HIDE DEF Part
<1>2. \A r \in Regions : Part(r) \in (SUBSET Vals) \ {{}} BY <1>0, <1>1
<1>3. m \in Content BY <1>0, <1>2, Zenon DEF Content
<1> QED BY <1>1, <1>3

(* A merge into a file keeps the user's text, if the ancestor is a commit's.  *)
LEMMA MergeIsSafe ==
    ASSUME NEW p, NEW m, Unseen(p, m), NEW ie, NEW f \in File, Safe(m, ie, f),
           NEW orig \in Content \cup {None}, orig # None => orig \in Texts(p),
           NEW theirs \in Content, NEW g, g.c = MergeFile(orig, f.c, theirs), g # None, NEW ie2
    PROVE  Safe(m, ie2, g)
<1>1. f.c \in Content /\ f # None BY FileIs
<1>2. \A r \in Regions : \A w : w \in f.c[r] /\ (orig # None => w \notin orig[r]) => w \in g.c[r]
  BY <1>1, MergeKeeps
<1>3. ASSUME NEW r \in Regions, m[r] # None PROVE m[r] \in g.c[r]
  BY <1>1, <1>2, <1>3 DEF Unseen, Safe
<1> QED BY <1>3 DEF Safe

(* The text of a commit.                                                      *)
LEMMA TreeText ==
    ASSUME HistOK, NEW p \in Paths, NEW c \in DOMAIN hist, Tree(c)[p] # None
    PROVE  Tree(c)[p] \in File /\ Tree(c)[p].c \in Texts(p) /\ Tree(c)[p].c \in Content
<1>1. Tree(c)[p] \in File BY TreeIs DEF OnDisk
<1>2. Tree(c) \in Trees BY DEF Trees
<1> QED BY <1>1, <1>2, FileIs DEF Texts

-----------------------------------------------------------------------------
(* Entries that commands make.                                                *)

(* A path with an entry.                                                      *)
LEMMA PathIs ==
    ASSUME HistOK, NEW p, NEW ie, NEW f, PathFormed(p, ie, f)
    PROVE  /\ f \in OnDisk /\ (f # None => f \in File) /\ head # None /\ None \notin DOMAIN hist
           /\ ie # None => ie \in Entry /\ EntryFormed(ie)
<1>1. \A c \in DOMAIN hist : c \in Commits BY TreeIs
<1>2. None \notin DOMAIN hist /\ head # None BY <1>1, FileConstants DEF HistOK
<1> QED BY <1>2 DEF PathFormed, OnDisk, Index

(* Time stamps that are old say nothing.                                      *)
LEMMA OldStamps ==
    ASSUME NEW ie, ~ie.fresh, NEW f
    PROVE  Stamped(ie, f)
  BY DEF Stamped

(* An entry whose blob, commit and mode stay the same.                        *)
LEMMA SettlesSame ==
    ASSUME NEW p, NEW ie, ie # None, NEW f, NEW h, Settles(p, ie, f, h), NEW e,
           e.blob = ie.blob, e.commit = ie.commit, e.x = ie.x, NEW g, g # None => ~g.x,
           g = None => e.nofile
    PROVE  Settles(p, e, g, h)
  BY DEF Settles

(* An entry with the blob of a commit.                                        *)
LEMMA SettlesAt ==
    ASSUME NEW p, NEW h, NEW e, At(p, e.blob, h), e.commit = h, ~e.x, NEW g,
           g # None => ~g.x, g = None => e.nofile
    PROVE  Settles(p, e, g, h)
  BY DEF Settles

(* A path without a blob.                                                     *)
LEMMA SettlesNew ==
    ASSUME NEW p, NEW h, NEW e, NEW g, g # None => ~g.x,
           e = None \/ (e.blob = None /\ ~e.x /\ (g = None => e.nofile))
    PROVE  Settles(p, e, g, h)
  BY DEF Settles

(* An entry stays well-formed when its file is written.                       *)
LEMMA TouchedFormed ==
    ASSUME HistOK, NEW p, NEW ie, ie # None, NEW f, PathFormed(p, ie, f), NEW g \in OnDisk,
           NEW e, e = Touched(ie)
    PROVE  /\ PathFormed(p, e, g) /\ Stamped(e, g) /\ e # None
           /\ \A h : Settles(p, ie, f, h) /\ g # None /\ ~g.x => Settles(p, e, g, h)
<1>1. ie \in Entry /\ EntryFormed(ie) BY PathIs
<1>2. /\ e \in Entry /\ e # None /\ e.blob = ie.blob /\ e.commit = ie.commit
      /\ e.hasCommit = ie.hasCommit /\ e.nofile = ie.nofile /\ e.stage = ie.stage
      /\ e.sblob = ie.sblob /\ ~e.fresh /\ e.x = ie.x
  BY <1>1, TouchedIs
<1>3. EntryFormed(e) BY <1>1, <1>2 DEF EntryFormed
<1>4. e.commit = head /\ e.blob = None => Tree(head)[p] = None BY <1>2 DEF PathFormed
<1>5. Stamped(e, g) BY <1>2, OldStamps
<1>6. \A h : Settles(p, ie, f, h) /\ g # None /\ ~g.x => Settles(p, e, g, h)
  BY <1>2, SettlesSame
<1>7. PathFormed(p, e, g) BY <1>2, <1>3, <1>4 DEF PathFormed, Index
<1> QED BY <1>2, <1>5, <1>6, <1>7

(* The tree of a commit is one of the trees.                                  *)
LEMMA TreeIsOne == \A c \in DOMAIN hist : Tree(c) \in Trees
  BY DEF Trees

(* The entry of a file that is added.                                         *)
LEMMA AddedFormed ==
    ASSUME HistOK, NEW p, NEW f \in File, NEW ts \in BOOLEAN, NEW e,
           e = EntryUpdate(EmptyEntry, f, None, None, ts)
    PROVE  /\ PathFormed(p, e, f) /\ Stamped(e, f) /\ e # None
           /\ ~f.x => Settles(p, e, f, head)
<1>1. f # None /\ f \in OnDisk BY FileIs DEF OnDisk
<1>2. /\ e \in Entry /\ e # None /\ e.blob = None /\ e.stage = "-" /\ e.sblob = None
      /\ e.commit = None /\ ~e.hasCommit /\ ~e.nofile /\ e.x = f.x
  BY <1>1, EntryUpdateIs, EmptyEntryIs
<1>3. EntryFormed(e) BY <1>2 DEF EntryFormed
<1>4. \A c \in DOMAIN hist : c \in Commits BY TreeIs
<1>5. e.commit # head BY <1>2, <1>4, FileConstants DEF HistOK
<1>6. Stamped(e, f) BY <1>2 DEF Stamped
<1>7. ~f.x => Settles(p, e, f, head) BY <1>1, <1>2, SettlesNew
<1>8. PathFormed(p, e, f) BY <1>1, <1>2, <1>3, <1>5 DEF PathFormed, Index
<1> QED BY <1>2, <1>6, <1>7, <1>8

(* An entry that is scheduled for deletion; its file stays or goes.           *)
LEMMA DeletedFormed ==
    ASSUME HistOK, NEW p, NEW ie, ie # None, NEW f, PathFormed(p, ie, f), NEW g \in {f, None},
           NEW e, e = Deleted(ie)
    PROVE  /\ PathFormed(p, e, g) /\ e # None
           /\ e.nofile /\ e.stage = ie.stage /\ e.sblob = ie.sblob
           /\ Stamped(ie, f) => Stamped(e, g)
           /\ Settles(p, ie, f, head) => Settles(p, e, g, head)
<1>1. ie \in Entry /\ EntryFormed(ie) /\ f \in OnDisk BY PathIs
<1>2. /\ e \in Entry /\ e # None /\ e.blob = ie.blob /\ e.commit = ie.commit
      /\ e.hasCommit = ie.hasCommit /\ e.nofile /\ e.stage = ie.stage
      /\ e.sblob = ie.sblob /\ e.fresh = ie.fresh /\ e.x = ie.x
  BY <1>1, DeletedIs
<1>3. EntryFormed(e) BY <1>1, <1>2 DEF EntryFormed
<1>4. e.commit = head /\ e.blob = None => Tree(head)[p] = None BY <1>2 DEF PathFormed
<1>5. Stamped(ie, f) => Stamped(e, g) BY <1>2 DEF Stamped
<1>6. Settles(p, ie, f, head) => Settles(p, e, g, head) BY <1>2 DEF Settles
<1>7. PathFormed(p, e, g) BY <1>1, <1>2, <1>3, <1>4 DEF PathFormed, Index, OnDisk
<1> QED BY <1>2, <1>5, <1>6, <1>7

(* An entry that gets the blob of a commit.                                   *)
LEMMA BlobFormed ==
    ASSUME HistOK, NEW p, NEW ie \in Entry, EntryFormed(ie), NEW f \in OnDisk, NEW b \in Content,
           NEW c \in DOMAIN hist, NEW ts \in BOOLEAN, NEW e, e = EntryUpdate(ie, f, b, c, ts),
           ie.stage = "D" => f = None
    PROVE  /\ PathFormed(p, e, f) /\ e # None /\ e.blob = b /\ e.blob # None
           /\ e.stage = ie.stage /\ e.sblob = ie.sblob
           /\ f # None => ~e.nofile /\ e.x = f.x /\ (e.fresh <=> ie.fresh \/ ts)
           /\ f = None => (e.nofile <=> ie.nofile)
<1>1. c \in Commits /\ c # None /\ b # None BY TreeIs, FileConstants
<1>2. /\ e \in Entry /\ e # None /\ e.blob = b /\ e.stage = ie.stage /\ e.sblob = ie.sblob
      /\ e.commit = c /\ e.hasCommit
      /\ f # None => ~e.nofile /\ e.x = f.x /\ (e.fresh <=> ie.fresh \/ ts)
      /\ f = None => e.x = ie.x /\ (e.nofile <=> ie.nofile)
  BY <1>1, EntryUpdateIs
<1>3. EntryFormed(e) BY <1>1, <1>2 DEF EntryFormed
<1> QED BY <1>1, <1>2, <1>3 DEF PathFormed, Index

(* It gets the blob and the commit, and is else kept if there is no file.     *)
LEMMA BlobCommit ==
    ASSUME HistOK, NEW ie \in Entry, NEW f \in OnDisk, NEW b \in Content,
           NEW c \in DOMAIN hist, NEW ts \in BOOLEAN, NEW e, e = EntryUpdate(ie, f, b, c, ts)
    PROVE  e.blob = b /\ e.commit = c /\ (f = None => e.x = ie.x /\ (e.nofile <=> ie.nofile))
<1>1. c \in Commits /\ c # None BY TreeIs, FileConstants
<1> QED BY <1>1, EntryUpdateIs

(* sync_timestamps records the time stamps of unmodified files only.          *)
LEMMA SyncTimestampsOK ==
    ASSUME HistOK, NEW p, NEW ie, ie # None, ie.stage = "-", NEW f, PathFormed(p, ie, f),
           NEW e, e = SyncTimestamps(ie, f)
    PROVE  /\ PathFormed(p, e, f) /\ e # None /\ e.stage = "-" /\ e.blob = ie.blob
           /\ Stamped(ie, f) => Stamped(e, f)
           /\ f = None => e = ie
           /\ Settles(p, ie, f, head) => Settles(p, e, f, head)
<1> DEFINE st == GetFileStatus(ie, f)
<1>1. ie \in Entry /\ EntryFormed(ie) /\ f \in OnDisk BY PathIs
<1>2. CASE st = NoChange /\ StatInfoDiffers(ie, f)
  <2>1. f # None /\ ie.blob # None BY <1>1, <1>2, StatusIs
  <2>2. /\ ie.blob \in Content /\ ie.hasCommit /\ ie.commit # None /\ ie.commit \in DOMAIN hist
    BY <1>1, <2>1, EntryFields DEF EntryFormed
  <2>3. e = EntryUpdate(ie, f, ie.blob, ie.commit, TRUE) BY <1>2 DEF SyncTimestamps
  <2>4. /\ PathFormed(p, e, f) /\ e # None /\ e.stage = "-" /\ e.blob = ie.blob
        /\ ~e.nofile /\ e.x = f.x /\ e.commit = ie.commit
    <3>1. \E ts \in BOOLEAN : e = EntryUpdate(ie, f, ie.blob, ie.commit, ts) BY <2>3, Zenon
    <3>2. PICK ts \in BOOLEAN : e = EntryUpdate(ie, f, ie.blob, ie.commit, ts) BY <3>1
    <3>3. e.commit = ie.commit BY <1>1, <2>2, <3>2, BlobCommit
    <3>4. /\ PathFormed(p, e, f) /\ e # None /\ e.stage = "-" /\ e.blob = ie.blob
          /\ ~e.nofile /\ e.x = f.x
      BY <1>1, <2>1, <2>2, <3>2, BlobFormed
    <3> QED BY <3>3, <3>4
  <2>5. ASSUME Stamped(ie, f) PROVE Stamped(e, f)
    <3>1. f.c = ComparedBlob(ie) BY <1>1, <1>2, <2>5, StatusIs
    <3> QED BY <2>4, <3>1 DEF Stamped, ComparedBlob
  <2>6. Settles(p, ie, f, head) => Settles(p, e, f, head) BY <2>1, <2>4 DEF Settles
  <2> QED BY <2>1, <2>4, <2>5, <2>6
<1>3. CASE ~(st = NoChange /\ StatInfoDiffers(ie, f))
  <2>1. e = ie BY <1>3 DEF SyncTimestamps
  <2> QED BY <2>1
<1> QED BY <1>2, <1>3

-----------------------------------------------------------------------------
(* What update does to a path.                                                *)

(* A new entry is well-formed.                                                *)
LEMMA EmptyFormed == EmptyEntry \in Entry /\ EntryFormed(EmptyEntry)
  BY EmptyEntryIs DEF EntryFormed

(* install_blob, for a path without an entry and for an unmodified or missing *)
(* file.                                                                      *)
LEMMA InstallBlobOK ==
    ASSUME HistOK, NEW p \in Paths, NEW m, NEW ie, NEW f, PathFormed(p, ie, f),
           NEW te, te = Tree(head)[p], te # None,
           ie # None => ie.stage = "-" /\ GetFileStatus(ie, f) \in {NoChange, "!"},
           NEW o, o = InstallBlob(ie, f, te, head)
    PROVE  Sound(p, m, ie, f, o.ie, o.f) /\ o.ie # None /\ o.ie.blob # None
<1> DEFINE f2 == IF ie = None /\ f # None THEN f ELSE te
           ie1 == IF ie = None THEN EmptyEntry ELSE Touched(ie)
           e == EntryUpdate(ie1, f2, te.c, head, TRUE)
<1>1. te \in File /\ te.c \in Content /\ head \in DOMAIN hist BY TreeText DEF HistOK
<1>2. f2 \in File /\ f2 # None /\ f2 # Dir /\ f2 \in OnDisk BY <1>1, PathIs, FileIs DEF OnDisk
<1>3. ie1 \in Entry /\ EntryFormed(ie1) /\ ie1.stage = "-" /\ ~ie1.fresh
  <2>1. CASE ie = None BY <2>1, EmptyFormed, EmptyEntryIs
  <2>2. CASE ie # None
    <3>1. ie \in Entry /\ ie1 = Touched(ie) BY <2>2, PathIs
    <3>2. PathFormed(p, ie1, f2) /\ ie1 # None BY <1>2, <2>2, <3>1, TouchedFormed
    <3>3. ie1.stage = "-" /\ ~ie1.fresh BY <2>2, <3>1, TouchedIs
    <3> QED BY <3>2, <3>3, PathIs
  <2> QED BY <2>1, <2>2
<1>4. o = Done(f2, e)
  <2>1. ~EntryUpdateFails(ie1, f2) BY <1>2 DEF EntryUpdateFails
  <2> QED BY <2>1 DEF InstallBlob
<1>5. o.f = f2 /\ o.ie = e BY <1>4 DEF Done
<1>6. /\ PathFormed(p, e, f2) /\ e # None /\ e.blob = te.c /\ e.blob # None
      /\ e.stage = "-" /\ e.x = f2.x /\ e.commit = head
  <2>1. \E ts \in BOOLEAN : e = EntryUpdate(ie1, f2, te.c, head, ts) BY Zenon
  <2> HIDE DEF e, f2, ie1
  <2>2. PICK ts \in BOOLEAN : e = EntryUpdate(ie1, f2, te.c, head, ts) BY <2>1
  <2>3. e.commit = head BY <1>1, <1>2, <1>3, <2>2, BlobCommit
  <2>4. /\ PathFormed(p, e, f2) /\ e # None /\ e.blob = te.c /\ e.blob # None
        /\ e.stage = "-" /\ e.x = f2.x
    BY <1>1, <1>2, <1>3, <2>2, BlobFormed
  <2> QED BY <2>3, <2>4
<1> HIDE DEF e, ie1
<1>7. ASSUME Stamped(ie, f), Clear(p, ie, f) PROVE Stamped(e, f2)
  <2>1. f2 = te BY <1>7 DEF Clear
  <2> HIDE DEF f2
  <2> QED BY <1>6, <2>1 DEF Stamped, ComparedBlob
<1>8. ASSUME Stamped(ie, f), Known(p, ie), Unseen(p, m), Safe(m, ie, f) PROVE Safe(m, e, f2)
  <2>1. CASE ie = None /\ f # None BY <1>8, <2>1, FileKeeps
  <2>2. CASE ie = None /\ f = None BY <1>8, <2>2, MissingText, NothingIsSafe
  <2>3. CASE ie # None /\ f = None
    <3>1. ie \in Entry /\ f \in OnDisk BY <2>3, PathIs
    <3>2. ~ie.nofile BY <2>3, <3>1, StatusIs, NoChangeIs
    <3> QED BY <1>8, <2>3, <3>2, MissingText, NothingIsSafe
  <2>4. CASE ie # None /\ f # None
    <3>1. ie \in Entry /\ f \in OnDisk BY <2>4, PathIs
    <3>2. GetFileStatus(ie, f) = NoChange BY <2>4, <3>1, StatusIs
    <3>3. f.c = ie.blob /\ ie.blob # None BY <1>8, <2>4, <3>1, <3>2, StatusIs DEF ComparedBlob
    <3>4. f.c \in Texts(p) BY <1>8, <2>4, <3>3 DEF Known
    <3> QED BY <1>8, <2>4, <3>4, CommittedText, NothingIsSafe
  <2> QED BY <2>1, <2>2, <2>3, <2>4
<1>9. ASSUME Plain, Settles(p, ie, f, head) PROVE Settles(p, e, f2, head)
  <2>1. ~te.x BY <1>1, <1>9, TreeIsOne DEF Plain, PlainTree
  <2>2. ~f2.x BY <1>9, <2>1 DEF Settles
  <2> HIDE DEF f2
  <2>3. At(p, e.blob, head) BY <1>6 DEF At
  <2> QED BY <1>2, <1>6, <2>2, <2>3, SettlesAt
<1> HIDE DEF f2
<1> QED BY <1>5, <1>6, <1>7, <1>8, <1>9 DEF Sound

(* merge_blob, for a modified or added file: the user's text stays.           *)
LEMMA MergeBlobOK ==
    ASSUME HistOK, NEW p \in Paths, NEW m, NEW ie, ie # None, NEW f, f # None, PathFormed(p, ie, f),
           NEW te, te = Tree(head)[p], te # None, ie.stage = "-", NEW o, o = MergeBlob(ie, f, te, head)
    PROVE  Sound(p, m, ie, f, o.ie, o.f) /\ o.ie # None /\ o.ie.blob # None
<1> DEFINE c == MergeFile(ie.blob, f.c, te.c)
           subsumed == ~HasMarkers(c) /\ c = te.c
           g == [f EXCEPT !.c = c]
           e == EntryUpdate(Touched(ie), g, te.c, head, subsumed)
<1>1. te \in File /\ te.c \in Content /\ head \in DOMAIN hist BY TreeText DEF HistOK
<1>2. ie \in Entry /\ f \in File /\ f.c \in Content /\ ie.blob \in Content \cup {None}
  BY PathIs, FileIs, EntryFields
<1>3. c \in Content BY <1>1, <1>2, MergeKeeps
<1>4. o = Done(g, e) BY DEF MergeBlob
<1>5. o.f = g /\ o.ie = e BY <1>4 DEF Done
<1>6. subsumed \in BOOLEAN /\ (subsumed => c = te.c) OBVIOUS
<1> HIDE DEF subsumed
<1>7. g \in File /\ g.c = c /\ g.x = f.x /\ g # None /\ g \in OnDisk
  <2> HIDE DEF c
  <2>1. g \in File /\ g.c = c /\ g.x = f.x BY <1>2, <1>3, FileBy
  <2> QED BY <2>1, FileIs DEF OnDisk
<1> HIDE DEF g
<1>8. /\ Touched(ie) \in Entry /\ EntryFormed(Touched(ie)) /\ Touched(ie).stage = "-"
      /\ ~Touched(ie).fresh
  <2>1. PathFormed(p, Touched(ie), g) /\ Touched(ie) # None BY <1>7, TouchedFormed
  <2>2. Touched(ie).stage = "-" /\ ~Touched(ie).fresh BY <1>2, TouchedIs
  <2> QED BY <2>1, <2>2, PathIs
<1>9. /\ PathFormed(p, e, g) /\ e # None /\ e.blob = te.c /\ e.blob # None
      /\ e.stage = "-" /\ e.x = g.x /\ e.commit = head /\ (e.fresh <=> subsumed)
  <2>1. \E ts \in BOOLEAN : e = EntryUpdate(Touched(ie), g, te.c, head, ts) /\ (ts <=> subsumed)
    BY <1>6, Zenon
  <2> HIDE DEF e
  <2>2. PICK ts \in BOOLEAN : e = EntryUpdate(Touched(ie), g, te.c, head, ts) /\ (ts <=> subsumed)
    BY <2>1
  <2>3. /\ PathFormed(p, e, g) /\ e # None /\ e.blob = te.c /\ e.blob # None
        /\ e.stage = "-" /\ e.x = g.x /\ (e.fresh <=> ts)
    BY <1>1, <1>7, <1>8, <2>2, BlobFormed
  <2>4. e.commit = head BY <1>1, <1>7, <1>8, <2>2, BlobCommit
  <2> QED BY <2>2, <2>3, <2>4
<1> HIDE DEF e
<1>10. Stamped(e, g) BY <1>6, <1>7, <1>9 DEF Stamped, ComparedBlob
<1>11. ASSUME Known(p, ie), Unseen(p, m), Safe(m, ie, f) PROVE Safe(m, e, g)
  <2>1. ie.blob # None => ie.blob \in Texts(p) BY <1>11 DEF Known
  <2> QED BY <1>1, <1>2, <1>7, <1>11, <2>1, MergeIsSafe
<1>12. ASSUME Settles(p, ie, f, head) PROVE Settles(p, e, g, head)
  <2>1. At(p, e.blob, head) BY <1>9 DEF At
  <2>2. ~g.x BY <1>7, <1>12 DEF Settles
  <2> QED BY <1>7, <1>9, <2>1, <2>2, SettlesAt
<1> QED BY <1>5, <1>9, <1>10, <1>11, <1>12 DEF Sound

(* What is left as it is stays sound.                                         *)
LEMMA SameSound ==
    ASSUME NEW p, NEW m, NEW ie, NEW f, PathFormed(p, ie, f)
    PROVE  Sound(p, m, ie, f, ie, f)
  BY DEF Sound

(* update_blob.                                                               *)
LEMMA UpdateBlobOK ==
    ASSUME HistOK, NEW p \in Paths, NEW m, NEW ie, NEW f, PathFormed(p, ie, f),
           NEW te, te = Tree(head)[p], te # None, NEW o, o = UpdateBlob(ie, f, te, head)
    PROVE  Sound(p, m, ie, f, o.ie, o.f) /\ (~o.err => o.ie # None /\ o.ie.blob # None)
<1> DEFINE st == UpdateStatus(ie, f)
<1>1. te \in File /\ te.c \in Content /\ head \in DOMAIN hist BY TreeText DEF HistOK
<1>2. f \in OnDisk /\ (ie # None => ie \in Entry /\ EntryFormed(ie)) BY PathIs
<1>3. CASE ie # None /\ ie.stage # "-"
  <2>1. o = Fail(f, ie) BY <1>3 DEF UpdateBlob
  <2>2. o.err /\ o.f = f /\ o.ie = ie BY <2>1 DEF Fail
  <2> QED BY <2>2, SameSound
<1>4. CASE ie = None
  <2>1. st = "?" BY <1>4 DEF UpdateStatus
  <2>2. ~UpToDate(ie, f, te, head) BY <1>4 DEF UpToDate
  <2>3. o = InstallBlob(ie, f, te, head) BY <1>4, <2>1, <2>2 DEF UpdateBlob
  <2> QED BY <1>4, <2>3, InstallBlobOK
<1>5. CASE ie # None /\ ie.stage = "-"
  <2>1. ie \in Entry /\ EntryFormed(ie) /\ st = GetFileStatus(ie, f) BY <1>2, <1>5 DEF UpdateStatus
  <2>2. st \in {NoChange, "M", "A", "D", "C", "!", "m"} BY <1>2, <2>1, StatusIs
  <2>3. CASE st = "C"
    <3>1. o = Done(f, ie) BY <1>5, <2>3 DEF UpdateBlob
    <3>2. o.f = f /\ o.ie = ie BY <3>1 DEF Done
    <3>3. GetFileStatus(ie, f) = "C" BY <2>1, <2>3
    <3>4. ie.blob # None BY <1>2, <1>5, <2>1, <3>3, StatusIs
    <3> QED BY <1>5, <3>2, <3>4, SameSound
  <2>4. CASE st # "C" /\ UpToDate(ie, f, te, head)
    <3>0. st \notin {"~", "C"} BY <2>2, <2>4, NoChangeIs
    <3>1. o = Done(f, SyncTimestamps(ie, f)) BY <1>5, <2>4, <3>0 DEF UpdateBlob
    <3>2. o.f = f /\ o.ie = SyncTimestamps(ie, f) BY <3>1 DEF Done
    <3>3. ie.blob # None BY <2>1, <2>4 DEF UpToDate, EntryFormed
    <3>4. /\ PathFormed(p, o.ie, f) /\ o.ie # None /\ o.ie.blob = ie.blob
          /\ Stamped(ie, f) => Stamped(o.ie, f)
          /\ f = None => o.ie = ie
          /\ Settles(p, ie, f, head) => Settles(p, o.ie, f, head)
      BY <1>5, <3>2, SyncTimestampsOK
    <3>5. Safe(m, ie, f) => Safe(m, o.ie, f) BY <3>4, FileKeeps
    <3> QED BY <3>2, <3>3, <3>4, <3>5 DEF Sound
  <2>5. CASE st \in {"M", "A"} /\ ~UpToDate(ie, f, te, head)
    <3>0. st \notin {"~", "C"} BY <2>5
    <3>1. o = MergeBlob(ie, f, te, head) BY <1>5, <2>5, <3>0 DEF UpdateBlob
    <3>2. f # None BY <1>2, <2>1, <2>5, StatusIs
    <3> QED BY <1>5, <3>1, <3>2, MergeBlobOK
  <2>6. CASE st \in {NoChange, "!"} /\ ~UpToDate(ie, f, te, head)
    <3>0. st \notin {"~", "C", "M", "A", "m", "D"} BY <2>6, NoChangeIs
    <3>1. o = InstallBlob(ie, f, te, head) BY <1>5, <2>6, <3>0 DEF UpdateBlob
    <3> QED BY <1>5, <2>1, <2>6, <3>1, InstallBlobOK
  <2>7. CASE st \in {"m", "D"} /\ ~UpToDate(ie, f, te, head) /\ EntryUpdateFails(ie, f)
    <3>1. o = Fail(f, ie) BY <1>5, <2>7 DEF UpdateBlob
    <3>2. o.err /\ o.f = f /\ o.ie = ie BY <3>1 DEF Fail
    <3> QED BY <3>2, SameSound
  <2>8. CASE st \in {"m", "D"} /\ ~UpToDate(ie, f, te, head) /\ ~EntryUpdateFails(ie, f)
    <3> DEFINE e == EntryUpdate(ie, f, te.c, head, FALSE)
    <3>1. o = Done(f, e) BY <1>5, <2>8 DEF UpdateBlob
    <3>2. o.f = f /\ o.ie = e BY <3>1 DEF Done
    <3>3. /\ PathFormed(p, e, f) /\ e # None /\ e.blob # None /\ e.stage = "-"
          /\ e.blob = te.c /\ e.commit = head
          /\ f # None => e.x = f.x /\ (e.fresh <=> ie.fresh)
          /\ f = None => e.x = ie.x /\ (e.nofile <=> ie.nofile)
      <4>1. \E ts \in BOOLEAN : e = EntryUpdate(ie, f, te.c, head, ts) /\ ~ts BY Zenon
      <4> HIDE DEF e
      <4>2. PICK ts \in BOOLEAN : e = EntryUpdate(ie, f, te.c, head, ts) /\ ~ts BY <4>1
      <4>3. e = EntryUpdate(ie, f, te.c, head, ts) /\ (ie.stage = "D" => f = None) BY <1>5, <4>2
      <4>4. /\ PathFormed(p, e, f) /\ e # None /\ e.blob # None /\ e.stage = ie.stage
            /\ f # None => ~e.nofile /\ e.x = f.x /\ (e.fresh <=> ie.fresh \/ ts)
        BY <1>1, <1>2, <2>1, <4>3, BlobFormed
      <4>5. e.blob = te.c /\ e.commit = head /\ (f = None => e.x = ie.x /\ (e.nofile <=> ie.nofile))
        BY <1>1, <1>2, <2>1, <4>3, BlobCommit
      <4> QED BY <1>5, <4>2, <4>4, <4>5
    <3> HIDE DEF e
    <3>4. ASSUME Stamped(ie, f), Clear(p, ie, f) PROVE Stamped(e, f)
      <4>1. CASE st = "m"
        <5>1. ~ie.fresh /\ f # None BY <1>2, <2>1, <3>4, <4>1, StatusIs
        <5> QED BY <3>3, <5>1 DEF Stamped
      <4>2. CASE st = "D"
        <5>1. ie.nofile BY <1>2, <2>1, <4>2, StatusIs
        <5>2. f = None BY <3>4, <5>1 DEF Clear
        <5> QED BY <5>2 DEF Stamped
      <4> QED BY <2>8, <4>1, <4>2
    <3>5. ASSUME Safe(m, ie, f) PROVE Safe(m, e, f)
      <4>1. CASE f # None BY <3>5, <4>1, FileKeeps
      <4>2. CASE f = None BY <1>5, <3>5, <4>2, MissingText, NothingIsSafe
      <4> QED BY <4>1, <4>2
    <3>6. ASSUME Settles(p, ie, f, head) PROVE Settles(p, e, f, head)
      <4>1. At(p, e.blob, head) BY <3>3 DEF At
      <4>2. ~e.x /\ (f # None => ~f.x) /\ (f = None => e.nofile) BY <1>5, <3>3, <3>6 DEF Settles
      <4> QED BY <3>3, <4>1, <4>2, SettlesAt
    <3> QED BY <3>2, <3>3, <3>4, <3>5, <3>6 DEF Sound
  <2> QED BY <2>2, <2>3, <2>4, <2>5, <2>6, <2>7, <2>8
<1> QED BY <1>3, <1>4, <1>5

(* delete_blob, for a path that is not in the branch's tree.                  *)
LEMMA DeleteBlobOK ==
    ASSUME HistOK, NEW p \in Paths, NEW m, NEW ie, ie # None, NEW f, PathFormed(p, ie, f),
           Tree(head)[p] = None, NEW o \in DeleteBlob(ie, f)
    PROVE  Sound(p, m, ie, f, o.ie, o.f)
<1> DEFINE st == GetFileStatus(ie, f)
<1>1. ie \in Entry /\ EntryFormed(ie) /\ f \in OnDisk BY PathIs
<1>2. CASE ie.stage # "-"
  <2>1. o = Fail(f, ie) BY <1>2 DEF DeleteBlob
  <2>2. o.f = f /\ o.ie = ie BY <2>1 DEF Fail
  <2> QED BY <2>2, SameSound
<1>3. CASE ie.stage = "-" /\ st \in {"M", "C", "A"}
  <2> DEFINE e == EntryUpdate(ie, f, None, None, FALSE)
  <2>1. o = Done(f, e) BY <1>3 DEF DeleteBlob
  <2>2. o.f = f /\ o.ie = e BY <2>1 DEF Done
  <2>3. f # None BY <1>1, <1>3, StatusIs, NoChangeIs
  <2>4. /\ e \in Entry /\ e # None /\ e.blob = None /\ e.stage = "-" /\ e.sblob = ie.sblob
        /\ e.commit = ie.commit /\ ~e.hasCommit /\ e.x = f.x
    <3>1. \E ts \in BOOLEAN : e = EntryUpdate(ie, f, None, None, ts) BY Zenon
    <3> HIDE DEF e
    <3>2. PICK ts \in BOOLEAN : e = EntryUpdate(ie, f, None, None, ts) BY <3>1
    <3> QED BY <1>1, <1>3, <2>3, <3>2, EntryUpdateIs
  <2> HIDE DEF e
  <2>5. EntryFormed(e) BY <1>1, <1>3, <2>4 DEF EntryFormed
  <2>6. PathFormed(p, e, f) BY <1>1, <2>4, <2>5 DEF PathFormed, Index
  <2>7. Stamped(e, f) BY <2>4 DEF Stamped
  <2>8. Settles(p, ie, f, head) => Settles(p, e, f, head) BY <2>3, <2>4 DEF Settles
  <2>9. Safe(m, ie, f) => Safe(m, e, f) BY <2>3, FileKeeps
  <2> QED BY <2>2, <2>6, <2>7, <2>8, <2>9 DEF Sound
<1>4. CASE ie.stage = "-" /\ st \notin {"M", "C", "A"}
  <2>1. o = Done(IF st = NoChange THEN None ELSE f, None) \/ o = Fail(f, ie)
    BY <1>4 DEF DeleteBlob
  <2>2. CASE o = Fail(f, ie)
    <3>1. o.f = f /\ o.ie = ie BY <2>2 DEF Fail
    <3> QED BY <3>1, SameSound
  <2>3. CASE o = Done(IF st = NoChange THEN None ELSE f, None)
    <3> DEFINE g == IF st = NoChange THEN None ELSE f
    <3>1. o.f = g /\ o.ie = None BY <2>3 DEF Done
    <3>2. PathFormed(p, None, g) /\ Stamped(None, g) BY <1>1 DEF PathFormed, Index, OnDisk, Stamped
    <3>3. ASSUME Stamped(ie, f), Known(p, ie), Unseen(p, m), Safe(m, ie, f) PROVE Safe(m, None, g)
      <4>1. CASE f = None BY <1>4, <3>3, <4>1, MissingText, NothingIsSafe
      <4>2. CASE f # None /\ st # NoChange BY <3>3, <4>2, FileKeeps
      <4>3. CASE f # None /\ st = NoChange
        <5>1. f.c = ie.blob /\ ie.blob # None
          BY <1>1, <1>4, <3>3, <4>3, StatusIs DEF ComparedBlob
        <5>2. f.c \in Texts(p) BY <3>3, <5>1 DEF Known
        <5> QED BY <3>3, <4>3, <5>2, CommittedText, NothingIsSafe
      <4> QED BY <4>1, <4>2, <4>3
    <3>4. Settles(p, ie, f, head) => Settles(p, None, g, head) BY DEF Settles
    <3> HIDE DEF g
    <3> QED BY <3>1, <3>2, <3>3, <3>4 DEF Sound
  <2> QED BY <2>1, <2>2, <2>3
<1> QED BY <1>2, <1>3, <1>4

-----------------------------------------------------------------------------
(* What the other commands do to a path.                                      *)

(* revert_file.  It forgets local changes only where it changes the file.     *)
LEMMA RevertOK ==
    ASSUME HistOK, NEW p \in Paths, NEW ie, ie # None, NEW f, PathFormed(p, ie, f),
           NEW te \in OnDisk, NEW o, o = RevertOutcome(ie, f, te), ~o.err
    PROVE  /\ PathFormed(p, o.ie, o.f)
           /\ Stamped(ie, f) => Stamped(o.ie, o.f)
           /\ o.f = f => f # None \/ o.ie = ie
           /\ Settles(p, ie, f, head) /\ te = Tree(head)[p] /\ base = head /\ (te # None => ~te.x)
                => Settles(p, o.ie, o.f, head)
<1> DEFINE st == GetFileStatus(ie, f)
           blob == ComparedBlob(ie)
           g == [x |-> te # None /\ te.x, c |-> blob]
<1>1. ie \in Entry /\ EntryFormed(ie) /\ f \in OnDisk BY PathIs
<1>2. st \in {NoChange, "M", "A", "D", "C", "!", "m"} BY <1>1, StatusIs
<1>3. CASE st = NoChange \/ (st = "D" /\ ie.stage # "-")
  <2>0. st # "A" BY <1>3, NoChangeIs
  <2>1. ~(st \in {"D", "M", "m", "C", "!"} /\ ~(st = "D" /\ ie.stage # "-")) BY <1>3, NoChangeIs
  <2>2. o = Done(f, ie) BY <1>3, <2>0, <2>1 DEF RevertOutcome
  <2>3. o.f = f /\ o.ie = ie BY <2>2 DEF Done
  <2> QED BY <2>3
<1>4. CASE st = "A"
  <2>1. ~(st = NoChange \/ (st = "D" /\ ie.stage # "-")) BY <1>4, NoChangeIs
  <2>2. o = Done(f, None) BY <1>4, <2>1 DEF RevertOutcome
  <2>3. o.f = f /\ o.ie = None BY <2>2 DEF Done
  <2>4. f # None BY <1>1, <1>4, StatusIs
  <2>5. PathFormed(p, None, f) /\ Stamped(None, f) BY <1>1 DEF PathFormed, Index, Stamped
  <2>6. Settles(p, ie, f, head) => Settles(p, None, f, head) BY DEF Settles
  <2> QED BY <2>3, <2>4, <2>5, <2>6
<1>5. CASE st \in {"D", "M", "m", "C", "!"} /\ ~(st = "D" /\ ie.stage # "-")
  <2>1. ~(st = NoChange \/ (st = "D" /\ ie.stage # "-")) /\ st # "A" BY <1>5, NoChangeIs
  <2> DEFINE bad == (te = None /\ ie.stage # "A") \/ blob = None
             e == IF st \in {"D", "m"} THEN EntryUpdate(Touched(ie), g, blob, base, TRUE)
                  ELSE Touched(ie)
  <2>2. o = IF bad THEN Fail(f, ie) ELSE Done(g, e) BY <1>5, <2>1 DEF RevertOutcome
  <2>3. ~bad
    <3> SUFFICES ASSUME bad PROVE FALSE OBVIOUS
    <3>1. o = Fail(f, ie) BY <2>2
    <3> QED BY <3>1 DEF Fail
  <2>4. o = Done(g, e) BY <2>2, <2>3
  <2>5. o.f = g /\ o.ie = e BY <2>4 DEF Done
  <2>6. blob \in Content BY <1>1, <2>3, EntryFields DEF ComparedBlob
  <2> HIDE DEF blob, bad
  <2>7. g \in File /\ g.c = blob /\ g # None /\ g \in OnDisk /\ ((te # None => ~te.x) => ~g.x)
    <3> DEFINE x == te # None /\ te.x
               n == [x |-> x, c |-> blob]
    <3>1. x \in BOOLEAN /\ ((te # None => ~te.x) => ~x) OBVIOUS
    <3>2. n = g OBVIOUS
    <3> HIDE DEF x, g
    <3>3. n \in File /\ n.c = blob /\ n.x = x BY <2>6, <3>1, NewFileIs
    <3> HIDE DEF n
    <3>4. g \in File /\ g.c = blob /\ ((te # None => ~te.x) => ~g.x) BY <3>1, <3>2, <3>3
    <3> QED BY <3>4, FileIs DEF OnDisk
  <2> HIDE DEF g
  <2>8. /\ PathFormed(p, Touched(ie), g) /\ Stamped(Touched(ie), g) /\ Touched(ie) # None
        /\ Settles(p, ie, f, head) /\ g # None /\ ~g.x => Settles(p, Touched(ie), g, head)
    BY <2>7, TouchedFormed
  <2>9. CASE st \notin {"D", "m"}
    <3>1. e = Touched(ie) BY <2>9
    <3> QED BY <2>5, <2>7, <2>8, <3>1
  <2>10. CASE st \in {"D", "m"}
    <3>1. Touched(ie) \in Entry /\ EntryFormed(Touched(ie)) BY <2>8, PathIs
    <3>2. /\ Touched(ie).stage = ie.stage /\ Touched(ie).sblob = ie.sblob BY <1>1, TouchedIs
    <3>3. ie.stage # "D"
      <4>1. CASE st = "D" BY <1>5, <4>1
      <4>2. CASE st = "m"
        <5>1. ~ie.nofile BY <1>1, <4>2, StatusIs
        <5> QED BY <1>1, <5>1 DEF EntryFormed
      <4> QED BY <2>10, <4>1, <4>2
    <3>4. /\ PathFormed(p, e, g) /\ e # None /\ e.blob = blob /\ e.stage = ie.stage
          /\ e.sblob = ie.sblob /\ ~e.nofile /\ e.x = g.x /\ e.commit = base
      <4>1. \E ts \in BOOLEAN : e = EntryUpdate(Touched(ie), g, blob, base, ts) BY <2>10, Zenon
      <4> HIDE DEF e
      <4>2. PICK ts \in BOOLEAN : e = EntryUpdate(Touched(ie), g, blob, base, ts) BY <4>1
      <4>3. base \in DOMAIN hist BY DEF HistOK
      <4>4. /\ PathFormed(p, e, g) /\ e # None /\ e.blob = blob /\ e.stage = ie.stage
            /\ e.sblob = ie.sblob /\ ~e.nofile /\ e.x = g.x
        BY <2>6, <2>7, <3>1, <3>2, <3>3, <4>2, <4>3, BlobFormed
      <4>5. e.commit = base BY <2>6, <2>7, <3>1, <4>2, <4>3, BlobCommit
      <4> QED BY <4>4, <4>5
    <3> HIDE DEF e
    <3>5. ComparedBlob(e) = blob BY <3>4 DEF ComparedBlob, blob
    <3>6. Stamped(e, g) BY <2>7, <3>4, <3>5 DEF Stamped
    <3>7. ASSUME Settles(p, ie, f, head), te = Tree(head)[p], base = head, te # None => ~te.x
          PROVE  Settles(p, e, g, head)
      <4>1. st # "m"
        <5>1. st = "m" => ie.x # f.x /\ f # None BY <1>1, StatusIs
        <5>2. ~ie.x /\ (f # None => ~f.x) BY <3>7 DEF Settles
        <5>3. f # None => f.x \in BOOLEAN BY <1>1, FileIs DEF OnDisk
        <5>4. ie.x \in BOOLEAN BY <1>1, EntryFields
        <5> QED BY <5>1, <5>2, <5>3, <5>4
      <4>2. ie.stage = "-" BY <1>5, <2>10, <4>1
      <4>3. blob = ie.blob BY <4>2 DEF blob, ComparedBlob
      <4>4. At(p, e.blob, head) BY <2>6, <3>4, <3>7, <4>3, FileConstants DEF Settles
      <4>5. ~g.x BY <2>7, <3>7
      <4>6. e.commit = head BY <3>4, <3>7
      <4> QED BY <2>7, <3>4, <4>4, <4>5, <4>6, SettlesAt
    <3> QED BY <2>5, <2>7, <3>4, <3>6, <3>7
  <2> QED BY <2>9, <2>10
<1> QED BY <1>2, <1>3, <1>4, <1>5

(* The entry of a staged path.                                                *)
Staged(ie, f, st) ==
    IF st = "D" THEN [ie EXCEPT !.stage = "D"]
    ELSE [ie EXCEPT !.sblob = f.c, !.stage = IF st = "A" \/ @ = "A" THEN "A" ELSE "M"]

(* stage_path.                                                                *)
LEMMA StageOK ==
    ASSUME HistOK, NEW p, NEW ie, ie # None, NEW f, PathFormed(p, ie, f),
           NEW st, st = GetFileStatus(ie, f), st \in {"A", "M", "D"}, NEW e,
           e = Staged(ie, f, st)
    PROVE  /\ PathFormed(p, e, f)
           /\ Stamped(ie, f) => Stamped(e, f)
           /\ st # "D" => f # None
           /\ Settles(p, ie, f, head) => Settles(p, e, f, head)
<1>1. ie \in Entry /\ EntryFormed(ie) /\ f \in OnDisk /\ (f # None => f \in File) BY PathIs
<1>2. CASE st = "D"
  <2>1. ie.nofile BY <1>1, <1>2, StatusIs
  <2>2. /\ e \in Entry /\ e.blob = ie.blob /\ e.commit = ie.commit
        /\ e.hasCommit = ie.hasCommit /\ e.nofile = ie.nofile /\ e.stage = "D"
        /\ e.x = ie.x /\ e.fresh = ie.fresh
    BY <1>1, <1>2 DEF Entry, Staged
  <2>3. EntryFormed(e) /\ e # None BY <1>1, <2>1, <2>2, EntryFields DEF EntryFormed
  <2>4. PathFormed(p, e, f) BY <1>1, <2>2, <2>3 DEF PathFormed, Index
  <2>5. Stamped(ie, f) => Stamped(e, f) BY <2>1, <2>2 DEF Stamped
  <2>6. Settles(p, ie, f, head) => Settles(p, e, f, head) BY <2>2 DEF Settles
  <2> QED BY <1>2, <2>4, <2>5, <2>6
<1>3. CASE st # "D"
  <2> DEFINE s == IF st = "A" \/ ie.stage = "A" THEN "A" ELSE "M"
             a == [ie EXCEPT !.stage = s]
             b == f.c
  <2>1. f # None /\ ~ie.nofile /\ (st = "M" => ie.blob # None \/ ie.stage = "A")
    BY <1>1, <1>3, StatusIs
  <2>2. b \in Content /\ b # None BY <1>1, <2>1, FileIs
  <2>3. e = [ie EXCEPT !.sblob = b, !.stage = s] BY <1>3 DEF Staged
  <2>4. s \in {"A", "M"} /\ (s = "M" => ie.blob # None) BY <1>3, <2>1
  <2> HIDE DEF s, b
  <2>5. /\ e \in Entry /\ e.blob = ie.blob /\ e.commit = ie.commit
        /\ e.hasCommit = ie.hasCommit /\ e.nofile = ie.nofile /\ e.stage = s /\ e.sblob = b
        /\ e.x = ie.x /\ e.fresh = ie.fresh
    <3> DEFINE d == [ie EXCEPT !.sblob = b]
    <3>1. /\ d \in Entry /\ d.blob = ie.blob /\ d.commit = ie.commit
          /\ d.hasCommit = ie.hasCommit /\ d.nofile = ie.nofile /\ d.sblob = b
          /\ d.x = ie.x /\ d.fresh = ie.fresh
      BY <1>1, <2>2 DEF Entry
    <3>2. e = [d EXCEPT !.stage = s] BY <2>3
    <3> HIDE DEF d
    <3>3. /\ e \in Entry /\ e.blob = d.blob /\ e.commit = d.commit
          /\ e.hasCommit = d.hasCommit /\ e.nofile = d.nofile /\ e.stage = s /\ e.sblob = d.sblob
          /\ e.x = d.x /\ e.fresh = d.fresh
      BY <2>4, <3>1, <3>2 DEF Entry
    <3> QED BY <3>1, <3>3
  <2>6. EntryFormed(e) /\ e # None BY <1>1, <2>2, <2>4, <2>5, EntryFields DEF EntryFormed
  <2>7. PathFormed(p, e, f) BY <1>1, <2>5, <2>6 DEF PathFormed, Index
  <2>8. Stamped(ie, f) => Stamped(e, f) BY <2>4, <2>5 DEF Stamped, ComparedBlob, b
  <2>9. Settles(p, ie, f, head) => Settles(p, e, f, head) BY <2>5 DEF Settles
  <2> QED BY <2>1, <2>7, <2>8, <2>9
<1> QED BY <1>2, <1>3

(* The entry that unstage leaves.                                             *)
LEMMA ClearFormed ==
    ASSUME HistOK, NEW p, NEW ie, ie # None, NEW f, PathFormed(p, ie, f), NEW e, e = Cleared(ie)
    PROVE  /\ PathFormed(p, e, f) /\ e # None /\ e.stage = "-" /\ e.sblob = None
           /\ e.nofile = ie.nofile /\ e.blob = ie.blob /\ e.x = ie.x /\ e.fresh = ie.fresh
           /\ \A h : Settles(p, ie, f, h) => Settles(p, e, f, h)
<1>1. ie \in Entry /\ EntryFormed(ie) /\ f \in OnDisk BY PathIs
<1>2. /\ e \in Entry /\ e # None /\ e.blob = ie.blob /\ e.commit = ie.commit
      /\ e.hasCommit = ie.hasCommit /\ e.nofile = ie.nofile /\ e.stage = "-"
      /\ e.sblob = None /\ e.x = ie.x /\ e.fresh = ie.fresh
  BY <1>1, ClearedIs
<1>3. EntryFormed(e) BY <1>1, <1>2 DEF EntryFormed
<1>4. \A h : Settles(p, ie, f, h) => Settles(p, e, f, h) BY <1>2 DEF Settles
<1>5. PathFormed(p, e, f) BY <1>1, <1>2, <1>3 DEF PathFormed, Index
<1> QED BY <1>2, <1>4, <1>5

(* unstage_path, of a deletion and of a change.                               *)
LEMMA UnstageOK ==
    ASSUME HistOK, NEW p, NEW m, NEW ie, ie # None, ie.stage # "-", NEW f, PathFormed(p, ie, f),
           NEW e, e = Cleared(ie)
    PROVE  /\ ie.stage = "D" => Sound(p, m, ie, f, e, f)
           /\ ie.stage # "D" /\ f # None =>
                Sound(p, m, ie, f, Touched(e),
                      [x |-> ie.x, c |-> MergeFile(IF ie.stage = "A" THEN None ELSE ie.blob,
                                                   f.c, ie.sblob)])
<1>1. ie \in Entry /\ EntryFormed(ie) /\ f \in OnDisk /\ (f # None => f \in File) BY PathIs
<1>2. /\ PathFormed(p, e, f) /\ e # None /\ e.stage = "-" /\ e.nofile = ie.nofile
      /\ e.x = ie.x /\ e.fresh = ie.fresh
      /\ Settles(p, ie, f, head) => Settles(p, e, f, head)
  BY ClearFormed
<1>3. ASSUME ie.stage = "D" PROVE Sound(p, m, ie, f, e, f)
  <2>1. ie.nofile BY <1>1, <1>3 DEF EntryFormed
  <2>2. Stamped(ie, f) => Stamped(e, f) BY <1>2, <2>1 DEF Stamped
  <2>3. ASSUME Safe(m, ie, f) PROVE Safe(m, e, f)
    <3>1. CASE f # None BY <2>3, <3>1, FileKeeps
    <3>2. CASE f = None BY <1>3, <2>3, <3>2, MissingText, NothingIsSafe
    <3> QED BY <3>1, <3>2
  <2> QED BY <1>2, <2>2, <2>3 DEF Sound
<1>4. ASSUME ie.stage # "D", f # None
      PROVE  Sound(p, m, ie, f, Touched(e),
                   [x |-> ie.x, c |-> MergeFile(IF ie.stage = "A" THEN None ELSE ie.blob,
                                                f.c, ie.sblob)])
  <2> DEFINE orig == IF ie.stage = "A" THEN None ELSE ie.blob
             c == MergeFile(orig, f.c, ie.sblob)
             g == [x |-> ie.x, c |-> c]
  <2>1. /\ orig \in Content \cup {None} /\ f.c \in Content /\ f \in File /\ ie.x \in BOOLEAN
        /\ ie.sblob \in Content
    BY <1>1, <1>4, FileIs, EntryFields DEF EntryFormed
  <2>2. orig # None => orig = ie.blob OBVIOUS
  <2> HIDE DEF orig
  <2>3. c \in Content BY <2>1, MergeKeeps
  <2>4. g \in File /\ g.c = c /\ g.x = ie.x /\ g # None /\ g \in OnDisk
    <3> HIDE DEF c
    <3>1. g \in File /\ g.c = c /\ g.x = ie.x BY <2>1, <2>3, NewFileIs
    <3> QED BY <3>1, FileIs DEF OnDisk
  <2> HIDE DEF g
  <2>5. /\ PathFormed(p, Touched(e), g) /\ Stamped(Touched(e), g)
        /\ Settles(p, e, f, head) /\ g # None /\ ~g.x => Settles(p, Touched(e), g, head)
    BY <1>2, <2>4, TouchedFormed
  <2>6. ASSUME Known(p, ie), Unseen(p, m), Safe(m, ie, f) PROVE Safe(m, Touched(e), g)
    <3>1. orig # None => orig \in Texts(p) BY <2>2, <2>6 DEF Known
    <3> QED BY <2>1, <2>4, <2>6, <3>1, MergeIsSafe
  <2>7. Settles(p, ie, f, head) => Settles(p, Touched(e), g, head)
    <3>1. Settles(p, ie, f, head) => ~g.x BY <2>4 DEF Settles
    <3> QED BY <1>2, <2>4, <2>5, <3>1
  <2>8. Sound(p, m, ie, f, Touched(e), g) BY <2>5, <2>6, <2>7 DEF Sound
  <2> QED BY <2>8 DEF g, orig
<1> QED BY <1>3, <1>4

(* A change is merged into a file whose entry stays.                          *)
LEMMA MergedSound ==
    ASSUME HistOK, NEW p, NEW m, NEW ie, ie # None, NEW f, f # None, PathFormed(p, ie, f),
           NEW orig \in Content \cup {None}, orig # None => orig \in Texts(p),
           NEW theirs \in Content, NEW g, g = [f EXCEPT !.c = MergeFile(orig, f.c, theirs)]
    PROVE  Sound(p, m, ie, f, Touched(ie), g)
<1>1. f \in File /\ f.c \in Content BY PathIs, FileIs
<1> DEFINE c == MergeFile(orig, f.c, theirs)
<1>2. c \in Content BY <1>1, MergeKeeps
<1>3. g \in File /\ g.c = c /\ g.x = f.x
  <2> HIDE DEF c
  <2>1. g = [f EXCEPT !.c = c] BY DEF c
  <2> QED BY <1>1, <1>2, <2>1 DEF File
<1>4. g # None /\ g \in OnDisk BY <1>3, FileIs DEF OnDisk
<1>5. /\ PathFormed(p, Touched(ie), g) /\ Stamped(Touched(ie), g)
      /\ Settles(p, ie, f, head) /\ g # None /\ ~g.x => Settles(p, Touched(ie), g, head)
  BY <1>4, TouchedFormed
<1>6. ASSUME Unseen(p, m), Safe(m, ie, f) PROVE Safe(m, Touched(ie), g)
  BY <1>1, <1>3, <1>4, <1>6, MergeIsSafe
<1>7. Settles(p, ie, f, head) => ~g.x BY <1>3 DEF Settles
<1> QED BY <1>4, <1>5, <1>6, <1>7 DEF Sound

(* merge_file_cb, for a change from t1 to t2 that is in commits.              *)
LEMMA MergeFileCbOK ==
    ASSUME HistOK, NEW p, NEW m, NEW ie, NEW f, PathFormed(p, ie, f), NEW t1 \in OnDisk,
           NEW t2 \in OnDisk, t1 # None => t1.c \in Texts(p),
           t2 # None /\ Plain => ~t2.x, NEW o, o = MergeFileCb(ie, f, t1, t2)
    PROVE  Sound(p, m, ie, f, o.ie, o.f)
<1> DEFINE st == IF ie = None THEN "none" ELSE GetFileStatus(ie, f)
           merge(orig) == Done([f EXCEPT !.c = MergeFile(orig, f.c, t2.c)], Touched(ie))
<1>1. f \in OnDisk /\ (f # None => f \in File) /\ (ie # None => ie \in Entry /\ EntryFormed(ie))
  BY PathIs
<1>2. /\ t1 # None => t1 \in File /\ t1.c \in Content
      /\ t2 # None => t2 \in File /\ t2.c \in Content
  BY FileIs DEF OnDisk
<1>3. ASSUME o = Done(f, ie) PROVE Sound(p, m, ie, f, o.ie, o.f)
  <2>1. o.f = f /\ o.ie = ie BY <1>3 DEF Done
  <2> QED BY <2>1, SameSound
<1>4. ie # None => st = GetFileStatus(ie, f) OBVIOUS
<1>5. st \in {NoChange, "M", "C", "A"} => ie # None /\ f # None
  <2>1. CASE ie = None
    <3>1. st = "none" BY <2>1
    <3>2. NoChange # "none" BY Zenon DEF NoChange
    <3> QED BY <3>1, <3>2
  <2>2. CASE ie # None BY <1>1, <2>2, StatusIs, NoChangeIs
  <2> QED BY <2>1, <2>2
<1>6. ASSUME NEW orig \in Content \cup {None}, orig # None => orig \in Texts(p),
             st \in {NoChange, "M", "C", "A"}, t2 # None, o = merge(orig)
      PROVE  Sound(p, m, ie, f, o.ie, o.f)
  <2> DEFINE g == [f EXCEPT !.c = MergeFile(orig, f.c, t2.c)]
  <2>1. o.f = g /\ o.ie = Touched(ie) BY <1>6 DEF Done
  <2>2. ie # None /\ f # None /\ t2.c \in Content BY <1>2, <1>5, <1>6
  <2>3. Sound(p, m, ie, f, Touched(ie), g) BY <1>6, <2>2, MergedSound
  <2> HIDE DEF g
  <2> QED BY <2>1, <2>3
<1> HIDE DEF merge
<1>7. CASE t1 = t2
  <2>1. o = Done(f, ie) BY <1>7 DEF MergeFileCb
  <2> QED BY <1>3, <2>1
<1>8. CASE t1 # t2 /\ t1 # None /\ t2 # None
  <2>1. o = IF st \in {NoChange, "M", "C", "A"} THEN merge(t1.c) ELSE Done(f, ie)
    BY <1>8 DEF MergeFileCb, merge
  <2>2. t1.c \in Content \cup {None} BY <1>2, <1>8
  <2> QED BY <1>3, <1>6, <1>8, <2>1, <2>2
<1>9. CASE t1 # t2 /\ t1 = None
  <2>1. CASE ie = None
    <3> DEFINE g == IF f = None THEN t2 ELSE f
               e == EntryUpdate(EmptyEntry, g, None, None, TRUE)
    <3>1. o = Done(g, e) BY <1>9, <2>1 DEF MergeFileCb
    <3>2. o.f = g /\ o.ie = e BY <3>1 DEF Done
    <3>3. g \in File BY <1>1, <1>2, <1>9
    <3>4. PathFormed(p, e, g) /\ Stamped(e, g) /\ (~g.x => Settles(p, e, g, head))
      <4>1. \E ts \in BOOLEAN : e = EntryUpdate(EmptyEntry, g, None, None, ts) BY Zenon
      <4> HIDE DEF e, g
      <4>2. PICK ts \in BOOLEAN : e = EntryUpdate(EmptyEntry, g, None, None, ts) BY <4>1
      <4> QED BY <3>3, <4>2, AddedFormed
    <3> HIDE DEF e
    <3>5. ASSUME Safe(m, ie, f) PROVE Safe(m, e, g)
      <4>1. CASE f # None BY <3>5, <4>1, FileKeeps
      <4>2. CASE f = None BY <2>1, <3>5, <4>2, MissingText, NothingIsSafe
      <4> QED BY <4>1, <4>2
    <3>6. Plain /\ Settles(p, ie, f, head) => ~g.x BY <1>9 DEF Settles
    <3> HIDE DEF g
    <3> QED BY <3>2, <3>4, <3>5, <3>6 DEF Sound
  <2>2. CASE ie # None
    <3>1. o = IF st \in {NoChange, "M", "C", "A"} THEN merge(None) ELSE Done(f, ie)
      BY <1>9, <2>2 DEF MergeFileCb, merge
    <3> QED BY <1>3, <1>6, <1>9, <3>1
  <2> QED BY <2>1, <2>2
<1>10. CASE t1 # t2 /\ t2 = None
  <2>0. t1 # None /\ t1.c \in Content BY <1>2, <1>10
  <2>1. CASE st \in {NoChange, "D", "!"}
    <3> DEFINE g == IF st = NoChange THEN None ELSE f
               e == Deleted(ie)
    <3>0. st # "A" BY <2>1, NoChangeIs
    <3>1. o = Done(g, e) BY <1>10, <2>0, <2>1, <3>0 DEF MergeFileCb, Deleted
    <3>2. o.f = g /\ o.ie = e BY <3>1 DEF Done
    <3>3. ie # None
      <4>1. "none" # NoChange BY Zenon DEF NoChange
      <4> QED BY <2>1, <4>1
    <3>4. g \in {f, None} OBVIOUS
    <3>5. /\ PathFormed(p, e, g) /\ e # None /\ e.nofile /\ e.stage = ie.stage /\ e.sblob = ie.sblob
          /\ Stamped(ie, f) => Stamped(e, g)
          /\ Settles(p, ie, f, head) => Settles(p, e, g, head)
      BY <3>3, <3>4, DeletedFormed
    <3>6. ASSUME Stamped(ie, f), Known(p, ie), Unseen(p, m), Safe(m, ie, f) PROVE Safe(m, e, g)
      <4> HIDE DEF e
      <4>1. CASE f # None /\ st # NoChange BY <3>6, <4>1, FileKeeps
      <4>2. CASE f = None
        <5>1. g = None BY <4>2
        <5> QED BY <3>5, <3>6, <4>2, <5>1 DEF Safe
      <4>3. CASE f # None /\ st = NoChange
        <5>1. f.c = ComparedBlob(ie) /\ ~ie.nofile /\ (ie.blob # None \/ ie.stage = "A")
          BY <1>1, <1>4, <3>3, <3>6, <4>3, StatusIs
        <5>2. g = None BY <4>3
        <5>3. CASE ie.stage \in {"A", "M"}
          BY <3>5, <3>6, <4>3, <5>1, <5>2, <5>3 DEF Safe, ComparedBlob
        <5>4. CASE ie.stage \notin {"A", "M"}
          <6>1. f.c = ie.blob /\ ie.blob # None BY <5>1, <5>4 DEF ComparedBlob
          <6>2. f.c \in Texts(p) BY <3>3, <3>6, <6>1 DEF Known
          <6> QED BY <3>6, <4>3, <6>2, CommittedText, NothingIsSafe
        <5> QED BY <5>3, <5>4
      <4> QED BY <4>1, <4>2, <4>3
    <3> HIDE DEF e, g
    <3> QED BY <3>2, <3>5, <3>6 DEF Sound
  <2>2. CASE st = "A" /\ f.c = t1.c
    <3>0. st \notin {NoChange, "D", "!"} BY <2>2, NoChangeIs
    <3>1. o = Done(None, None) BY <1>10, <2>0, <2>2, <3>0 DEF MergeFileCb
    <3>2. o.f = None /\ o.ie = None BY <3>1 DEF Done
    <3>3. PathFormed(p, None, None) /\ Stamped(None, None)
      BY DEF PathFormed, Index, OnDisk, Stamped
    <3>4. ASSUME Unseen(p, m), Safe(m, ie, f) PROVE Safe(m, None, None)
      <4>1. f # None BY <1>5, <2>2
      <4> QED BY <2>0, <2>2, <3>4, <4>1, CommittedText, NothingIsSafe
    <3>5. Settles(p, None, None, head) BY DEF Settles
    <3> QED BY <3>2, <3>3, <3>4, <3>5 DEF Sound
  <2>3. CASE ~(st = "A" /\ f.c = t1.c) /\ st \notin {NoChange, "D", "!"}
    <3>1. o = Done(f, ie) BY <1>10, <2>0, <2>3 DEF MergeFileCb
    <3> QED BY <1>3, <3>1
  <2> QED BY <2>1, <2>2, <2>3
<1> QED BY <1>7, <1>8, <1>9, <1>10

-----------------------------------------------------------------------------
(* Commitables.                                                               *)

(* Fields of a commitable.                                                    *)
LEMMA CtFields ==
    ASSUME NEW ct \in Commitable
    PROVE  /\ ct.st \in Status /\ ct.stage \in {"-", "A", "M", "D"} /\ ct.blob \in Content \cup {None}
           /\ ct.x \in BOOLEAN /\ ct.c \in Content \cup {None} /\ ct.commit \in Commits \cup {None}
  BY DEF Commitable

(* What collect_commitables makes of a path.                                  *)
LEMMA CollectedOK ==
    ASSUME OpsInv, NEW S, S \subseteq Paths, NEW p \in CommitablePaths(S)
    PROVE  CtFormed(CommitableOf(p), fi[p])
<1> DEFINE ie == fi[p]
           f == disk[p]
           st == WalkStatus(p)
           x == IF ie.stage \in {"A", "M"} THEN ie.x
                ELSE IF st = "D" \/ ie.stage = "D" THEN FALSE ELSE f.x
           c == IF ie.stage \in {"A", "M"} THEN ie.sblob ELSE None
           ct == CommitableOf(p)
<1>1. p \in Paths /\ ie # None /\ (ie.stage # "-" \/ st \in {"M", "m", "A", "D"})
  BY DEF CommitablePaths
<1>2. ie \in Entry /\ EntryFormed(ie) /\ f \in OnDisk /\ (f # None => f \in File)
  BY <1>1, PathIs DEF OpsInv
<1>3. st = GetFileStatus(ie, f) BY <1>1 DEF WalkStatus
<1>4. ct = [st |-> st, stage |-> ie.stage, blob |-> ie.blob, commit |-> ie.commit, x |-> x, c |-> c]
  BY DEF CommitableOf
<1> HIDE DEF st
<1>5. st \in Status /\ (st = "D" <=> ie.nofile)
      /\ (st = "A" <=> f # None /\ ~ie.nofile /\ ie.blob = None /\ ie.stage # "A")
      /\ (st \in {"M", "m"} => f # None /\ (ie.blob # None \/ ie.stage = "A"))
  BY <1>2, <1>3, StatusIs
<1>6. x \in BOOLEAN
  <2>1. CASE ie.stage \in {"A", "M"} BY <1>2, <2>1, EntryFields
  <2>2. CASE ie.stage = "D" BY <2>2
  <2>3. CASE ie.stage = "-" /\ st = "D" BY <2>3
  <2>4. CASE ie.stage = "-" /\ st # "D"
    <3>1. f \in File BY <1>1, <1>2, <1>5, <2>4
    <3> QED BY <2>4, <3>1, FileIs
  <2> QED BY <1>2, <2>1, <2>2, <2>3, <2>4, EntryFields
<1>7. c \in Content \cup {None} BY <1>2, EntryFields
<1>8. /\ ie.stage \in {"A", "M"} => c = ie.sblob /\ c # None
      /\ ie.stage \notin {"A", "M"} => c = None
  BY <1>2 DEF EntryFormed
<1> HIDE DEF x, c
<1>9. /\ ct.st = st /\ ct.stage = ie.stage /\ ct.blob = ie.blob /\ ct.c = c
      /\ ct \in Commitable
  <2>1. ct.st = st /\ ct.stage = ie.stage /\ ct.blob = ie.blob /\ ct.c = c BY <1>4
  <2>2. ie.stage \in {"-", "A", "M", "D"} /\ ie.blob \in Content \cup {None}
        /\ ie.commit \in Commits \cup {None}
    BY <1>2, EntryFields
  <2> HIDE DEF ie, f, ct
  <2>3. ct \in Commitable BY <1>4, <1>5, <1>6, <1>7, <2>2 DEF Commitable
  <2> QED BY <2>1, <2>3
<1> HIDE DEF ct
<1>10. /\ ie.stage = "M" => ie.blob # None
       /\ ie.stage = "D" => ie.nofile
       /\ ie.stage \in {"-", "A", "M", "D"}
  BY <1>2, EntryFields DEF EntryFormed
<1>11. CtFormed(ct, ie)
  <2> HIDE DEF ie, f
  <2> QED BY <1>1, <1>5, <1>8, <1>9, <1>10 DEF CtFormed, Deletes
<1> QED BY <1>11 DEF ct

(* Its mode, where nothing is executable.                                     *)
LEMMA CollectedPlain ==
    ASSUME OpsInv, AloneInv, pc = "idle", NEW S, S \subseteq Paths, NEW p \in CommitablePaths(S)
    PROVE  ~CommitableOf(p).x
<1> DEFINE ie == fi[p]
           f == disk[p]
           st == WalkStatus(p)
           x == IF ie.stage \in {"A", "M"} THEN ie.x
                ELSE IF st = "D" \/ ie.stage = "D" THEN FALSE ELSE f.x
<1>1. p \in Paths /\ ie # None /\ (ie.stage # "-" \/ st \in {"M", "m", "A", "D"})
  BY DEF CommitablePaths
<1>2. ie \in Entry /\ f \in OnDisk BY <1>1, PathIs DEF OpsInv
<1>3. st = GetFileStatus(ie, f) BY <1>1 DEF WalkStatus
<1>4. CommitableOf(p).x = x BY DEF CommitableOf
<1>5. Settles(p, ie, f, head) BY <1>1 DEF AloneInv
<1> HIDE DEF ie, f, st
<1>6. ~ie.x /\ (f # None => ~f.x) BY <1>1, <1>5 DEF Settles
<1>7. ie.stage \in {"-", "A", "M", "D"} BY <1>2, EntryFields
<1>8. st \in {"M", "m", "A"} => f # None BY <1>2, <1>3, StatusIs
<1>9. ~x
  <2>1. CASE ie.stage \in {"A", "M"} BY <1>6, <2>1
  <2>2. CASE ie.stage = "D" \/ (ie.stage = "-" /\ st = "D") BY <2>2
  <2>3. CASE ie.stage = "-" /\ st # "D" BY <1>1, <1>6, <1>8, <2>3
  <2> QED BY <1>7, <2>1, <2>2, <2>3
<1> QED BY <1>4, <1>9

(* got_object_blob_create.                                                    *)
LEMMA WithBlobOK ==
    ASSUME OpsInv, pc = "editor", NEW p \in DOMAIN cts, NEW w, w = WithBlob(p),
           Unstaged(cts[p]) => disk[p] # None
    PROVE  /\ CtFormed(w, fi[p]) /\ w.st = cts[p].st /\ w.stage = cts[p].stage
           /\ w.blob = cts[p].blob /\ w.x = cts[p].x
           /\ Unstaged(w) => disk[p] # None /\ w.c = disk[p].c /\ w.c # None
<1> DEFINE ct == cts[p]
<1>1. p \in Paths /\ CtFormed(ct, fi[p]) BY DEF OpsInv, CommitFormed
<1>2. ct \in Commitable BY <1>1 DEF CtFormed
<1>3. CASE ~Unstaged(ct)
  <2>1. w = ct BY <1>1, <1>2, <1>3, CtFields DEF WithBlob, Unstaged, CtFormed
  <2> HIDE DEF ct
  <2> QED BY <1>1, <1>3, <2>1 DEF ct
<1>4. CASE Unstaged(ct)
  <2> DEFINE c == disk[p].c
  <2>1. disk[p] # None BY <1>4
  <2>2. disk[p] \in OnDisk BY <1>1 DEF OpsInv
  <2>3. c \in Content /\ c # None BY <2>1, <2>2, FileIs DEF OnDisk
  <2>4. w = [ct EXCEPT !.c = c] BY <1>1, <1>4 DEF WithBlob, Unstaged, CtFormed
  <2> HIDE DEF ct, c
  <2>5. /\ w.st = ct.st /\ w.stage = ct.stage /\ w.blob = ct.blob /\ w.c = c /\ w \in Commitable
        /\ w.x = ct.x
    BY <1>2, <2>3, <2>4 DEF Commitable
  <2>6. CtFormed(w, fi[p]) BY <1>1, <1>4, <2>5 DEF CtFormed, Deletes, Unstaged
  <2> QED BY <2>1, <2>3, <2>5, <2>6 DEF c, ct
<1> QED BY <1>3, <1>4

(* The entry write_tree makes for a commitable path.                          *)
TreeEntry(ct, te) ==
    IF IsAdded(ct) THEN [x |-> ct.x, c |-> ct.c]
    ELSE IF te # None /\ MatchesEntry(ct, te)
         THEN IF ct.st \in {"M", "m"} \/ ct.stage = "M" THEN [x |-> ct.x, c |-> ct.c] ELSE None
         ELSE te

(* It is what was collected, if that was compared with the entry te before.   *)
LEMMA TreeEntryOK ==
    ASSUME NEW ct, NEW ie, CtFormed(ct, ie), Unstaged(ct) => ct.c # None, NEW te \in OnDisk,
           NEW t, t = TreeEntry(ct, te)
    PROVE  /\ t \in OnDisk
           /\ Based(ct, te) => IF ct.c = None THEN t = None ELSE t # None /\ t.c = ct.c
           /\ ~ct.x /\ (te # None => ~te.x) /\ t # None => ~t.x
<1>1. ct \in Commitable BY DEF CtFormed
<1>2. /\ ct.x \in BOOLEAN /\ ct.c \in Content \cup {None} /\ ct.stage \in {"-", "A", "M", "D"}
  BY <1>1, CtFields
<1> DEFINE n == [x |-> ct.x, c |-> ct.c]
<1>3. ct.c # None => n \in File /\ n # None /\ n.c = ct.c /\ n \in OnDisk
  <2> SUFFICES ASSUME ct.c # None PROVE n \in File /\ n # None /\ n.c = ct.c /\ n \in OnDisk
    OBVIOUS
  <2>1. n \in File /\ n.c = ct.c BY <1>2, NewFileIs
  <2> QED BY <2>1, FileIs DEF OnDisk
<1>4. None \in OnDisk /\ n.x = ct.x BY DEF OnDisk
<1>5. t = IF IsAdded(ct) THEN n
          ELSE IF te # None /\ MatchesEntry(ct, te)
               THEN IF ct.st \in {"M", "m"} \/ ct.stage = "M" THEN n ELSE None
               ELSE te
  BY DEF TreeEntry
<1> HIDE DEF n
<1>9. ~ct.x /\ (te # None => ~te.x) /\ t # None => ~t.x BY <1>4, <1>5
<1>6. CASE Deletes(ct)
  <2>1. ct.c = None /\ ct.st = "D" /\ ct.stage \in {"-", "D"} BY <1>6 DEF CtFormed, Deletes
  <2>2. ~IsAdded(ct) BY <2>1 DEF IsAdded
  <2>3. t \in OnDisk BY <1>4, <1>5, <2>1, <2>2
  <2>4. ASSUME Based(ct, te) PROVE t = None
    <3>1. te # None => te.c = ct.blob BY <2>2, <2>4 DEF Based
    <3>2. te # None => MatchesEntry(ct, te) BY <2>1, <3>1 DEF MatchesEntry
    <3> QED BY <1>5, <2>1, <2>2, <3>2
  <2> QED BY <1>9, <2>1, <2>3, <2>4
<1>7. CASE IsAdded(ct)
  <2>1. ct.c # None BY <1>2, <1>7 DEF IsAdded, CtFormed, Unstaged
  <2> QED BY <1>3, <1>5, <1>7, <1>9, <2>1
<1>8. CASE ~Deletes(ct) /\ ~IsAdded(ct)
  <2>1. \/ ct.stage = "-" /\ ct.st \in {"M", "m"}
        \/ ct.stage = "M"
    BY <1>2, <1>8 DEF Deletes, IsAdded, CtFormed
  <2>2. ct.c # None /\ ct.blob # None BY <2>1 DEF CtFormed, Unstaged
  <2>3. t \in OnDisk BY <1>3, <1>5, <1>8, <2>1, <2>2
  <2>4. ASSUME Based(ct, te) PROVE t = n
    <3>1. te # None /\ te.c = ct.blob BY <1>8, <2>2, <2>4 DEF Based
    <3>2. MatchesEntry(ct, te) BY <2>1, <3>1 DEF MatchesEntry
    <3> QED BY <1>5, <1>8, <2>1, <3>1, <3>2
  <2> QED BY <1>3, <1>9, <2>2, <2>3, <2>4
<1> QED BY <1>6, <1>7, <1>8

(* update_fileindex_after_commit, for one path: the file has not changed      *)
(* since its blob was created, and the staged text is in the new commit.      *)
LEMMA AfterCommitOK ==
    ASSUME OpsInv, pc = "index", NEW p \in DOMAIN cts, NEW e, e = EntryAfterCommit(p)
    PROVE  /\ PathFormed(p, e, disk[p])
           /\ StampInv => Stamped(e, disk[p])
           /\ CommitRecordsChanges /\ NewText /\ Safe(mine[p], fi[p], disk[p])
                => Safe(mine[p], e, disk[p])
           /\ CommitRecordsChanges /\ AloneInv => Settles(p, e, disk[p], head)
<1> DEFINE ct == cts[p]
           ie == fi[p]
           f == disk[p]
           a == Cleared(ie)
<1>0. HistOK /\ new \in DOMAIN hist BY DEF OpsInv, CommitFormed
<1>1. p \in Paths /\ CtFormed(ct, ie) /\ (Unstaged(ct) => ct.c # None) BY DEF OpsInv, CommitFormed
<1>2. PathFormed(p, ie, f) /\ ie # None BY <1>1 DEF OpsInv, CtFormed
<1>3. ie \in Entry /\ EntryFormed(ie) /\ f \in OnDisk BY <1>0, <1>2, PathIs
<1>4. ct \in Commitable /\ ct.stage = ie.stage /\ (ct.st = "D" <=> ie.nofile)
  BY <1>1 DEF CtFormed
<1>5. ct.stage \in {"-", "A", "M", "D"} /\ ct.c \in Content \cup {None} BY <1>4, CtFields
<1>6. e = IF ct.st = "D" \/ ct.stage = "D" THEN None
          ELSE IF EntryUpdateFails(a, f) THEN a
          ELSE EntryUpdate(a, f, ct.c, new, ct.stage = "-")
  BY DEF EntryAfterCommit, Cleared
<1>7. /\ PathFormed(p, a, f) /\ a # None /\ a.stage = "-" /\ a.sblob = None
      /\ a.nofile = ie.nofile /\ a.blob = ie.blob /\ a.x = ie.x /\ a.fresh = ie.fresh
  <2>1. a = Cleared(ie) OBVIOUS
  <2> HIDE DEF a, ie, f
  <2> QED BY <1>0, <1>2, <2>1, ClearFormed
<1>8. a \in Entry /\ EntryFormed(a) BY <1>0, <1>7, PathIs
<1>9. ASSUME f = None, CommitRecordsChanges, NewText, Safe(mine[p], ie, f)
      PROVE  Nothing(mine[p])
  <2>1. CASE ie.stage \notin {"A", "M"} BY <1>9, <2>1, MissingText
  <2>2. CASE ie.stage \in {"A", "M"}
    <3> DEFINE te == Tree(new)[p]
    <3>1. ct.c = ie.sblob /\ ct.c # None BY <1>1, <1>4, <2>2 DEF CtFormed
    <3>2. te # None /\ te.c = ct.c BY <1>1, <1>9, <3>1 DEF CommitRecordsChanges
    <3>3. ie.sblob \in Texts(p) BY <1>0, <1>1, <3>1, <3>2, TreeText
    <3>4. ASSUME NEW r \in Regions, mine[p][r] # None PROVE FALSE
      <4>1. mine[p][r] \in ie.sblob[r] BY <1>9, <3>4 DEF Safe
      <4>2. mine[p][r] \notin ie.sblob[r] BY <1>1, <1>9, <3>3, <3>4 DEF NewText
      <4> QED BY <4>1, <4>2
    <3> QED BY <3>4 DEF Nothing
  <2> QED BY <2>1, <2>2
<1>10. CommitRecordsChanges /\ NewText /\ Safe(mine[p], ie, f) => Safe(mine[p], e, f)
  BY <1>9, FileKeeps, NothingIsSafe
<1>14. ASSUME AloneInv PROVE (f # None => ~f.x) /\ (f = None => ie.nofile) /\ new = head
  <2>1. Settles(p, ie, f, tip) /\ new = head BY <1>1, <1>14 DEF AloneInv
  <2> QED BY <1>2, <2>1 DEF Settles
<1>15. ASSUME CommitRecordsChanges, ct.c # None PROVE At(p, ct.c, new)
  BY <1>1, <1>15 DEF CommitRecordsChanges, At
<1> HIDE DEF ct, ie, f, a
<1>11. CASE ct.st = "D" \/ ct.stage = "D"
  <2>1. e = None BY <1>6, <1>11
  <2>2. PathFormed(p, e, f) /\ Stamped(e, f) BY <1>3, <2>1 DEF PathFormed, Index, Stamped
  <2>3. AloneInv => Settles(p, e, f, head) BY <1>14, <2>1, SettlesNew
  <2> QED BY <1>10, <2>2, <2>3 DEF f, ie
<1>12. CASE ~(ct.st = "D" \/ ct.stage = "D") /\ EntryUpdateFails(a, f)
  <2>1. e = a BY <1>6, <1>12
  <2>2. f = None BY <1>3, <1>12, FileIs, FileConstants DEF EntryUpdateFails, OnDisk
  <2>3. Stamped(e, f) BY <2>2 DEF Stamped
  <2>4. ~AloneInv BY <1>4, <1>12, <1>14, <2>2
  <2> QED BY <1>7, <1>10, <2>1, <2>3, <2>4 DEF f, ie
<1>13. CASE ~(ct.st = "D" \/ ct.stage = "D") /\ ~EntryUpdateFails(a, f)
  <2>1. f # None /\ f \in File /\ ~ie.nofile
    BY <1>3, <1>4, <1>7, <1>13 DEF EntryUpdateFails, OnDisk
  <2>2. ct.c # None BY <1>1, <1>5, <1>13 DEF CtFormed, Unstaged
  <2>3. ct.c \in Content BY <1>5, <2>2
  <2>4. e = EntryUpdate(a, f, ct.c, new, ct.stage = "-") BY <1>6, <1>13
  <2>5. /\ PathFormed(p, e, f) /\ e # None /\ e.blob = ct.c /\ e.stage = "-" /\ e.x = f.x
        /\ ~e.nofile /\ (e.fresh <=> ie.fresh \/ ct.stage = "-") /\ e.commit = new
    <3>1. \E ts \in BOOLEAN : e = EntryUpdate(a, f, ct.c, new, ts) /\ (ts <=> ct.stage = "-")
      BY <2>4, Zenon
    <3>2. PICK ts \in BOOLEAN : e = EntryUpdate(a, f, ct.c, new, ts) /\ (ts <=> ct.stage = "-")
      BY <3>1
    <3>3. e = EntryUpdate(a, f, ct.c, new, ts) /\ (a.stage = "D" => f = None) BY <1>7, <3>2
    <3>4. /\ PathFormed(p, e, f) /\ e # None /\ e.blob = ct.c /\ e.stage = a.stage /\ e.x = f.x
          /\ ~e.nofile /\ (e.fresh <=> a.fresh \/ ts)
      BY <1>0, <1>3, <1>8, <2>1, <2>3, <3>3, BlobFormed
    <3>5. e.commit = new BY <1>0, <1>3, <1>8, <2>3, <3>2, BlobCommit
    <3> QED BY <1>7, <3>2, <3>4, <3>5
  <2>6. ASSUME StampInv PROVE Stamped(e, f)
    <3>1. Stamped(ie, f) BY <1>1, <2>6 DEF StampInv, ie, f
    <3>2. CASE ct.stage = "-"
      <4>1. Unstaged(ct) BY <1>13, <3>2 DEF Unstaged
      <4>2. ct.c = f.c BY <2>6, <4>1 DEF StampInv, ct, f
      <4> QED BY <2>5, <4>2 DEF Stamped, ComparedBlob
    <3>3. CASE ct.stage \in {"A", "M"}
      <4>1. ct.c = ie.sblob BY <1>1, <3>3 DEF CtFormed
      <4>2. ie.blob # None \/ ie.stage = "A" BY <1>3, <1>4, <3>3 DEF EntryFormed
      <4>3. ie.fresh => f.c = ie.sblob
        BY <1>2, <1>4, <2>1, <3>1, <3>3, <4>2 DEF Stamped, ComparedBlob
      <4>4. e.fresh => ie.fresh BY <2>5, <3>3
      <4>5. e.fresh => f.c = e.blob BY <2>5, <4>1, <4>3, <4>4
      <4> QED BY <2>5, <4>5 DEF Stamped, ComparedBlob
    <3> QED BY <1>5, <1>13, <3>2, <3>3
  <2>7. CommitRecordsChanges /\ AloneInv => Settles(p, e, f, head)
    BY <1>14, <1>15, <2>1, <2>2, <2>5, SettlesAt
  <2> QED BY <1>10, <2>5, <2>6, <2>7 DEF f, ie
<1> QED BY <1>11, <1>12, <1>13

-----------------------------------------------------------------------------
(* Steps.                                                                     *)

(* What a step keeps: the state is well-formed; time stamps are reliable; a   *)
(* commit has what was collected; the user's text is there; the index follows *)
(* the branch.                                                                *)
Keeps ==
    /\ OpsInv'
    /\ StampInv /\ NoFileInTheWay /\ EditPoints \subseteq {"editor"} => StampInv'
    /\ RecordInv /\ IndexMatchesCommit => RecordInv'
    /\ MineInv /\ StampInv /\ RecordInv /\ IndexMatchesCommit /\ NewText => MineInv'
    /\ Alone /\ AloneInv /\ RecordInv => AloneInv'

(* Nothing is lost of what a command forgets on purpose.                      *)
LEMMA ForgetIs == Nothing(Forget) /\ Forget \in [Regions -> Vals \cup {None}]
<1>1. Forget = [r \in Regions |-> None] BY DEF Forget
<1> QED BY <1>1 DEF Nothing

(* A blob that belongs to its commit is known.                                *)
LEMMA KnownBlob ==
    ASSUME OpsInv, IndexMatchesCommit, NEW p \in Paths
    PROVE  Known(p, fi[p])
<1> SUFFICES ASSUME fi[p] # None, fi[p].blob # None PROVE fi[p].blob \in Texts(p)
  BY DEF Known
<1>1. HistOK /\ PathFormed(p, fi[p], disk[p]) BY DEF OpsInv
<1>2. EntryFormed(fi[p]) BY <1>1 DEF PathFormed
<1>3. fi[p].hasCommit /\ fi[p].commit \in DOMAIN hist BY <1>2 DEF EntryFormed
<1>4. Tree(fi[p].commit)[p] # None /\ fi[p].blob = Tree(fi[p].commit)[p].c
  BY <1>3 DEF IndexMatchesCommit
<1> QED BY <1>1, <1>3, <1>4, TreeText

(* A command that works path by path while no commit is under way.            *)
LEMMA PathwiseKeeps ==
    ASSUME OpsInv, pc = "idle", pc' = "idle", hist' = hist, head' = head, crashes' = crashes,
           base' \in {base, head}, disk' = [q \in Paths |-> disk'[q]], fi' = [q \in Paths |-> fi'[q]],
           mine' = [q \in Paths |-> mine'[q]],
           \A q \in Paths : PathFormed(q, fi'[q], disk'[q]),
           Alone /\ AloneInv =>
               \A q \in Paths : Settles(q, fi'[q], disk'[q], head),
           \A q \in Paths :
               Stamped(fi[q], disk[q]) /\ Clear(q, fi[q], disk[q]) => Stamped(fi'[q], disk'[q]),
           \A q \in Paths :
               \/ mine'[q] = Forget
               \/ /\ mine'[q] = mine[q]
                  /\ Stamped(fi[q], disk[q]) /\ Known(q, fi[q]) /\ Unseen(q, mine[q])
                        /\ Safe(mine[q], fi[q], disk[q])
                     => Safe(mine[q], fi'[q], disk'[q])
    PROVE  Keeps
<1>1. HistOK' BY DEF OpsInv, HistOK
<1>2. disk' \in [Paths -> OnDisk] /\ fi' \in [Paths -> Index]
  <2>1. \A q \in Paths : disk'[q] \in OnDisk /\ fi'[q] \in Index BY DEF PathFormed
  <2> QED BY <2>1
<1>3. mine' \in [Paths -> [Regions -> Vals \cup {None}]]
  <2>1. \A q \in Paths : mine'[q] \in [Regions -> Vals \cup {None}]
    BY ForgetIs DEF OpsInv
  <2> QED BY <2>1
<1>4. ASSUME NEW q \in Paths PROVE PathFormed(q, fi[q], disk[q])'
  <2>1. PathFormed(q, fi'[q], disk'[q]) OBVIOUS
  <2> QED BY <2>1 DEF PathFormed, EntryFormed, Tree
<1>5. OpsInv' BY <1>1, <1>2, <1>3, <1>4 DEF OpsInv, CommitFormed
<1>6. ASSUME StampInv, NoFileInTheWay PROVE StampInv'
  <2>1. ASSUME NEW q \in Paths PROVE Stamped(fi'[q], disk'[q])
    BY <1>6 DEF StampInv, NoFileInTheWay, Clear
  <2> QED BY <2>1 DEF StampInv
<1>7. RecordInv' BY DEF RecordInv, CommitRecordsChanges
<1>8. ASSUME MineInv, StampInv, IndexMatchesCommit, NewText PROVE MineInv'
  <2>1. ASSUME NEW q \in Paths PROVE Safe(mine'[q], fi'[q], disk'[q])
    <3>1. CASE mine'[q] = Forget BY <3>1, ForgetIs, NothingIsSafe
    <3>2. CASE mine'[q] # Forget
      <4>1. Stamped(fi[q], disk[q]) /\ Safe(mine[q], fi[q], disk[q])
        BY <1>8 DEF MineInv, StampInv
      <4>2. Known(q, fi[q]) BY <1>8, KnownBlob
      <4>3. Unseen(q, mine[q]) BY <1>8 DEF NewText, Unseen
      <4> QED BY <3>2, <4>1, <4>2, <4>3
    <3> QED BY <3>1, <3>2
  <2> QED BY <2>1 DEF MineInv
<1>9. ASSUME Alone, AloneInv PROVE AloneInv'
  <2>1. crashes' = 0 /\ base' = head' BY <1>9 DEF AloneInv
  <2>2. Plain' BY <1>9 DEF AloneInv, Plain, PlainTree, Trees, Tree
  <2>3. ASSUME NEW q \in Paths PROVE Settles(q, fi[q], disk[q], head)'
    <3>1. Settles(q, fi'[q], disk'[q], head) BY <1>9
    <3> QED BY <3>1 DEF Settles, At, Tree
  <2> QED BY <2>1, <2>2, <2>3 DEF AloneInv
<1> QED BY <1>5, <1>6, <1>7, <1>8, <1>9 DEF Keeps

(* A path in a settled work tree.                                             *)
LEMMA SettledPath ==
    ASSUME AloneInv, pc = "idle", NEW p \in Paths
    PROVE  Plain /\ Settles(p, fi[p], disk[p], head) /\ base = head
  BY DEF AloneInv

(* A command on one path.                                                     *)
LEMMA SetPathKeeps ==
    ASSUME OpsInv, NEW p \in Paths, NEW f, NEW ie, SetPath(p, f, ie), PathFormed(p, ie, f),
           Alone /\ AloneInv => Settles(p, ie, f, head),
           Stamped(fi[p], disk[p]) /\ Clear(p, fi[p], disk[p]) => Stamped(ie, f),
           \/ mine' = [mine EXCEPT ![p] = Forget]
           \/ /\ mine' = mine
              /\ Stamped(fi[p], disk[p]) /\ Known(p, fi[p]) /\ Unseen(p, mine[p])
                    /\ Safe(mine[p], fi[p], disk[p])
                 => Safe(mine[p], ie, f)
    PROVE  Keeps
<1>1. /\ pc = "idle" /\ pc' = "idle" /\ hist' = hist /\ head' = head /\ base' = base
      /\ disk' = [disk EXCEPT ![p] = f] /\ fi' = [fi EXCEPT ![p] = ie] /\ crashes' = crashes
  BY DEF SetPath, commitVars, bounds
<1>2. base' \in {base, head} BY <1>1
<1>3. /\ DOMAIN disk = Paths /\ DOMAIN fi = Paths /\ DOMAIN mine = Paths
      /\ disk \in [Paths -> OnDisk] /\ fi \in [Paths -> Index]
      /\ mine \in [Paths -> [Regions -> Vals \cup {None}]]
  BY DEF OpsInv
<1>4. disk' = [q \in Paths |-> disk'[q]] /\ fi' = [q \in Paths |-> fi'[q]] BY <1>1, <1>3
<1>5. mine' = [q \in Paths |-> mine'[q]] BY <1>3
<1>6. disk'[p] = f /\ fi'[p] = ie BY <1>1, <1>3
<1>7. \A q \in Paths : q # p => disk'[q] = disk[q] /\ fi'[q] = fi[q] /\ mine'[q] = mine[q]
  BY <1>1, <1>3
<1>8. ASSUME NEW q \in Paths
      PROVE  /\ PathFormed(q, fi'[q], disk'[q])
             /\ Stamped(fi[q], disk[q]) /\ Clear(q, fi[q], disk[q]) => Stamped(fi'[q], disk'[q])
             /\ \/ mine'[q] = Forget
                \/ /\ mine'[q] = mine[q]
                   /\ Stamped(fi[q], disk[q]) /\ Known(q, fi[q]) /\ Unseen(q, mine[q])
                         /\ Safe(mine[q], fi[q], disk[q])
                      => Safe(mine[q], fi'[q], disk'[q])
  <2>1. CASE q = p
    <3>1. CASE mine' # [mine EXCEPT ![p] = Forget] BY <1>6, <2>1, <3>1, Zenon
    <3>2. CASE mine' = [mine EXCEPT ![p] = Forget]
      <4>1. mine'[p] = Forget BY <1>3, <3>2
      <4> QED BY <1>6, <2>1, <4>1
    <3> QED BY <3>1, <3>2
  <2>2. CASE q # p
    <3>1. PathFormed(q, fi[q], disk[q]) BY DEF OpsInv
    <3> QED BY <1>7, <2>2, <3>1
  <2> QED BY <2>1, <2>2
<1>9. ASSUME Alone, AloneInv, NEW q \in Paths PROVE Settles(q, fi'[q], disk'[q], head)
  <2>1. CASE q = p BY <1>6, <1>9, <2>1
  <2>2. CASE q # p
    <3>1. Settles(q, fi[q], disk[q], head) BY <1>1, <1>9, SettledPath
    <3> QED BY <1>7, <2>2, <3>1
  <2> QED BY <2>1, <2>2
<1> QED BY <1>1, <1>2, <1>4, <1>5, <1>8, <1>9, PathwiseKeeps

(* A command on one path that forgets nothing on purpose.                     *)
LEMMA SoundPathKeeps ==
    ASSUME OpsInv, NEW p \in Paths, NEW f, NEW ie, SetPath(p, f, ie), mine' = mine,
           Sound(p, mine[p], fi[p], disk[p], ie, f)
    PROVE  Keeps
<1>1. /\ PathFormed(p, ie, f)
      /\ Stamped(fi[p], disk[p]) /\ Clear(p, fi[p], disk[p]) => Stamped(ie, f)
      /\ Stamped(fi[p], disk[p]) /\ Known(p, fi[p]) /\ Unseen(p, mine[p])
            /\ Safe(mine[p], fi[p], disk[p])
         => Safe(mine[p], ie, f)
      /\ Plain /\ Settles(p, fi[p], disk[p], head) => Settles(p, ie, f, head)
  BY DEF Sound
<1>2. pc = "idle" BY DEF SetPath
<1>3. Alone /\ AloneInv => Settles(p, ie, f, head) BY <1>1, <1>2, SettledPath
<1> QED BY <1>1, <1>3, SetPathKeeps

(* The state of one path.                                                     *)
LEMMA PathState ==
    ASSUME OpsInv, NEW p \in Paths
    PROVE  /\ HistOK /\ PathFormed(p, fi[p], disk[p])
           /\ fi[p] # None => fi[p] \in Entry /\ WalkStatus(p) = GetFileStatus(fi[p], disk[p])
           /\ disk[p] # None => disk[p] \in File
           /\ disk[p] \in OnDisk
<1>1. HistOK /\ PathFormed(p, fi[p], disk[p]) BY DEF OpsInv
<1> QED BY <1>1, PathIs DEF WalkStatus

(* got add.                                                                   *)
LEMMA AddKeeps ==
    ASSUME OpsInv, NEW p \in Paths, Add(p)
    PROVE  Keeps
<1> DEFINE e == EntryUpdate(EmptyEntry, disk[p], None, None, TRUE)
           f == disk[p]
<1>1. WalkStatus(p) = "?" /\ SetPath(p, f, e) /\ mine' = mine BY DEF Add
<1>2. HistOK /\ f \in OnDisk BY PathState
<1>3. fi[p] = None
  <2>1. ASSUME fi[p] # None PROVE FALSE
    <3>1. fi[p] \in Entry /\ WalkStatus(p) = GetFileStatus(fi[p], f) BY <2>1, PathState
    <3>2. WalkStatus(p) \in {NoChange, "M", "A", "D", "C", "!", "m"} BY <1>2, <3>1, StatusIs
    <3> QED BY <1>1, <3>2, NoChangeIs
  <2> QED BY <2>1
<1>4. f # None /\ f \in File BY <1>1, <1>3, PathState DEF WalkStatus
<1>5. \E ts \in BOOLEAN : e = EntryUpdate(EmptyEntry, f, None, None, ts) BY Zenon
<1> HIDE DEF e, f
<1>6. PathFormed(p, e, f) /\ Stamped(e, f) /\ (~f.x => Settles(p, e, f, head))
  BY <1>2, <1>4, <1>5, AddedFormed
<1>7. Sound(p, mine[p], fi[p], f, e, f)
  <2>1. Settles(p, fi[p], f, head) => ~f.x BY <1>4 DEF Settles
  <2> QED BY <1>4, <1>6, <2>1, FileKeeps DEF Sound
<1>8. Sound(p, mine[p], fi[p], disk[p], e, f) BY <1>7 DEF f
<1> QED BY <1>1, <1>8, SoundPathKeeps

(* got remove: only with -f does it delete a file whose text is not the       *)
(* entry's blob.                                                              *)
LEMMA RemoveKeeps ==
    ASSUME OpsInv, NEW p \in Paths, NEW flags \in SUBSET RemoveFlags, Remove(p, flags)
    PROVE  Keeps
<1> DEFINE ie == fi[p]
           f == disk[p]
           e == Deleted(ie)
           g == IF "k" \in flags THEN f ELSE None
           st == WalkStatus(p)
<1>1. /\ ie # None /\ ie.stage = "-" /\ (st \in {NoChange, "!"} \/ "f" \in flags)
      /\ SetPath(p, g, e)
      /\ mine' = IF flags = {"f"} THEN [mine EXCEPT ![p] = Forget] ELSE mine
  BY DEF Remove, Deleted
<1>2. HistOK /\ PathFormed(p, ie, f) /\ ie \in Entry /\ st = GetFileStatus(ie, f) /\ f \in OnDisk
  BY <1>1, PathState
<1>3. g \in {f, None} /\ e = Deleted(ie) OBVIOUS
<1>4. "f" \in flags /\ "k" \notin flags => flags = {"f"} BY OpsConstants
<1>5. ("k" \in flags => g = f) /\ ("k" \notin flags => g = None) OBVIOUS
<1> HIDE DEF e, ie, f, g, st
<1>6. /\ PathFormed(p, e, g) /\ (Stamped(ie, f) => Stamped(e, g))
      /\ Settles(p, ie, f, head) => Settles(p, e, g, head)
  BY <1>1, <1>2, <1>3, DeletedFormed
<1>7. CASE flags = {"f"}
  <2>1. mine' = [mine EXCEPT ![p] = Forget] BY <1>1, <1>7
  <2>2. Stamped(fi[p], disk[p]) /\ Clear(p, fi[p], disk[p]) => Stamped(e, g)
    BY <1>6 DEF ie, f
  <2>3. pc = "idle" BY <1>1 DEF SetPath
  <2>4. Alone /\ AloneInv => Settles(p, e, g, head) BY <1>6, <2>3, SettledPath DEF ie, f
  <2> QED BY <1>1, <1>6, <2>1, <2>2, <2>4, SetPathKeeps
<1>8. CASE flags # {"f"}
  <2>1. mine' = mine BY <1>1, <1>8
  <2>2. ASSUME Stamped(ie, f), Known(p, ie), Unseen(p, mine[p]), Safe(mine[p], ie, f)
        PROVE  Safe(mine[p], e, g)
    <3>1. CASE g = f /\ f # None BY <2>2, <3>1, FileKeeps
    <3>2. CASE f = None
      <4>1. Nothing(mine[p]) BY <1>1, <2>2, <3>2, MissingText
      <4> QED BY <4>1, NothingIsSafe
    <3>3. CASE g # f /\ f # None
      <4>1. st = NoChange
        <5>1. st \in {NoChange, "!"} BY <1>1, <1>4, <1>5, <1>8, <3>3
        <5>2. st # "!" BY <1>2, <3>3, StatusIs
        <5> QED BY <5>1, <5>2
      <4>2. f.c = ComparedBlob(ie) /\ (ie.blob # None \/ ie.stage = "A")
        BY <1>2, <2>2, <4>1, StatusIs
      <4>3. f.c \in Texts(p) BY <1>1, <2>2, <4>2 DEF ComparedBlob, Known
      <4>4. Nothing(mine[p]) BY <2>2, <3>3, <4>3, CommittedText
      <4> QED BY <4>4, NothingIsSafe
    <3> QED BY <1>3, <3>1, <3>2, <3>3
  <2>3. Sound(p, mine[p], ie, f, e, g) BY <1>6, <2>2 DEF Sound
  <2>4. Sound(p, mine[p], fi[p], disk[p], e, g) BY <2>3 DEF ie, f
  <2> QED BY <1>1, <2>1, <2>4, SoundPathKeeps
<1> QED BY <1>7, <1>8

(* got revert: what it overwrites is meant to be lost.                        *)
LEMMA RevertKeeps ==
    ASSUME OpsInv, NEW p \in Paths, Revert(p)
    PROVE  Keeps
<1> DEFINE o == RevertOutcome(fi[p], disk[p], Tree(base)[p])
<1>1. /\ fi[p] # None /\ ~o.err /\ SetPath(p, o.f, o.ie)
      /\ mine' = IF o.f # disk[p] THEN [mine EXCEPT ![p] = Forget] ELSE mine
  BY DEF Revert
<1>2. HistOK /\ PathFormed(p, fi[p], disk[p]) BY PathState
<1>3. base \in DOMAIN hist BY <1>2 DEF HistOK
<1>4. Tree(base)[p] \in OnDisk BY <1>2, <1>3, TreeIs
<1>5. o = RevertOutcome(fi[p], disk[p], Tree(base)[p]) OBVIOUS
<1> HIDE DEF o
<1>6. /\ PathFormed(p, o.ie, o.f)
      /\ Stamped(fi[p], disk[p]) => Stamped(o.ie, o.f)
      /\ o.f = disk[p] => disk[p] # None \/ o.ie = fi[p]
      /\ Settles(p, fi[p], disk[p], head) /\ Tree(base)[p] = Tree(head)[p] /\ base = head
           /\ (Tree(base)[p] # None => ~Tree(base)[p].x)
         => Settles(p, o.ie, o.f, head)
  BY <1>1, <1>2, <1>4, <1>5, RevertOK
<1>7. ASSUME Alone, AloneInv PROVE Settles(p, o.ie, o.f, head)
  <2>1. pc = "idle" BY <1>1 DEF SetPath
  <2>2. Plain /\ Settles(p, fi[p], disk[p], head) /\ base = head BY <1>7, <2>1, SettledPath
  <2>3. Tree(base)[p] # None => ~Tree(base)[p].x BY <1>3, <2>2, TreeIsOne DEF Plain, PlainTree
  <2> QED BY <1>6, <2>2, <2>3
<1>8. CASE o.f # disk[p]
  <2>1. mine' = [mine EXCEPT ![p] = Forget] BY <1>1, <1>8
  <2> QED BY <1>1, <1>6, <1>7, <2>1, SetPathKeeps
<1>9. CASE o.f = disk[p]
  <2>1. mine' = mine BY <1>1, <1>9
  <2>2. Safe(mine[p], fi[p], disk[p]) => Safe(mine[p], o.ie, o.f)
    <3>1. CASE disk[p] # None BY <1>9, <3>1, FileKeeps
    <3>2. CASE o.ie = fi[p] BY <1>9, <3>2
    <3> QED BY <1>6, <1>9, <3>1, <3>2
  <2> QED BY <1>1, <1>6, <1>7, <2>1, <2>2, SetPathKeeps
<1> QED BY <1>8, <1>9

(* got stage: the staged text is also in the file.                            *)
LEMMA StageKeeps ==
    ASSUME OpsInv, NEW p \in Paths, Stage(p)
    PROVE  Keeps
<1> DEFINE ie == fi[p]
           f == disk[p]
           st == WalkStatus(p)
           e == Staged(ie, f, st)
<1>1. /\ ie # None /\ st \in {"A", "M", "D"} /\ SetPath(p, f, e)
      /\ mine' = IF st = "D" THEN [mine EXCEPT ![p] = Forget] ELSE mine
  BY DEF Stage, Staged
<1>2. HistOK /\ PathFormed(p, ie, f) /\ st = GetFileStatus(ie, f) BY <1>1, PathState
<1>3. e = Staged(ie, f, st) OBVIOUS
<1> HIDE DEF e, ie, f, st
<1>4. /\ PathFormed(p, e, f) /\ (Stamped(ie, f) => Stamped(e, f)) /\ (st # "D" => f # None)
      /\ Settles(p, ie, f, head) => Settles(p, e, f, head)
  BY <1>1, <1>2, <1>3, StageOK
<1>5. CASE st = "D"
  <2>1. mine' = [mine EXCEPT ![p] = Forget] BY <1>1, <1>5
  <2>2. Stamped(fi[p], disk[p]) /\ Clear(p, fi[p], disk[p]) => Stamped(e, f) BY <1>4 DEF ie, f
  <2>3. pc = "idle" BY <1>1 DEF SetPath
  <2>4. Alone /\ AloneInv => Settles(p, e, f, head) BY <1>4, <2>3, SettledPath DEF ie, f
  <2> QED BY <1>1, <1>4, <2>1, <2>2, <2>4, SetPathKeeps
<1>6. CASE st # "D"
  <2>1. mine' = mine BY <1>1, <1>6
  <2>2. Safe(mine[p], ie, f) => Safe(mine[p], e, f) BY <1>4, <1>6, FileKeeps
  <2>3. Sound(p, mine[p], ie, f, e, f) BY <1>4, <2>2 DEF Sound
  <2>4. Sound(p, mine[p], fi[p], disk[p], e, f) BY <2>3 DEF ie, f
  <2> QED BY <1>1, <2>1, <2>4, SoundPathKeeps
<1> QED BY <1>5, <1>6

(* got unstage: the staged text is merged into the file.                      *)
LEMMA UnstageKeeps ==
    ASSUME OpsInv, NEW p \in Paths, Unstage(p)
    PROVE  Keeps
<1> DEFINE ie == fi[p]
           f == disk[p]
           e == Cleared(ie)
           g == [x |-> ie.x, c |-> MergeFile(IF ie.stage = "A" THEN None ELSE ie.blob, f.c, ie.sblob)]
<1>1. /\ ie # None /\ ie.stage # "-" /\ mine' = mine
      /\ IF ie.stage = "D" THEN SetPath(p, f, e) ELSE f # None /\ SetPath(p, g, Touched(e))
  BY DEF Unstage, Cleared
<1>2. HistOK /\ PathFormed(p, ie, f) BY PathState
<1>3. e = Cleared(ie) OBVIOUS
<1>4. g = [x |-> ie.x, c |-> MergeFile(IF ie.stage = "A" THEN None ELSE ie.blob, f.c, ie.sblob)]
  OBVIOUS
<1>5. /\ ie.stage = "D" => Sound(p, mine[p], ie, f, e, f)
      /\ ie.stage # "D" /\ f # None => Sound(p, mine[p], ie, f, Touched(e), g)
  <2> HIDE DEF ie, f, e, g
  <2> QED BY <1>1, <1>2, <1>3, <1>4, UnstageOK
<1> HIDE DEF e, g
<1>6. CASE ie.stage = "D" BY <1>1, <1>5, <1>6, SoundPathKeeps
<1>7. CASE ie.stage # "D" BY <1>1, <1>5, <1>7, SoundPathKeeps
<1> QED BY <1>6, <1>7

(* A command that works path by path and forgets nothing on purpose.          *)
LEMMA SoundPathwiseKeeps ==
    ASSUME OpsInv, pc = "idle", pc' = "idle", hist' = hist, head' = head, crashes' = crashes,
           base' \in {base, head}, mine' = mine,
           disk' = [q \in Paths |-> disk'[q]], fi' = [q \in Paths |-> fi'[q]],
           \A q \in Paths : Sound(q, mine[q], fi[q], disk[q], fi'[q], disk'[q])
    PROVE  Keeps
<1>1. mine' = [q \in Paths |-> mine'[q]] BY DEF OpsInv
<1>2. \A q \in Paths : PathFormed(q, fi'[q], disk'[q]) BY DEF Sound
<1>3. \A q \in Paths :
        Stamped(fi[q], disk[q]) /\ Clear(q, fi[q], disk[q]) => Stamped(fi'[q], disk'[q])
  BY DEF Sound
<1>4. \A q \in Paths :
        /\ mine'[q] = mine[q]
        /\ Stamped(fi[q], disk[q]) /\ Known(q, fi[q]) /\ Unseen(q, mine[q])
              /\ Safe(mine[q], fi[q], disk[q])
           => Safe(mine[q], fi'[q], disk'[q])
  BY DEF Sound
<1>5. Alone /\ AloneInv => \A q \in Paths : Settles(q, fi'[q], disk'[q], head)
  BY SettledPath DEF Sound
<1> QED BY <1>1, <1>2, <1>3, <1>4, <1>5, PathwiseKeeps

(* got cherrypick and got backout, with the trees they work on.               *)
LEMMA MergeFilesKeeps ==
    ASSUME OpsInv, NEW from \in TreeType, NEW to \in TreeType, from \in Trees, to \in Trees,
           MergeFiles(from, to)
    PROVE  Keeps
<1> DEFINE o == [p \in Paths |-> MergeFileCb(fi[p], disk[p], from[p], to[p])]
<1>1. /\ pc' = pc /\ pc = "idle" /\ hist' = hist /\ head' = head /\ base' = base /\ mine' = mine
      /\ disk' = [p \in Paths |-> o[p].f] /\ fi' = [p \in Paths |-> o[p].ie] /\ crashes' = crashes
  BY DEF MergeFiles, commitVars, bounds
<1>2. HistOK /\ base' \in {base, head} BY <1>1 DEF OpsInv
<1>3. ASSUME NEW q \in Paths
      PROVE  Sound(q, mine[q], fi[q], disk[q], fi'[q], disk'[q])
  <2>1. from[q] \in OnDisk /\ to[q] \in OnDisk BY DEF TreeType, OnDisk
  <2>2. /\ from[q] # None => from[q].c \in Texts(q)
        /\ to[q] # None /\ Plain => ~to[q].x
    BY DEF Texts, Plain, PlainTree
  <2>3. o[q] = MergeFileCb(fi[q], disk[q], from[q], to[q]) OBVIOUS
  <2>4. disk'[q] = o[q].f /\ fi'[q] = o[q].ie BY <1>1
  <2>5. PathFormed(q, fi[q], disk[q]) BY PathState
  <2> HIDE DEF o
  <2>6. Sound(q, mine[q], fi[q], disk[q], o[q].ie, o[q].f)
    BY <1>2, <2>1, <2>2, <2>3, <2>5, MergeFileCbOK
  <2> QED BY <2>4, <2>6
<1>4. disk' = [q \in Paths |-> disk'[q]] /\ fi' = [q \in Paths |-> fi'[q]] BY <1>1
<1> HIDE DEF o
<1> QED BY <1>1, <1>2, <1>3, <1>4, SoundPathwiseKeeps

(* got cherrypick.                                                            *)
LEMMA CherrypickKeeps ==
    ASSUME OpsInv, Cherrypick
    PROVE  Keeps
<1>1. Side.from \in TreeType /\ Side.to \in TreeType BY OpsConstants
<1>2. Side.from \in Trees /\ Side.to \in Trees BY DEF Trees
<1>3. MergeFiles(Side.from, Side.to) BY DEF Cherrypick
<1> QED BY <1>1, <1>2, <1>3, MergeFilesKeeps

(* got backout: a commit that is not the first has a parent.                  *)
LEMMA BackoutKeeps ==
    ASSUME OpsInv, NEW c \in DOMAIN hist, Backout(c)
    PROVE  Keeps
<1> DEFINE R == [tree : TreeType, parent : Nat]
<1>1. HistOK BY DEF OpsInv
<1>2. hist[c].parent # 0 /\ MergeFiles(Tree(c), Tree(hist[c].parent)) BY DEF Backout
<1>3. hist \in Seq(R) /\ hist[c].parent < c BY <1>1 DEF HistOK
<1>4. hist[c].parent \in Nat
  <2>1. \A r \in R : r.parent \in Nat OBVIOUS
  <2> HIDE DEF R
  <2> QED BY <1>3, <2>1
<1>5. DOMAIN hist = 1..Len(hist) /\ Len(hist) \in Nat
  <2> HIDE DEF R
  <2> QED BY <1>3
<1>6. hist[c].parent \in DOMAIN hist BY <1>2, <1>3, <1>4, <1>5
<1>7. Tree(c) \in TreeType /\ Tree(hist[c].parent) \in TreeType BY <1>1, <1>6, TreeIs
<1>8. Tree(c) \in Trees /\ Tree(hist[c].parent) \in Trees BY <1>6, TreeIsOne
<1> QED BY <1>2, <1>7, <1>8, MergeFilesKeeps

(* Update of one path.                                                        *)
LEMMA OutcomeOK ==
    ASSUME OpsInv, NEW p \in Paths, NEW m, NEW o \in UpdateOutcomes(p)
    PROVE  /\ Sound(p, m, fi[p], disk[p], o.ie, o.f)
           /\ ~o.err => o.ie = None \/ o.ie.blob # None \/ Tree(head)[p] = None
<1> DEFINE te == Tree(head)[p]
<1>1. HistOK /\ PathFormed(p, fi[p], disk[p]) /\ disk[p] \in OnDisk BY PathState
<1>2. CASE te # None
  <2>1. o = UpdateBlob(fi[p], disk[p], te, head) BY <1>2 DEF UpdateOutcomes
  <2> QED BY <1>1, <1>2, <2>1, UpdateBlobOK
<1>3. CASE te = None /\ fi[p] # None
  <2>1. o \in DeleteBlob(fi[p], disk[p]) BY <1>3 DEF UpdateOutcomes
  <2> QED BY <1>1, <1>3, <2>1, DeleteBlobOK
<1>4. CASE te = None /\ fi[p] = None
  <2>1. o = Done(disk[p], None) BY <1>4 DEF UpdateOutcomes
  <2>2. o.f = disk[p] /\ o.ie = fi[p] BY <1>4, <2>1 DEF Done
  <2> QED BY <1>1, <1>4, <2>2, SameSound
<1> QED BY <1>2, <1>3, <1>4

(* An updated entry gets the new base commit.                                 *)
LEMMA BumpSound ==
    ASSUME HistOK, NEW p, NEW m, NEW ie, NEW f, NEW e, NEW g, Sound(p, m, ie, f, e, g),
           e = None \/ e.blob # None \/ Tree(head)[p] = None
    PROVE  Sound(p, m, ie, f, BumpBaseCommitId(e, head), g)
<1> DEFINE b == BumpBaseCommitId(e, head)
<1>1. CASE e = None
  <2>1. b = e BY <1>1 DEF BumpBaseCommitId
  <2> QED BY <2>1
<1>2. CASE e # None
  <2>1. PathFormed(p, e, g) BY DEF Sound
  <2>2. e \in Entry /\ EntryFormed(e) /\ g \in OnDisk BY <1>2, <2>1, PathIs
  <2>3. head \in DOMAIN hist BY DEF HistOK
  <2>4. head \in Commits /\ head # None BY <2>3, TreeIs, FileConstants
  <2>5. b = BumpBaseCommitId(e, head) OBVIOUS
  <2> HIDE DEF b
  <2>6. /\ b \in Entry /\ b # None /\ b.blob = e.blob /\ b.commit = head
        /\ b.hasCommit = e.hasCommit /\ b.nofile = e.nofile /\ b.stage = e.stage
        /\ b.sblob = e.sblob /\ b.x = e.x /\ b.fresh = e.fresh
    BY <2>2, <2>4, <2>5, BumpedIs
  <2>7. EntryFormed(b) BY <2>2, <2>3, <2>4, <2>6 DEF EntryFormed
  <2>8. PathFormed(p, b, g) BY <1>2, <2>2, <2>6, <2>7 DEF PathFormed, Index
  <2>9. Stamped(e, g) => Stamped(b, g) BY <1>2, <2>6 DEF Stamped, ComparedBlob
  <2>10. Safe(m, e, g) => Safe(m, b, g) BY <1>2, <2>6 DEF Safe
  <2>11. Settles(p, e, g, head) => Settles(p, b, g, head) BY <1>2, <2>6 DEF Settles
  <2>12. Sound(p, m, ie, f, b, g) BY <2>8, <2>9, <2>10, <2>11 DEF Sound
  <2> QED BY <2>5, <2>12
<1> QED BY <1>1, <1>2

(* got update.                                                                *)
LEMMA UpdateKeeps ==
    ASSUME OpsInv, NEW S, S \subseteq Paths, Update(S)
    PROVE  Keeps
<1>1. /\ pc = "idle" /\ pc' = "idle" /\ hist' = hist /\ head' = head /\ base' = head
      /\ mine' = mine /\ crashes' = crashes
  BY DEF Update, commitVars, bounds
<1>2. HistOK /\ base' \in {base, head} BY <1>1 DEF OpsInv
<1>3. CASE UNCHANGED <<disk, fi>>
  <2>1. disk' = disk /\ fi' = fi BY <1>3
  <2>2. \A q \in Paths : Sound(q, mine[q], fi[q], disk[q], fi'[q], disk'[q])
    BY <2>1, PathState, SameSound
  <2>3. disk' = [q \in Paths |-> disk'[q]] /\ fi' = [q \in Paths |-> fi'[q]]
    BY <2>1 DEF OpsInv
  <2> QED BY <1>1, <1>2, <2>2, <2>3, SoundPathwiseKeeps
<1>4. CASE ~UNCHANGED <<disk, fi>>
  <2> DEFINE Reached(o) == {PathSeq[i] : i \in {j \in DOMAIN PathSeq :
                               \A k \in 1..(j - 1) : ~o[PathSeq[k]].err}}
             Ok(o) == Reached(o) = Paths /\ \A p \in Paths : ~o[p].err
  <2>1. PICK o :
          /\ \A p \in Paths :
              o[p] \in IF p \in S THEN UpdateOutcomes(p) ELSE {Done(disk[p], fi[p])}
          /\ disk' = [p \in Paths |-> IF p \in Reached(o) THEN o[p].f ELSE disk[p]]
          /\ fi' = [p \in Paths |->
                IF p \notin Reached(o) THEN fi[p]
                ELSE IF Ok(o) /\ p \in S THEN BumpBaseCommitId(o[p].ie, head)
                ELSE o[p].ie]
    BY <1>4, Zenon DEF Update
  <2> DEFINE R == Reached(o)
             ok == Ok(o)
  <2>2. /\ disk' = [p \in Paths |-> IF p \in R THEN o[p].f ELSE disk[p]]
        /\ fi' = [p \in Paths |-> IF p \notin R THEN fi[p]
                                  ELSE IF ok /\ p \in S THEN BumpBaseCommitId(o[p].ie, head)
                                  ELSE o[p].ie]
    BY <2>1
  <2>3. ok => \A p \in Paths : ~o[p].err OBVIOUS
  <2> HIDE DEF R, ok, Reached, Ok
  <2>4. disk' = [q \in Paths |-> disk'[q]] /\ fi' = [q \in Paths |-> fi'[q]] BY <2>2
  <2>5. ASSUME NEW q \in Paths
        PROVE  Sound(q, mine[q], fi[q], disk[q], fi'[q], disk'[q])
    <3>1. PathFormed(q, fi[q], disk[q]) BY PathState
    <3>2. CASE q \notin R
      <4>1. disk'[q] = disk[q] /\ fi'[q] = fi[q] BY <2>2, <3>2
      <4> QED BY <3>1, <4>1, SameSound
    <3>3. CASE q \in R /\ q \notin S
      <4>1. o[q] = Done(disk[q], fi[q]) BY <2>1, <3>3
      <4>2. disk'[q] = disk[q] /\ fi'[q] = fi[q] BY <2>2, <3>3, <4>1 DEF Done
      <4> QED BY <3>1, <4>2, SameSound
    <3>4. CASE q \in R /\ q \in S
      <4>1. o[q] \in UpdateOutcomes(q) BY <2>1, <3>4
      <4>2. /\ Sound(q, mine[q], fi[q], disk[q], o[q].ie, o[q].f)
            /\ ~o[q].err => o[q].ie = None \/ o[q].ie.blob # None \/ Tree(head)[q] = None
        BY <4>1, OutcomeOK
      <4>3. disk'[q] = o[q].f BY <2>2, <3>4
      <4>4. CASE ok
        <5>1. fi'[q] = BumpBaseCommitId(o[q].ie, head) BY <2>2, <3>4, <4>4
        <5>2. ~o[q].err BY <2>3, <4>4
        <5> QED BY <1>2, <4>2, <4>3, <5>1, <5>2, BumpSound
      <4>5. CASE ~ok
        <5>1. fi'[q] = o[q].ie BY <2>2, <3>4, <4>5
        <5> QED BY <4>2, <4>3, <5>1
      <4> QED BY <4>4, <4>5
    <3> QED BY <3>2, <3>3, <3>4
  <2> QED BY <1>1, <1>2, <2>4, <2>5, SoundPathwiseKeeps
<1> QED BY <1>3, <1>4

-----------------------------------------------------------------------------
(* The steps of got commit.                                                   *)

(* A step that leaves the files, the index and the repository alone.          *)
LEMMA SamePaths ==
    ASSUME OpsInv, hist' = hist, head' = head, base' \in DOMAIN hist, disk' = disk, fi' = fi,
           mine' = mine, pc' \in {"idle", "editor", "base", "index"}, CommitFormed'
    PROVE  /\ OpsInv' /\ (MineInv => MineInv')
           /\ StampInv => \A p \in Paths : Stamped(fi[p], disk[p])'
<1>1. HistOK' BY DEF OpsInv, HistOK
<1>2. ASSUME NEW q \in Paths PROVE PathFormed(q, fi[q], disk[q])'
  <2>1. PathFormed(q, fi[q], disk[q]) BY DEF OpsInv
  <2> QED BY <2>1 DEF PathFormed, EntryFormed, Tree
<1>3. OpsInv' BY <1>1, <1>2 DEF OpsInv
<1>4. MineInv => MineInv' BY DEF MineInv, Safe
<1>5. StampInv => \A p \in Paths : Stamped(fi[p], disk[p])' BY DEF StampInv, Stamped
<1> QED BY <1>3, <1>4, <1>5

(* A change that is not out of date is based on the tip of the branch.        *)
LEMMA CollectedBased ==
    ASSUME OpsInv, IndexMatchesCommit, NEW p \in Paths, fi[p] # None,
           ~OutOfDate(p, WalkStatus(p), fi[p].stage, fi[p].blob, fi[p].commit)
    PROVE  Based(CommitableOf(p), Tree(head)[p])
<1> DEFINE ct == CommitableOf(p)
           te == Tree(head)[p]
           ie == fi[p]
<1>1. ct.st = WalkStatus(p) /\ ct.stage = ie.stage /\ ct.blob = ie.blob BY DEF CommitableOf
<1>2. HistOK /\ PathFormed(p, ie, disk[p]) BY PathState
<1>3. head \in DOMAIN hist BY <1>2 DEF HistOK
<1>4. te # None => te \in File BY <1>3, <1>2, TreeText
<1>5. te # None => te.c # None BY <1>4, FileIs
<1>6. EntryFormed(ie) /\ (ie.commit = head /\ ie.blob = None => te = None)
  BY <1>2 DEF PathFormed
<1>7. ie.commit = head /\ ie.blob # None => te # None /\ te.c = ie.blob
  BY <1>6 DEF IndexMatchesCommit, EntryFormed
<1>8. IsAdded(ct) \/ ie.commit = head \/ (te # None /\ te.c = ie.blob)
  BY <1>1 DEF OutOfDate, IsAdded
<1> HIDE DEF ct, te, ie
<1>9. Based(ct, te) BY <1>1, <1>5, <1>6, <1>7, <1>8 DEF Based
<1> QED BY <1>9 DEF ct, te

(* got_worktree_commit up to the log message.                                 *)
LEMMA CommitCollectKeeps ==
    ASSUME OpsInv, NEW S, S \subseteq Paths, CommitCollect(S)
    PROVE  Keeps
<1>1. /\ pc = "idle" /\ crashes' = crashes
      /\ cts' = [p \in CommitablePaths(S) |-> CommitableOf(p)] /\ tip' = head /\ pc' = "editor"
      /\ disk' = disk /\ fi' = fi /\ base' = base /\ hist' = hist /\ head' = head /\ mine' = mine
      /\ \A p \in CommitablePaths(S) :
            ~OutOfDate(p, WalkStatus(p), fi[p].stage, fi[p].blob, fi[p].commit)
  BY DEF CommitCollect, bounds
<1>2. CommitablePaths(S) \subseteq Paths /\ \A p \in CommitablePaths(S) : fi[p] # None
  BY DEF CommitablePaths
<1>3. base' \in DOMAIN hist /\ head \in DOMAIN hist BY <1>1 DEF OpsInv, HistOK
<1>4. CommitFormed'
  <2>1. \A p \in CommitablePaths(S) : CtFormed(cts'[p], fi'[p]) BY <1>1, CollectedOK
  <2> QED BY <1>1, <1>2, <1>3, <2>1 DEF CommitFormed
<1>5. OpsInv' /\ (MineInv => MineInv') /\ (StampInv => \A p \in Paths : Stamped(fi[p], disk[p])')
  BY <1>1, <1>3, <1>4, SamePaths
<1>6. StampInv => StampInv' BY <1>1, <1>5 DEF StampInv
<1>7. ASSUME IndexMatchesCommit PROVE RecordInv'
  <2>1. ASSUME NEW p \in CommitablePaths(S) PROVE Based(cts'[p], hist'[tip'].tree[p])
    <3>1. Based(CommitableOf(p), Tree(head)[p]) BY <1>1, <1>2, <1>7, CollectedBased
    <3> QED BY <1>1, <3>1 DEF Tree
  <2>2. CommitRecordsChanges' BY <1>1 DEF CommitRecordsChanges
  <2>3. DOMAIN cts' = CommitablePaths(S) BY <1>1
  <2> QED BY <2>1, <2>2, <2>3 DEF RecordInv, Tree
<1>8. ASSUME AloneInv PROVE AloneInv'
  <2>1. crashes' = 0 /\ base' = head' /\ tip' = head' BY <1>1, <1>8 DEF AloneInv
  <2>2. Plain' BY <1>1, <1>8 DEF AloneInv, Plain, PlainTree, Trees, Tree
  <2>3. ASSUME NEW q \in Paths PROVE Settles(q, fi[q], disk[q], head)'
    <3>1. Settles(q, fi[q], disk[q], head) BY <1>1, <1>8, SettledPath
    <3> QED BY <1>1, <3>1 DEF Settles, At, Tree
  <2>4. ASSUME NEW p \in DOMAIN cts' PROVE ~cts'[p].x
    <3>1. p \in CommitablePaths(S) /\ cts'[p] = CommitableOf(p) BY <1>1
    <3> QED BY <1>1, <1>8, <3>1, CollectedPlain
  <2> QED BY <1>1, <2>1, <2>2, <2>3, <2>4 DEF AloneInv
<1> QED BY <1>5, <1>6, <1>7, <1>8 DEF Keeps

(* A commit that comes to an end leaves the files alone.                      *)
LEMMA CommitAbortKeeps ==
    ASSUME OpsInv, CommitAbort, Alone /\ AloneInv => pc = "editor" /\ crashes' = crashes
    PROVE  Keeps
<1>1. /\ pc' = "idle" /\ disk' = disk /\ fi' = fi /\ base' = base /\ hist' = hist
      /\ head' = head /\ mine' = mine
  BY DEF CommitAbort
<1>2. CommitFormed' /\ base' \in DOMAIN hist BY <1>1 DEF CommitFormed, OpsInv, HistOK
<1>3. OpsInv' /\ (MineInv => MineInv') /\ (StampInv => \A p \in Paths : Stamped(fi[p], disk[p])')
  BY <1>1, <1>2, SamePaths
<1>4. StampInv => StampInv' BY <1>1, <1>3 DEF StampInv
<1>5. RecordInv' BY <1>1 DEF RecordInv, CommitRecordsChanges
<1>6. ASSUME Alone, AloneInv PROVE AloneInv'
  <2>1. crashes' = 0 /\ base' = head' /\ pc = "editor" BY <1>1, <1>6 DEF AloneInv
  <2>2. Plain' BY <1>1, <1>6 DEF AloneInv, Plain, PlainTree, Trees, Tree
  <2>3. ASSUME NEW q \in Paths PROVE Settles(q, fi[q], disk[q], head)'
    <3>1. Settles(q, fi[q], disk[q], head) BY <1>6, <2>1 DEF AloneInv
    <3> QED BY <1>1, <3>1 DEF Settles, At, Tree
  <2> QED BY <1>1, <2>1, <2>2, <2>3 DEF AloneInv
<1> QED BY <1>3, <1>4, <1>5, <1>6 DEF Keeps

(* got_worktree_set_base_commit_id.                                           *)
LEMMA CommitSetBaseKeeps ==
    ASSUME OpsInv, CommitSetBase
    PROVE  Keeps
<1>1. /\ pc = "base" /\ pc' = "index" /\ base' = new /\ disk' = disk /\ fi' = fi /\ hist' = hist
      /\ head' = head /\ mine' = mine /\ cts' = cts /\ tip' = tip /\ new' = new
      /\ crashes' = crashes
  BY DEF CommitSetBase, bounds
<1>2. /\ DOMAIN cts \subseteq Paths /\ \A p \in DOMAIN cts : CtFormed(cts[p], fi[p])
      /\ tip \in DOMAIN hist /\ new \in DOMAIN hist
      /\ \A p \in DOMAIN cts : Unstaged(cts[p]) => cts[p].c # None
  BY <1>1 DEF OpsInv, CommitFormed
<1>3. CommitFormed' /\ base' \in DOMAIN hist BY <1>1, <1>2 DEF CommitFormed
<1>4. OpsInv' /\ (MineInv => MineInv') /\ (StampInv => \A p \in Paths : Stamped(fi[p], disk[p])')
  BY <1>1, <1>3, SamePaths
<1>5. StampInv => StampInv' BY <1>1, <1>4 DEF StampInv
<1>6. ASSUME RecordInv PROVE RecordInv'
  <2>1. CommitRecordsChanges' BY <1>1, <1>6 DEF RecordInv, CommitRecordsChanges, Tree
  <2>2. \A p \in DOMAIN cts : Based(cts[p], Tree(tip)[p]) BY <1>1, <1>6 DEF RecordInv
  <2> QED BY <1>1, <2>1, <2>2 DEF RecordInv, Tree
<1>7. ASSUME AloneInv PROVE AloneInv'
  <2>1. crashes' = 0 /\ new' = head' /\ base' = head' BY <1>1, <1>7 DEF AloneInv
  <2>2. Plain' BY <1>1, <1>7 DEF AloneInv, Plain, PlainTree, Trees, Tree
  <2>3. ASSUME NEW q \in Paths PROVE Settles(q, fi[q], disk[q], tip)'
    <3>1. Settles(q, fi[q], disk[q], tip) BY <1>1, <1>7 DEF AloneInv
    <3> QED BY <1>1, <3>1 DEF Settles, At, Tree
  <2>4. \A p \in DOMAIN cts' : ~cts'[p].x BY <1>1, <1>7 DEF AloneInv
  <2> QED BY <1>1, <2>1, <2>2, <2>3, <2>4 DEF AloneInv
<1> QED BY <1>4, <1>5, <1>6, <1>7 DEF Keeps

(* update_fileindex_after_commit.                                             *)
LEMMA CommitIndexKeeps ==
    ASSUME OpsInv, CommitIndex
    PROVE  Keeps
<1>1. /\ pc = "index" /\ pc' = "idle" /\ disk' = disk /\ base' = base /\ hist' = hist
      /\ head' = head /\ mine' = mine /\ crashes' = crashes
      /\ fi' = [p \in Paths |-> IF p \in DOMAIN cts THEN EntryAfterCommit(p) ELSE fi[p]]
  BY DEF CommitIndex, bounds
<1>2. HistOK /\ HistOK' BY <1>1 DEF OpsInv, HistOK
<1>3. ASSUME NEW q \in Paths
      PROVE  /\ PathFormed(q, fi'[q], disk[q])
             /\ StampInv => Stamped(fi'[q], disk[q])
             /\ MineInv /\ RecordInv /\ NewText => Safe(mine[q], fi'[q], disk[q])
             /\ AloneInv /\ RecordInv => Settles(q, fi'[q], disk[q], head)
  <2>1. CASE q \in DOMAIN cts
    <3>1. fi'[q] = EntryAfterCommit(q) BY <1>1, <2>1
    <3>2. /\ PathFormed(q, fi'[q], disk[q])
          /\ StampInv => Stamped(fi'[q], disk[q])
          /\ CommitRecordsChanges /\ NewText /\ Safe(mine[q], fi[q], disk[q])
                => Safe(mine[q], fi'[q], disk[q])
          /\ CommitRecordsChanges /\ AloneInv => Settles(q, fi'[q], disk[q], head)
      BY <1>1, <2>1, <3>1, AfterCommitOK
    <3> QED BY <3>2 DEF MineInv, RecordInv
  <2>2. CASE q \notin DOMAIN cts
    <3>1. fi'[q] = fi[q] BY <1>1, <2>2
    <3>2. ASSUME AloneInv, RecordInv PROVE Settles(q, fi[q], disk[q], head)
      <4>1. Settles(q, fi[q], disk[q], tip) /\ new = head BY <1>1, <3>2 DEF AloneInv
      <4>2. Tree(head)[q] = Tree(tip)[q]
        BY <1>1, <2>2, <3>2, <4>1 DEF RecordInv, CommitRecordsChanges
      <4> QED BY <4>1, <4>2 DEF Settles, At
    <3> QED BY <3>1, <3>2, PathState DEF MineInv, StampInv
  <2> QED BY <2>1, <2>2
<1>4. OpsInv'
  <2>1. ASSUME NEW q \in Paths PROVE PathFormed(q, fi[q], disk[q])'
    <3>1. PathFormed(q, fi'[q], disk[q]) BY <1>3
    <3> QED BY <1>1, <3>1 DEF PathFormed, EntryFormed, Tree
  <2>2. fi' \in [Paths -> Index]
    <3>1. \A q \in Paths : fi'[q] \in Index BY <1>3 DEF PathFormed
    <3>2. fi' = [q \in Paths |-> fi'[q]] BY <1>1
    <3> QED BY <3>1, <3>2
  <2> QED BY <1>1, <1>2, <2>1, <2>2 DEF OpsInv, CommitFormed
<1>5. StampInv => StampInv' BY <1>1, <1>3 DEF StampInv
<1>6. RecordInv' BY <1>1 DEF RecordInv, CommitRecordsChanges
<1>7. MineInv /\ RecordInv /\ NewText => MineInv' BY <1>1, <1>3 DEF MineInv
<1>8. ASSUME AloneInv, RecordInv PROVE AloneInv'
  <2>1. crashes' = 0 /\ base' = head' BY <1>1, <1>8 DEF AloneInv
  <2>2. Plain' BY <1>1, <1>8 DEF AloneInv, Plain, PlainTree, Trees, Tree
  <2>3. ASSUME NEW q \in Paths PROVE Settles(q, fi[q], disk[q], head)'
    <3>1. Settles(q, fi'[q], disk[q], head) BY <1>3, <1>8
    <3> QED BY <1>1, <3>1 DEF Settles, At, Tree
  <2> QED BY <1>1, <2>1, <2>2, <2>3 DEF AloneInv
<1> QED BY <1>4, <1>5, <1>6, <1>7, <1>8 DEF Keeps

(* A new commit on the branch changes nothing about the old ones.             *)
LEMMA HistGrows ==
    ASSUME OpsInv, NEW t \in TreeType, NEW parent \in DOMAIN hist, Len(hist) < MaxCommits,
           hist' = Append(hist, [tree |-> t, parent |-> parent]), head' = Len(hist) + 1,
           base' = base, disk' = disk, fi' = fi
    PROVE  /\ HistOK' /\ head' \in DOMAIN hist' /\ hist'[head'].tree = t
           /\ DOMAIN hist' = DOMAIN hist \cup {head'}
           /\ \A c \in DOMAIN hist : c \in DOMAIN hist' /\ hist'[c] = hist[c]
           /\ \A p \in Paths : PathFormed(p, fi[p], disk[p])'
<1> DEFINE R == [tree : TreeType, parent : Nat]
           r == [tree |-> t, parent |-> parent]
           n == Len(hist)
<1>0. HistOK BY DEF OpsInv
<1>1. hist \in Seq(R) /\ base \in DOMAIN hist /\ \A c \in DOMAIN hist : hist[c].parent < c
  BY <1>0 DEF HistOK
<1>2. parent \in Nat BY <1>0, TreeIs
<1>3. r \in R /\ r.tree = t /\ r.parent = parent BY <1>2
<1>4. hist' = Append(hist, r) OBVIOUS
<1>5. MaxCommits \in Nat BY OpsConstants
<1> HIDE DEF R, r
<1>6. n \in Nat /\ DOMAIN hist = 1..n BY <1>1
<1>7. /\ hist' \in Seq(R) /\ Len(hist') = n + 1 /\ DOMAIN hist' = 1..(n + 1)
      /\ hist'[n + 1] = r /\ \A c \in 1..n : hist'[c] = hist[c]
  BY <1>1, <1>3, <1>4
<1>8. ASSUME NEW c \in DOMAIN hist' PROVE hist'[c].parent < c
  <2>1. CASE c = n + 1
    <3>1. hist'[c].parent = parent BY <1>3, <1>7, <2>1
    <3>2. parent <= n /\ parent \in Nat BY <1>2, <1>6
    <3> QED BY <1>6, <2>1, <3>1, <3>2
  <2>2. CASE c # n + 1
    <3>1. c \in 1..n BY <1>6, <1>7, <2>2
    <3> QED BY <1>1, <1>6, <1>7, <3>1
  <2> QED BY <2>1, <2>2
<1>9. \A c \in DOMAIN hist : c \in DOMAIN hist' /\ hist'[c] = hist[c] /\ c # head'
  BY <1>6, <1>7
<1>10. head' \in DOMAIN hist' /\ hist'[head'].tree = t BY <1>3, <1>6, <1>7
<1>11. HistOK'
  <2>1. Len(hist') <= MaxCommits BY <1>5, <1>6, <1>7
  <2> QED BY <1>1, <1>7, <1>8, <1>9, <1>10, <2>1 DEF HistOK, R
<1>12. None \notin DOMAIN hist'
  <2>1. DOMAIN hist' \subseteq Commits BY <1>5, <1>6, <1>7, OpsConstants
  <2> QED BY <2>1, FileConstants
<1>13. ASSUME NEW p \in Paths PROVE PathFormed(p, fi[p], disk[p])'
  <2>1. PathFormed(p, fi[p], disk[p]) BY DEF OpsInv
  <2>2. fi[p] # None => fi[p].commit \in DOMAIN hist \cup {None} BY <2>1 DEF PathFormed, EntryFormed
  <2>3. fi[p] # None => fi[p].commit # head' BY <1>9, <1>10, <1>12, <2>2
  <2> QED BY <1>9, <2>1, <2>3 DEF PathFormed, EntryFormed
<1>14. DOMAIN hist' = DOMAIN hist \cup {head'} BY <1>6, <1>7
<1> QED BY <1>9, <1>10, <1>11, <1>13, <1>14

(* commit_worktree up to got_ref_write.                                       *)
LEMMA CommitWriteKeeps ==
    ASSUME OpsInv, CommitWrite
    PROVE  Keeps
<1> DEFINE ctf == [p \in DOMAIN cts |-> WithBlob(p)]
           tree == WriteTree(ctf)
<1>1. /\ pc = "editor" /\ head = tip /\ Len(hist) < MaxCommits
      /\ \A p \in DOMAIN cts : cts[p].stage = "-" /\ cts[p].st # "D" => disk[p] # None
      /\ hist' = Append(hist, [tree |-> tree, parent |-> base]) /\ cts' = ctf
      /\ mine' = [p \in Paths |->
            [r \in Regions |->
                IF p \in DOMAIN ctf /\ tree[p] # None /\ mine[p][r] \in tree[p].c[r]
                THEN None ELSE mine[p][r]]]
      /\ new' = Len(hist) + 1 /\ head' = Len(hist) + 1 /\ pc' = "base"
      /\ disk' = disk /\ fi' = fi /\ base' = base /\ tip' = tip
      /\ crashes' = crashes
  BY Zenon DEF CommitWrite, bounds
<1>2. HistOK /\ base \in DOMAIN hist /\ head \in DOMAIN hist BY DEF OpsInv, HistOK
<1>3. DOMAIN cts \subseteq Paths BY <1>1 DEF OpsInv, CommitFormed
<1>4. ASSUME NEW p \in DOMAIN cts
      PROVE  /\ CtFormed(ctf[p], fi[p]) /\ ctf[p].st = cts[p].st /\ ctf[p].stage = cts[p].stage
             /\ ctf[p].blob = cts[p].blob /\ ctf[p].x = cts[p].x
             /\ Unstaged(ctf[p]) => disk[p] # None /\ ctf[p].c = disk[p].c /\ ctf[p].c # None
  <2>1. ctf[p] = WithBlob(p) OBVIOUS
  <2>2. Unstaged(cts[p]) => disk[p] # None BY <1>1 DEF Unstaged
  <2> HIDE DEF ctf
  <2> QED BY <1>1, <2>1, <2>2, WithBlobOK
<1>5. \A p \in Paths : tree[p] = IF p \in DOMAIN cts THEN TreeEntry(ctf[p], Tree(head)[p])
                                 ELSE Tree(head)[p]
  <2>1. DOMAIN ctf = DOMAIN cts OBVIOUS
  <2> HIDE DEF ctf
  <2> QED BY <2>1 DEF WriteTree, TreeEntry
<1>6. DOMAIN tree = Paths /\ tree = [p \in Paths |-> tree[p]] BY DEF WriteTree
<1>7. DOMAIN ctf = DOMAIN cts OBVIOUS
<1> HIDE DEF ctf, tree
<1>8. \A p \in Paths : Tree(head)[p] \in OnDisk BY <1>2, TreeIs
<1>9. ASSUME NEW p \in DOMAIN cts
      PROVE  /\ tree[p] \in OnDisk
             /\ Based(ctf[p], Tree(head)[p]) =>
                  IF ctf[p].c = None THEN tree[p] = None ELSE tree[p] # None /\ tree[p].c = ctf[p].c
             /\ ~ctf[p].x /\ (Tree(head)[p] # None => ~Tree(head)[p].x) /\ tree[p] # None
                  => ~tree[p].x
  <2>1. tree[p] = TreeEntry(ctf[p], Tree(head)[p]) BY <1>3, <1>5
  <2>2. Tree(head)[p] \in OnDisk BY <1>3, <1>8
  <2> QED BY <1>4, <2>1, <2>2, TreeEntryOK
<1>10. tree \in TreeType
  <2>1. \A p \in Paths : tree[p] \in File \cup {None} BY <1>5, <1>8, <1>9 DEF OnDisk
  <2> QED BY <1>6, <2>1 DEF TreeType
<1>11. /\ HistOK' /\ head' \in DOMAIN hist' /\ hist'[head'].tree = tree
       /\ DOMAIN hist' = DOMAIN hist \cup {head'}
       /\ \A c \in DOMAIN hist : c \in DOMAIN hist' /\ hist'[c] = hist[c]
       /\ \A p \in Paths : PathFormed(p, fi[p], disk[p])'
  BY <1>1, <1>2, <1>10, HistGrows
<1>12. CommitFormed'
  <2>1. tip' \in DOMAIN hist' /\ new' \in DOMAIN hist' BY <1>1, <1>2, <1>11
  <2> QED BY <1>1, <1>3, <1>4, <1>7, <2>1 DEF CommitFormed
<1>13. ASSUME NEW p \in Paths, NEW r \in Regions
       PROVE  mine'[p][r] \in {mine[p][r], None}
  BY <1>1
<1>14. mine' \in [Paths -> [Regions -> Vals \cup {None}]]
  <2>1. \A p \in Paths, r \in Regions : mine[p][r] \in Vals \cup {None} BY DEF OpsInv
  <2>2. \A p \in Paths, r \in Regions : mine'[p][r] \in Vals \cup {None} BY <1>13, <2>1
  <2>3. \A p \in Paths : mine'[p] = [r \in Regions |-> mine'[p][r]] BY <1>1
  <2>4. \A p \in Paths : mine'[p] \in [Regions -> Vals \cup {None}] BY <2>2, <2>3
  <2>5. mine' = [p \in Paths |-> mine'[p]] BY <1>1
  <2> QED BY <2>4, <2>5
<1>15. OpsInv'
  <2>1. disk' \in [Paths -> OnDisk] /\ fi' \in [Paths -> Index] BY <1>1 DEF OpsInv
  <2>2. pc' \in {"idle", "editor", "base", "index"} BY <1>1
  <2> QED BY <1>11, <1>12, <1>14, <2>1, <2>2 DEF OpsInv
<1>16. ASSUME StampInv PROVE StampInv'
  <2>1. \A p \in Paths : Stamped(fi[p], disk[p])' BY <1>1, <1>16 DEF StampInv, Stamped
  <2>2. \A p \in DOMAIN cts' : Unstaged(cts'[p]) => disk'[p] # None /\ cts'[p].c = disk'[p].c
    BY <1>1, <1>4, <1>7
  <2> QED BY <2>1, <2>2 DEF StampInv
<1>17. ASSUME RecordInv PROVE RecordInv'
  <2>1. ASSUME NEW p \in DOMAIN cts PROVE Based(ctf[p], Tree(head)[p])
    <3>1. Based(cts[p], Tree(tip)[p]) BY <1>1, <1>17 DEF RecordInv
    <3> QED BY <1>1, <1>4, <3>1 DEF Based, IsAdded
  <2>2. hist'[tip'].tree = Tree(head) BY <1>1, <1>2, <1>11 DEF Tree
  <2>3. hist'[new'].tree = tree BY <1>1, <1>11
  <2>4. CommitRecordsChanges'
    <3>1. ASSUME NEW p \in Paths
          PROVE  IF p \notin DOMAIN cts THEN tree[p] = Tree(head)[p]
                 ELSE IF ctf[p].c = None THEN tree[p] = None
                 ELSE tree[p] # None /\ tree[p].c = ctf[p].c
      BY <1>5, <1>9, <2>1
    <3> QED BY <1>1, <1>7, <2>2, <2>3, <3>1 DEF CommitRecordsChanges, Tree
  <2>5. \A p \in DOMAIN cts' : Based(cts'[p], hist'[tip'].tree[p]) BY <1>1, <1>7, <2>1, <2>2
  <2> QED BY <2>4, <2>5 DEF RecordInv, Tree
<1>18. ASSUME MineInv PROVE MineInv'
  <2>1. ASSUME NEW p \in Paths PROVE Safe(mine'[p], fi[p], disk[p])
    <3>1. Safe(mine[p], fi[p], disk[p]) BY <1>18 DEF MineInv
    <3> QED BY <1>13, <3>1 DEF Safe
  <2> QED BY <1>1, <2>1 DEF MineInv
<1>19. ASSUME AloneInv PROVE AloneInv'
  <2>1. Plain /\ \A p \in DOMAIN cts : ~cts[p].x BY <1>1, <1>19 DEF AloneInv
  <2>2. PlainTree(tree)
    <3>1. PlainTree(Tree(head)) BY <1>2, <2>1, TreeIsOne DEF Plain
    <3>2. ASSUME NEW p \in Paths, tree[p] # None PROVE ~tree[p].x
      <4>1. Tree(head)[p] # None => ~Tree(head)[p].x BY <3>1 DEF PlainTree
      <4>2. CASE p \in DOMAIN cts BY <1>4, <1>9, <2>1, <3>2, <4>1, <4>2
      <4>3. CASE p \notin DOMAIN cts BY <1>5, <3>2, <4>1, <4>3
      <4> QED BY <4>2, <4>3
    <3> QED BY <3>2 DEF PlainTree
  <2>3. Plain'
    <3>1. ASSUME NEW c \in DOMAIN hist' PROVE PlainTree(hist'[c].tree)
      <4>1. CASE c = head' BY <1>11, <2>2, <4>1
      <4>2. CASE c # head'
        <5>1. c \in DOMAIN hist /\ hist'[c].tree = Tree(c) BY <1>11, <4>2 DEF Tree
        <5> QED BY <2>1, <5>1, TreeIsOne DEF Plain
      <4> QED BY <4>1, <4>2
    <3>2. PlainTree(Side.from) /\ PlainTree(Side.to) BY <2>1 DEF Plain, Trees
    <3> QED BY <3>1, <3>2 DEF Plain, PlainTree, Trees, Tree
  <2>4. ASSUME NEW q \in Paths PROVE Settles(q, fi[q], disk[q], tip)'
    <3>1. Settles(q, fi[q], disk[q], tip) BY <1>1, <1>19 DEF AloneInv
    <3>2. hist'[tip'] = hist[tip] BY <1>1, <1>2, <1>11
    <3>3. PathFormed(q, fi[q], disk[q]) BY PathState
    <3>4. fi[q] # None /\ fi[q].blob # None => fi[q].commit \in DOMAIN hist
      BY <3>3 DEF PathFormed, EntryFormed
    <3>5. fi[q] # None /\ fi[q].blob # None => hist'[fi[q].commit] = hist[fi[q].commit]
      BY <1>11, <3>4
    <3> QED BY <1>1, <3>1, <3>2, <3>5 DEF Settles, At, Tree
  <2>5. \A p \in DOMAIN cts' : ~cts'[p].x BY <1>1, <1>4, <1>7, <2>1
  <2>6. crashes' = 0 /\ new' = head' BY <1>1, <1>19 DEF AloneInv
  <2> QED BY <1>1, <2>3, <2>4, <2>5, <2>6 DEF AloneInv
<1> QED BY <1>15, <1>16, <1>17, <1>18, <1>19 DEF Keeps

(* Somebody else moves the branch.                                            *)
LEMMA OthersCommitKeeps ==
    ASSUME OpsInv, NEW p \in Paths, NEW f \in File \cup {None}, OthersCommit(p, f),
           Others # {}
    PROVE  Keeps
<1> DEFINE t == [Tree(head) EXCEPT ![p] = f]
<1>1. /\ hist' = Append(hist, [tree |-> t, parent |-> head]) /\ head' = Len(hist) + 1
      /\ Len(hist) < MaxCommits /\ disk' = disk /\ fi' = fi /\ base' = base /\ mine' = mine
      /\ pc' = pc /\ cts' = cts /\ tip' = tip /\ new' = new
  BY DEF OthersCommit, commitVars
<1>2. HistOK /\ head \in DOMAIN hist BY DEF OpsInv, HistOK
<1>3. t \in TreeType
  <2>1. Tree(head) \in TreeType BY <1>2, TreeIs
  <2> HIDE DEF t
  <2> QED BY <2>1 DEF TreeType, t
<1> HIDE DEF t
<1>4. /\ HistOK' /\ \A c \in DOMAIN hist : c \in DOMAIN hist' /\ hist'[c] = hist[c]
      /\ \A q \in Paths : PathFormed(q, fi[q], disk[q])'
  BY <1>1, <1>2, <1>3, HistGrows
<1>5. CommitFormed'
  <2>1. CASE pc = "idle" BY <1>1, <2>1 DEF CommitFormed
  <2>2. CASE pc # "idle"
    <3>1. /\ DOMAIN cts \subseteq Paths /\ \A q \in DOMAIN cts : CtFormed(cts[q], fi[q])
          /\ tip \in DOMAIN hist
          /\ pc # "editor" =>
               new \in DOMAIN hist /\ \A q \in DOMAIN cts : Unstaged(cts[q]) => cts[q].c # None
      BY <2>2 DEF OpsInv, CommitFormed
    <3> QED BY <1>1, <1>4, <3>1 DEF CommitFormed
  <2> QED BY <2>1, <2>2
<1>6. OpsInv' BY <1>1, <1>4, <1>5 DEF OpsInv
<1>7. StampInv => StampInv' BY <1>1 DEF StampInv, Stamped
<1>8. MineInv => MineInv' BY <1>1 DEF MineInv, Safe
<1>9. ASSUME RecordInv PROVE RecordInv'
  <2>1. CASE pc = "idle" BY <1>1, <2>1 DEF RecordInv, CommitRecordsChanges
  <2>2. CASE pc # "idle"
    <3>1. tip \in DOMAIN hist /\ hist'[tip'] = hist[tip] BY <1>1, <1>4, <2>2 DEF OpsInv, CommitFormed
    <3>2. \A q \in DOMAIN cts : Based(cts[q], hist[tip].tree[q]) BY <1>9, <2>2 DEF RecordInv, Tree
    <3>3. CommitRecordsChanges'
      <4>1. pc # "editor" => hist'[new'] = hist[new] BY <1>1, <1>4, <2>2 DEF OpsInv, CommitFormed
      <4>2. CommitRecordsChanges BY <1>9 DEF RecordInv
      <4> QED BY <1>1, <3>1, <4>1, <4>2 DEF CommitRecordsChanges, Tree
    <3> QED BY <1>1, <3>1, <3>2, <3>3 DEF RecordInv, Tree
  <2> QED BY <2>1, <2>2
<1>10. ~Alone BY DEF Alone
<1> QED BY <1>6, <1>7, <1>8, <1>9, <1>10 DEF Keeps

-----------------------------------------------------------------------------
(* The user changes a file.                                                   *)

(* The time stamps in the index are old then, and what was collected for a    *)
(* commit stays what it was.                                                  *)
LEMMA UserChangeKeeps ==
    ASSUME OpsInv, NEW p \in Paths, NEW f \in OnDisk, UserChange(p, f),
           mine' = [q \in Paths |-> mine'[q]], mine'[p] \in [Regions -> Vals \cup {None}],
           \A q \in Paths : q # p => mine'[q] = mine[q],
           Alone /\ AloneInv => f # None /\ ~f.x,
           Safe(mine[p], fi[p], disk[p]) => Safe(mine'[p], Touched(fi[p]), f)
    PROVE  Keeps
<1> DEFINE e == Touched(fi[p])
<1>1. /\ pc = "idle" \/ pc \in EditPoints
      /\ disk' = [disk EXCEPT ![p] = f] /\ fi' = [fi EXCEPT ![p] = e] /\ base' = base
      /\ hist' = hist /\ head' = head /\ pc' = pc /\ cts' = cts /\ tip' = tip /\ new' = new
      /\ crashes' = crashes
  BY DEF UserChange, commitVars
<1>2. HistOK /\ HistOK' BY <1>1 DEF OpsInv, HistOK
<1>3. disk \in [Paths -> OnDisk] /\ fi \in [Paths -> Index] BY DEF OpsInv
<1>4. /\ disk'[p] = f /\ fi'[p] = e
      /\ \A q \in Paths : q # p => disk'[q] = disk[q] /\ fi'[q] = fi[q]
  BY <1>1, <1>3
<1>5. PathFormed(p, fi[p], disk[p]) BY PathState
<1>6. fi[p] = None => e = None BY DEF Touched
<1>7. e = Touched(fi[p]) OBVIOUS
<1> HIDE DEF e
<1>8. PathFormed(p, e, f) /\ Stamped(e, f) /\ (fi[p] # None => e # None)
  <2>1. CASE fi[p] = None BY <1>6, <2>1 DEF PathFormed, Index, Stamped
  <2>2. CASE fi[p] # None BY <1>2, <1>5, <1>7, <2>2, TouchedFormed
  <2> QED BY <2>1, <2>2
<1>9. \A q \in Paths : PathFormed(q, fi'[q], disk'[q]) BY <1>4, <1>8, PathState
<1>10. disk' \in [Paths -> OnDisk] /\ fi' \in [Paths -> Index]
  <2>1. e \in Index BY <1>8 DEF PathFormed
  <2> QED BY <1>1, <1>3, <2>1
<1>11. mine' \in [Paths -> [Regions -> Vals \cup {None}]]
  <2>1. \A q \in Paths : mine'[q] \in [Regions -> Vals \cup {None}] BY DEF OpsInv
  <2> QED BY <2>1
<1>12. CommitFormed'
  <2>1. CASE pc = "idle" BY <1>1, <2>1 DEF CommitFormed
  <2>2. CASE pc # "idle"
    <3>1. /\ DOMAIN cts \subseteq Paths /\ \A q \in DOMAIN cts : CtFormed(cts[q], fi[q])
          /\ tip \in DOMAIN hist
          /\ pc # "editor" =>
               new \in DOMAIN hist /\ \A q \in DOMAIN cts : Unstaged(cts[q]) => cts[q].c # None
      BY <2>2 DEF OpsInv, CommitFormed
    <3>2. ASSUME NEW q \in DOMAIN cts PROVE CtFormed(cts[q], fi'[q])
      <4>1. CASE q = p
        <5>1. CtFormed(cts[p], fi[p]) /\ fi[p] # None BY <3>1, <4>1 DEF CtFormed
        <5>2. fi[p] \in Entry BY <5>1, PathState
        <5>3. /\ e # None /\ e.blob = fi[p].blob /\ e.nofile = fi[p].nofile
              /\ e.stage = fi[p].stage /\ e.sblob = fi[p].sblob
          BY <1>7, <5>2, TouchedIs
        <5>4. CtFormed(cts[p], e) BY <5>1, <5>3 DEF CtFormed
        <5> QED BY <1>4, <4>1, <5>4
      <4>2. CASE q # p BY <1>4, <3>1, <4>2
      <4> QED BY <4>1, <4>2
    <3> QED BY <1>1, <3>1, <3>2 DEF CommitFormed
  <2> QED BY <2>1, <2>2
<1>13. OpsInv'
  <2>1. ASSUME NEW q \in Paths PROVE PathFormed(q, fi[q], disk[q])'
    <3>1. PathFormed(q, fi'[q], disk'[q]) BY <1>9
    <3> QED BY <1>1, <3>1 DEF PathFormed, EntryFormed, Tree
  <2> QED BY <1>1, <1>2, <1>10, <1>11, <1>12, <2>1 DEF OpsInv
<1>14. ASSUME StampInv, EditPoints \subseteq {"editor"} PROVE StampInv'
  <2>1. \A q \in Paths : Stamped(fi'[q], disk'[q]) BY <1>4, <1>8, <1>14 DEF StampInv
  <2>2. pc' \notin {"base", "index"} BY <1>1, <1>14
  <2> QED BY <2>1, <2>2 DEF StampInv
<1>15. RecordInv => RecordInv' BY <1>1 DEF RecordInv, CommitRecordsChanges, Tree
<1>16. ASSUME MineInv PROVE MineInv'
  <2>1. ASSUME NEW q \in Paths PROVE Safe(mine'[q], fi'[q], disk'[q])
    <3>1. Safe(mine[q], fi[q], disk[q]) BY <1>16 DEF MineInv
    <3>2. CASE q = p BY <1>4, <1>7, <3>1, <3>2
    <3>3. CASE q # p BY <1>4, <3>1, <3>3
    <3> QED BY <3>2, <3>3
  <2> QED BY <2>1 DEF MineInv
<1>17. ASSUME NEW h, Alone, AloneInv, Settles(p, fi[p], disk[p], h) PROVE Settles(p, e, f, h)
  <2>1. f # None /\ ~f.x BY <1>17
  <2>2. CASE fi[p] = None BY <1>6, <2>1, <2>2, SettlesNew
  <2>3. CASE fi[p] # None BY <1>2, <1>5, <1>7, <1>17, <2>1, <2>3, TouchedFormed
  <2> QED BY <2>2, <2>3
<1>18. ASSUME Alone, AloneInv PROVE AloneInv'
  <2> DEFINE h == IF pc \in {"base", "index"} THEN tip ELSE head
  <2>1. Plain' BY <1>1, <1>18 DEF AloneInv, Plain, PlainTree, Trees, Tree
  <2>2. h' = h BY <1>1
  <2>3. ASSUME NEW q \in Paths PROVE Settles(q, fi[q], disk[q], h)'
    <3>1. Settles(q, fi[q], disk[q], h) BY <1>18 DEF AloneInv
    <3> HIDE DEF h
    <3>2. Settles(q, fi'[q], disk'[q], h) BY <1>4, <1>17, <1>18, <3>1
    <3> QED BY <1>1, <2>2, <3>2 DEF Settles, At, Tree
  <2> QED BY <1>1, <1>18, <2>1, <2>3 DEF AloneInv
<1> QED BY <1>13, <1>14, <1>15, <1>16, <1>18 DEF Keeps

(* Nothing is executable.                                                     *)
LEMMA AloneFile ==
    ASSUME AloneInv, NEW p \in Paths, disk[p] # None
    PROVE  ~disk[p].x
  BY DEF AloneInv, Settles

(* An editor, chmod, rm, or a new file.                                       *)
LEMMA UserKeeps ==
    ASSUME OpsInv, User
    PROVE  Keeps
<1> DEFINE M == [Regions -> Vals \cup {None}]
<1>1. PICK p \in Paths :
        \/ \E r \in Regions, v \in EditVals : UserEdit(p, r, v)
        \/ UserChmod(p) \/ UserRemove(p)
        \/ \E v \in EditVals : UserCreate(p, v)
  BY DEF User
<1>2. mine \in [Paths -> M] /\ mine[p] \in M BY DEF OpsInv
<1>3. EditVals \subseteq Vals BY OpsConstants
<1>4. disk[p] \in OnDisk /\ (disk[p] # None => disk[p] \in File) BY PathState
<1>5. CASE \E r \in Regions, v \in EditVals : UserEdit(p, r, v)
  <2>1. PICK r \in Regions, v \in EditVals : UserEdit(p, r, v) BY <1>5
  <2> DEFINE f == [disk[p] EXCEPT !.c[r] = {v}]
             m == [mine[p] EXCEPT ![r] = v]
             c == [disk[p].c EXCEPT ![r] = {v}]
  <2>2. disk[p] # None /\ UserChange(p, f) /\ mine' = [mine EXCEPT ![p] = m]
    BY <2>1 DEF UserEdit
  <2>3. disk[p] \in File /\ disk[p].c \in Content BY <1>4, <2>2, FileIs
  <2>4. c \in Content BY <1>3, <2>3 DEF Content
  <2>5. c[r] = {v} /\ \A s \in Regions : s # r => c[s] = disk[p].c[s] BY <2>3 DEF Content
  <2>6. f = [disk[p] EXCEPT !.c = c] BY <2>3 DEF File
  <2>7. m \in M BY <1>2, <1>3
  <2>8. m[r] = v /\ \A s \in Regions : s # r => m[s] = mine[p][s] BY <1>2
  <2> HIDE DEF c, m, f
  <2>9. f \in File /\ f.c = c /\ f # None BY <2>3, <2>4, <2>6, FileBy, FileIs
  <2>10. Safe(mine[p], fi[p], disk[p]) => Safe(m, Touched(fi[p]), f)
    BY <2>2, <2>5, <2>8, <2>9 DEF Safe
  <2>11. mine'[p] = m /\ mine' = [q \in Paths |-> mine'[q]]
        /\ \A q \in Paths : q # p => mine'[q] = mine[q]
    BY <1>2, <2>2
  <2>12. AloneInv => ~f.x
    <3>1. f.x = disk[p].x BY <2>3, <2>4, <2>6, FileBy
    <3>2. AloneInv => ~disk[p].x BY <2>2, AloneFile
    <3> QED BY <3>1, <3>2
  <2> QED BY <2>2, <2>7, <2>9, <2>10, <2>11, <2>12, UserChangeKeeps DEF OnDisk
<1>6. CASE UserChmod(p)
  <2> DEFINE f == [disk[p] EXCEPT !.x = ~@]
  <2>1. disk[p] # None /\ UserChange(p, f) /\ mine' = mine BY <1>6 DEF UserChmod
  <2>2. disk[p] \in File BY <1>4, <2>1
  <2>3. f \in File /\ f.c = disk[p].c BY <2>2 DEF File
  <2> HIDE DEF f
  <2>4. f # None BY <2>3, FileIs
  <2>5. Safe(mine[p], fi[p], disk[p]) => Safe(mine'[p], Touched(fi[p]), f)
    BY <2>1, <2>3, <2>4 DEF Safe
  <2>6. mine' = [q \in Paths |-> mine'[q]] BY <1>2, <2>1
  <2>7. ~Alone BY <1>6 DEF UserChmod, Alone
  <2> QED BY <1>2, <2>1, <2>3, <2>5, <2>6, <2>7, UserChangeKeeps DEF OnDisk
<1>7. CASE UserRemove(p)
  <2>1. UserChange(p, None) /\ mine' = [mine EXCEPT ![p] = Forget] BY <1>7 DEF UserRemove
  <2>2. mine'[p] = Forget /\ mine' = [q \in Paths |-> mine'[q]]
        /\ \A q \in Paths : q # p => mine'[q] = mine[q]
    BY <1>2, <2>1
  <2>3. mine'[p] \in M /\ Nothing(mine'[p]) BY <2>2, ForgetIs
  <2>4. Safe(mine'[p], Touched(fi[p]), None) BY <2>3, NothingIsSafe
  <2>5. ~Alone BY <1>7 DEF UserRemove, Alone
  <2> QED BY <2>1, <2>2, <2>3, <2>4, <2>5, UserChangeKeeps DEF OnDisk
<1>8. CASE \E v \in EditVals : UserCreate(p, v)
  <2>1. PICK v \in EditVals : UserCreate(p, v) BY <1>8
  <2> DEFINE c == [r \in Regions |-> {v}]
             m == [r \in Regions |-> v]
             f == [x |-> FALSE, c |-> c]
  <2>2. UserChange(p, f) /\ mine' = [mine EXCEPT ![p] = m] BY <2>1 DEF UserCreate
  <2>3. c \in Content /\ m \in M /\ \A r \in Regions : m[r] \in c[r] BY <1>3 DEF Content
  <2> HIDE DEF c, m
  <2>4. f \in File /\ f.c = c BY <2>3, Zenon, NewFileIs
  <2>8. ~f.x BY Zenon
  <2> HIDE DEF f
  <2>5. f # None BY <2>4, FileIs
  <2>6. Safe(m, Touched(fi[p]), f) BY <2>3, <2>4, <2>5 DEF Safe
  <2>7. mine'[p] = m /\ mine' = [q \in Paths |-> mine'[q]]
        /\ \A q \in Paths : q # p => mine'[q] = mine[q]
    BY <1>2, <2>2
  <2> QED BY <2>2, <2>3, <2>4, <2>5, <2>6, <2>7, <2>8, UserChangeKeeps DEF OnDisk
<1> QED BY <1>1, <1>5, <1>6, <1>7, <1>8

-----------------------------------------------------------------------------
(* The theorems.                                                              *)

(* After a checkout the work tree is in order.                                *)
LEMMA InitOK == Init => OpsInv /\ StampInv /\ RecordInv /\ MineInv /\ (Alone => AloneInv)
<1> SUFFICES ASSUME Init
             PROVE  OpsInv /\ StampInv /\ RecordInv /\ MineInv /\ (Alone => AloneInv)
  OBVIOUS
<1> DEFINE r == [tree |-> InitTree, parent |-> 0]
           R == [tree : TreeType, parent : Nat]
<1>1. /\ crashes = 0 /\ hist = <<r>> /\ head = 1 /\ base = 1 /\ disk = InitTree /\ pc = "idle"
      /\ mine = [p \in Paths |-> [s \in Regions |-> None]]
      /\ fi = [p \in Paths |-> IF disk[p] = None THEN None
                               ELSE EntryUpdate(EmptyEntry, disk[p], disk[p].c, 1, TRUE)]
  BY Zenon DEF Init
<1>2. InitTree \in TreeType /\ MaxCommits \in Nat \ {0} BY OpsConstants
<1>3. r \in R /\ r.parent = 0 /\ r.tree = InitTree BY <1>2
<1> HIDE DEF r, R
<1>4. hist \in Seq(R) /\ Len(hist) = 1 /\ DOMAIN hist = {1} /\ hist[1] = r BY <1>1, <1>3
<1>5. HistOK
  <2>1. \A c \in DOMAIN hist : hist[c].parent < c BY <1>3, <1>4
  <2> QED BY <1>1, <1>2, <1>4, <2>1 DEF HistOK, R
<1>6. disk \in [Paths -> OnDisk] BY <1>1, <1>2 DEF TreeType, OnDisk
<1>7. ASSUME NEW p \in Paths
      PROVE  /\ PathFormed(p, fi[p], disk[p]) /\ Stamped(fi[p], disk[p])
             /\ PlainTree(InitTree) => Settles(p, fi[p], disk[p], head)
  <2> DEFINE f == disk[p]
             e == fi[p]
  <2>1. CASE f = None
    <3>1. e = None BY <1>1, <2>1
    <3> QED BY <1>6, <2>1, <3>1, SettlesNew DEF PathFormed, Index, Stamped
  <2>2. CASE f # None
    <3>1. e = EntryUpdate(EmptyEntry, f, f.c, 1, TRUE) BY <1>1, <2>2, Zenon
    <3>2. \E ts \in BOOLEAN : e = EntryUpdate(EmptyEntry, f, f.c, 1, ts) BY <3>1, Zenon
    <3>3. f \in File /\ f \in OnDisk BY <1>6, <2>2 DEF OnDisk
    <3>10. PlainTree(InitTree) => ~f.x BY <1>1, <2>2 DEF PlainTree
    <3>11. At(p, f.c, head) BY <1>1, <1>3, <1>4, <2>2 DEF At, Tree
    <3> HIDE DEF e, f
    <3>4. PICK ts \in BOOLEAN : e = EntryUpdate(EmptyEntry, f, f.c, 1, ts) BY <3>2
    <3>5. f.c \in Content /\ 1 \in DOMAIN hist BY <1>4, <3>3, FileIs
    <3>6. EmptyEntry \in Entry /\ EntryFormed(EmptyEntry) /\ EmptyEntry.stage = "-"
      BY EmptyFormed, EmptyEntryIs
    <3>7. EmptyEntry.stage = "D" => f = None BY <3>6
    <3>8. /\ PathFormed(p, e, f) /\ e # None /\ e.blob = f.c /\ e.stage = EmptyEntry.stage
          /\ f # None => e.x = f.x
      BY <1>5, <3>3, <3>4, <3>5, <3>6, <3>7, BlobFormed
    <3>9. Stamped(e, f) BY <2>2, <3>6, <3>8 DEF Stamped, ComparedBlob
    <3>12. e.commit = head BY <1>1, <1>5, <3>3, <3>4, <3>5, <3>6, BlobCommit
    <3>13. PlainTree(InitTree) => Settles(p, e, f, head)
      BY <2>2, <3>8, <3>10, <3>11, <3>12, SettlesAt
    <3> QED BY <3>8, <3>9, <3>13 DEF e, f
  <2> QED BY <2>1, <2>2
<1>8. fi \in [Paths -> Index]
  <2>1. \A p \in Paths : fi[p] \in Index BY <1>7 DEF PathFormed
  <2>2. fi = [p \in Paths |-> fi[p]] BY <1>1
  <2> QED BY <2>1, <2>2
<1>9. mine \in [Paths -> [Regions -> Vals \cup {None}]] BY <1>1
<1>10. OpsInv BY <1>1, <1>5, <1>6, <1>7, <1>8, <1>9 DEF OpsInv, CommitFormed
<1>11. StampInv BY <1>1, <1>7 DEF StampInv
<1>12. RecordInv BY <1>1 DEF RecordInv, CommitRecordsChanges
<1>13. MineInv BY <1>1 DEF MineInv, Safe
<1>14. ASSUME Alone PROVE AloneInv
  <2>1. PlainTree(InitTree) /\ PlainTree(Side.from) /\ PlainTree(Side.to) BY <1>14 DEF Alone
  <2>2. Plain
    <3>1. \A c \in DOMAIN hist : Tree(c) = InitTree BY <1>3, <1>4 DEF Tree
    <3> QED BY <2>1, <3>1 DEF Plain, Trees
  <2> QED BY <1>1, <1>7, <2>1, <2>2 DEF AloneInv
<1> QED BY <1>10, <1>11, <1>12, <1>13, <1>14

(* Every step, whoever takes it.                                              *)
LEMMA StepKeeps ==
    ASSUME OpsInv, [Next]_vars
    PROVE  Keeps
<1>1. CASE UNCHANGED vars
  <2>1. UNCHANGED <<disk, fi, base, hist, head, pc, cts, tip, new, mine, crashes>> BY <1>1 DEF vars
  <2>2. OpsInv'
    BY <2>1 DEF OpsInv, HistOK, PathFormed, EntryFormed, Tree, CommitFormed
  <2>3. StampInv => StampInv' BY <2>1 DEF StampInv
  <2>4. RecordInv => RecordInv' BY <2>1 DEF RecordInv, CommitRecordsChanges, Tree
  <2>5. MineInv => MineInv' BY <2>1 DEF MineInv
  <2>6. AloneInv => AloneInv'
    BY <2>1 DEF AloneInv, Plain, PlainTree, Trees, Tree, Settles, At
  <2> QED BY <2>2, <2>3, <2>4, <2>5, <2>6 DEF Keeps
<1>2. CASE Command
  <2>1. CASE \E p \in Paths :
                \/ "add" \in Commands /\ Add(p)
                \/ "remove" \in Commands /\ \E flags \in SUBSET RemoveFlags : Remove(p, flags)
                \/ "revert" \in Commands /\ Revert(p)
                \/ "stage" \in Commands /\ Stage(p)
                \/ "unstage" \in Commands /\ Unstage(p)
    BY <2>1, AddKeeps, RemoveKeeps, RevertKeeps, StageKeeps, UnstageKeeps
  <2>2. CASE \E S \in {Paths} \cup {{p} : p \in Paths} :
                \/ "commit" \in Commands /\ CommitCollect(S)
                \/ "update" \in Commands /\ Update(S)
    <3>1. PICK S \in {Paths} \cup {{p} : p \in Paths} : CommitCollect(S) \/ Update(S) BY <2>2
    <3>2. S \subseteq Paths OBVIOUS
    <3> QED BY <3>1, <3>2, CommitCollectKeeps, UpdateKeeps
  <2>3. CASE CommitWrite BY <2>3, CommitWriteKeeps
  <2>4. CASE CommitFail BY <2>4, CommitAbortKeeps DEF CommitFail, bounds
  <2>9. CASE Crash
    <3>1. ~(Alone /\ AloneInv) BY <2>9 DEF Crash, Alone, AloneInv
    <3> QED BY <2>9, <3>1, CommitAbortKeeps DEF Crash
  <2>5. CASE CommitSetBase BY <2>5, CommitSetBaseKeeps
  <2>6. CASE CommitIndex BY <2>6, CommitIndexKeeps
  <2>7. CASE Cherrypick BY <2>7, CherrypickKeeps
  <2>8. CASE \E c \in DOMAIN hist : Backout(c) BY <2>8, BackoutKeeps
  <2> QED BY <1>2, <2>1, <2>2, <2>3, <2>4, <2>5, <2>6, <2>7, <2>8, <2>9 DEF Command
<1>3. CASE User BY <1>3, UserKeeps
<1>4. CASE \E ch \in Others : OthersCommit(ch[1], ch[2])
  <2>1. PICK ch \in Others : OthersCommit(ch[1], ch[2]) BY <1>4
  <2>2. ch[1] \in Paths /\ ch[2] \in File \cup {None} /\ Others # {} BY OpsConstants
  <2> QED BY <2>1, <2>2, OthersCommitKeeps
<1> QED BY <1>1, <1>2, <1>3, <1>4 DEF Next

(* The work tree stays in order, whatever happens.                            *)
LEMMA OpsFormed == Spec => []OpsInv
<1>1. Init => OpsInv BY InitOK
<1>2. OpsInv /\ [Next]_vars => OpsInv' BY StepKeeps DEF Keeps
<1> QED BY <1>1, <1>2, PTL DEF Spec

(* Blobs that are at their commit belong to it.                               *)
LEMMA AloneMatches == OpsInv /\ AloneInv => IndexMatchesCommit
  BY DEF AloneInv, Settles, At, IndexMatchesCommit

(* Recorded time stamps stay reliable.                                        *)
LEMMA StampsReliable ==
    ASSUME EditPoints \subseteq {"editor"}
    PROVE  Spec /\ []NoFileInTheWay => []StampInv
<1>1. Init => StampInv BY InitOK
<1>2. OpsInv /\ NoFileInTheWay /\ StampInv /\ [Next]_vars => StampInv' BY StepKeeps DEF Keeps
<1> QED BY <1>1, <1>2, OpsFormed, PTL DEF Spec

(* A file that passes for unmodified has the text of its entry's blob, as     *)
(* long as no unversioned file is where the branch has one and the user does  *)
(* not edit a file while got commit is past its last look at the files.       *)
THEOREM OpsTrustTimestamps ==
    ASSUME EditPoints \subseteq {"editor"}
    PROVE  Spec /\ []NoFileInTheWay => []FreshMeansUnmodified
<1>1. ASSUME OpsInv, StampInv PROVE FreshMeansUnmodified
  <2> SUFFICES ASSUME NEW p \in Paths, fi[p] # None, disk[p] # None,
                      GetFileStatus(fi[p], disk[p]) = NoChange
               PROVE  disk[p].c = ComparedBlob(fi[p])
    BY DEF FreshMeansUnmodified
  <2>1. fi[p] \in Entry /\ disk[p] \in OnDisk BY <1>1, PathState
  <2>2. Stamped(fi[p], disk[p]) BY <1>1 DEF StampInv
  <2> QED BY <2>1, <2>2, StatusIs
<1>2. OpsInv /\ StampInv => FreshMeansUnmodified BY <1>1
<1> QED BY <1>2, OpsFormed, StampsReliable, PTL

(* The commit that got commit makes is the head it was started with, with     *)
(* exactly the changes that were collected, whatever others commit meanwhile, *)
(* whatever the user edits, and wherever it is killed.                        *)
THEOREM CommitHasChanges == Spec /\ []IndexMatchesCommit => []CommitRecordsChanges
<1>1. Init => RecordInv BY InitOK
<1>2. OpsInv /\ IndexMatchesCommit /\ RecordInv /\ [Next]_vars => RecordInv'
  BY StepKeeps DEF Keeps
<1>3. RecordInv => CommitRecordsChanges BY DEF RecordInv
<1> QED BY <1>1, <1>2, <1>3, OpsFormed, PTL DEF Spec

(* Somebody who works alone keeps an index that follows the branch.           *)
LEMMA AloneSettled ==
    ASSUME Alone
    PROVE  Spec => [](AloneInv /\ RecordInv)
<1>1. Init => AloneInv /\ RecordInv BY InitOK
<1>2. OpsInv /\ AloneInv /\ RecordInv /\ [Next]_vars => AloneInv' /\ RecordInv'
  <2>1. OpsInv /\ AloneInv => IndexMatchesCommit BY AloneMatches
  <2> QED BY <2>1, StepKeeps DEF Keeps
<1> QED BY <1>1, <1>2, OpsFormed, PTL DEF Spec

(* The blob and the commit of an entry belong together when somebody works    *)
(* alone on the branch, is not interrupted, deletes files with got remove     *)
(* only and does not use the executable bit: then no command leaves an entry  *)
(* with the blob of one commit and the name of another.                       *)
THEOREM AloneIndexMatches ==
    ASSUME Alone
    PROVE  Spec => []IndexMatchesCommit
<1>1. OpsInv /\ AloneInv => IndexMatchesCommit BY AloneMatches
<1> QED BY <1>1, OpsFormed, AloneSettled, PTL

(* There a commit has exactly the changes that were collected.                *)
THEOREM AloneCommitHasChanges ==
    ASSUME Alone
    PROVE  Spec => []CommitRecordsChanges
<1> QED BY AloneIndexMatches, CommitHasChanges, PTL

(* No command loses what the user wrote: it is in the file or in the staged   *)
(* blob until it is committed or discarded on purpose.                        *)
THEOREM OpsKeepChanges ==
    ASSUME EditPoints \subseteq {"editor"}
    PROVE  Spec /\ []NoFileInTheWay /\ []NewText /\ []IndexMatchesCommit => []LocalChangesSurvive
<1>1. Init => RecordInv /\ MineInv BY InitOK
<1>2. OpsInv /\ IndexMatchesCommit /\ RecordInv /\ [Next]_vars => RecordInv'
  BY StepKeeps DEF Keeps
<1>3. OpsInv /\ StampInv /\ RecordInv /\ IndexMatchesCommit /\ NewText /\ MineInv /\ [Next]_vars
        => MineInv'
  BY StepKeeps DEF Keeps
<1>4. ASSUME OpsInv, MineInv PROVE LocalChangesSurvive
  <2> SUFFICES ASSUME NEW p \in Paths, NEW r \in Regions, mine[p][r] # None
               PROVE  \/ disk[p] # None /\ mine[p][r] \in disk[p].c[r]
                      \/ fi[p] # None /\ fi[p].sblob # None /\ mine[p][r] \in fi[p].sblob[r]
    BY DEF LocalChangesSurvive
  <2>1. Safe(mine[p], fi[p], disk[p]) BY <1>4 DEF MineInv
  <2>2. fi[p] # None => EntryFormed(fi[p]) BY <1>4, PathState DEF PathFormed
  <2> QED BY <2>1, <2>2 DEF Safe, EntryFormed
<1>5. OpsInv /\ MineInv => LocalChangesSurvive BY <1>4
<1> QED BY <1>1, <1>2, <1>3, <1>5, OpsFormed, StampsReliable, PTL DEF Spec
=============================================================================
