------------------------ MODULE WorktreeUpdateProofs ------------------------
(* Proofs about WorktreeUpdate: for any files, regions, commits and number of *)
(* edits, interrupts and kills, `got update' takes a file for unmodified only *)
(* if it is, preserves what the user wrote, and keeps the index true to the   *)
(* commits.                                                                   *)
EXTENDS WorktreeUpdate, TLAPS

(* No commit that can be updated to has a file where an earlier base commit   *)
(* has none.  Otherwise install_blob may find an unversioned file in its      *)
(* place, leave it alone, and record it as unmodified.                        *)
NoFileAppears ==
    \A c \in Targets \cup {InitCommit}, d \in Targets, p \in Paths :
        (d >= c \/ Backwards) /\ Tree[c][p] = None => Tree[d][p] = None

(* What the user writes is in no commit: text that is equal to a commit's is  *)
(* no local change.                                                           *)
EditsAreNew ==
    \A v \in EditVals, c \in Commits, p \in Paths, r \in Regions :
        Tree[c][p] # None => v \notin Tree[c][p].c[r]

-----------------------------------------------------------------------------
OnDisk == File \cup {None, Dir}
Index == Entry \cup {None}
Blobs(p) == {Tree[c][p].c : c \in {d \in Commits : Tree[d][p] # None}}

(* An entry of the index, for a path whose file is f: its blob is one of the  *)
(* path's, and recorded time stamps mean that the file has this blob's text   *)
(* and the recorded mode.                                                     *)
EntryOK(p, ie, f) ==
    ie # None =>
        /\ ie \in Entry /\ ie.stage = "-" /\ ~ie.nofile
        /\ ie.blob # None => ie.blob \in Blobs(p)
        /\ ie.fresh => ie.blob # None /\ (f \notin {None, Dir} => f.x = ie.x /\ f.c = ie.blob)

PathOK(p) ==
    /\ EntryOK(p, fi[p], disk[p]) /\ EntryOK(p, mi[p], disk[p])
    /\ fi[p] = None => Tree[base][p] = None
    /\ pc \in {"walk", "sync"} /\ mi[p] = None => Tree[base][p] = None
    /\ inst = p /\ inst # None => pc = "walk" /\ Tree[base][p] # None

UpdateInv ==
    /\ base \in Targets \cup {InitCommit} /\ pc \in {"idle", "open", "walk", "sync"}
    /\ disk \in [Paths -> OnDisk] /\ fi \in [Paths -> Index] /\ mi \in [Paths -> Index]
    /\ \A p \in Paths : PathOK(p)

(* A file is being written in the course of a walk that is not at its end.    *)
Writing == inst # None => pc = "walk" /\ todo # <<>>

(* What the user wrote is there, and nothing is where a file is being written. *)
Preserved(p) ==
    /\ \A r \in Regions : mine[p][r] # None => /\ disk[p] \notin {None, Dir}
                                              /\ mine[p][r] \in disk[p].c[r]
    /\ inst = p /\ inst # None => \A r \in Regions : mine[p][r] = None

MineInv ==
    /\ mine \in [Paths -> [Regions -> EditVals \cup {None}]]
    /\ \A p \in Paths : Preserved(p)

(* The user's text in a file f is in g, too.                                  *)
Keeps(f, g) ==
    f \in File => \A r \in Regions, w \in EditVals : w \in f.c[r] => g \in File /\ w \in g.c[r]

(* An outcome o of update_blob or delete_blob for a path whose file was f.    *)
OutcomeOK(p, f, o) ==
    /\ o.f \in OnDisk /\ o.ie \in Index /\ EntryOK(p, o.ie, o.f)
    /\ EditsAreNew => Keeps(f, o.f)

-----------------------------------------------------------------------------
(* Operators of FileStatus, for one path.                                     *)

(* Fields of files and entries, and what is none.                             *)
LEMMA FileIs == ASSUME NEW f \in File
                PROVE  f.x \in BOOLEAN /\ f.c \in Content /\ f # None /\ f # Dir
  BY FileConstants DEF File

(* An unmodified file has a status of its own.                                *)
LEMMA NoChangeIs == NoChange \notin {"M", "A", "D", "C", "!", "m", "~", "?"}
  BY Zenon DEF NoChange

(* What get_file_status makes of an entry in order.                           *)
LEMMA StatusIs ==
    ASSUME NEW p, NEW ie \in Entry, NEW f \in OnDisk, EntryOK(p, ie, f), NEW st,
           st = GetFileStatus(ie, f)
    PROVE  /\ f = None => st = "!"
           /\ f = Dir => st = "~"
           /\ f \in File /\ ie.blob = None => st = "A"
           /\ f \in File /\ ie.blob # None => st \in {NoChange, "M", "C", "m"}
           /\ f \in File /\ st = NoChange => f.c = ie.blob
           /\ st \in {"M", "C", "A", "m"} => f \in File /\ ~ie.fresh
<1>0. ie # None BY FileConstants
<1>1. ie # None /\ ie.stage = "-" /\ ~ie.nofile BY <1>0 DEF EntryOK
<1>2. ie.fresh => ie.blob # None /\ (f \notin {None, Dir} => f.x = ie.x /\ f.c = ie.blob)
  BY <1>1 DEF EntryOK
<1>3. ComparedBlob(ie) = ie.blob BY <1>1 DEF ComparedBlob
<1>4. CASE f = None
  <2>1. st = "!" BY <1>1, <1>4, FileConstants DEF GetFileStatus
  <2> QED BY <1>4, <2>1, FileConstants
<1>5. CASE f = Dir
  <2>1. st = "~" BY <1>1, <1>5, FileConstants DEF GetFileStatus
  <2> QED BY <1>5, <2>1, FileConstants
<1>6. CASE f \in File /\ ie.blob = None
  <2>1. f # None /\ f # Dir BY <1>6, FileIs
  <2>2. st = "A" BY <1>1, <1>6, <2>1 DEF GetFileStatus
  <2> QED BY <1>2, <1>6, <2>1, <2>2, NoChangeIs
<1>7. CASE f \in File /\ ie.blob # None
  <2>1. f # None /\ f # Dir BY <1>7, FileIs
  <2>2. st = IF ~StatInfoDiffers(ie, f) THEN NoChange
             ELSE IF f.c # ie.blob THEN IF HasMarkers(f.c) THEN "C" ELSE "M"
                  ELSE IF XbitDiffers(ie, f) THEN "m" ELSE NoChange
    BY <1>1, <1>3, <1>7, <2>1 DEF GetFileStatus
  <2>3. ie.fresh => ~StatInfoDiffers(ie, f) BY <1>2, <2>1 DEF StatInfoDiffers, XbitDiffers
  <2>4. ~StatInfoDiffers(ie, f) => f.c = ie.blob BY <1>2, <2>1 DEF StatInfoDiffers
  <2> QED BY <1>7, <2>1, <2>2, <2>3, <2>4, NoChangeIs
<1> QED BY <1>4, <1>5, <1>6, <1>7 DEF OnDisk

(* What got_fileindex_entry_update records of a file.                         *)
LEMMA EntryUpdateIs ==
    ASSUME NEW ie \in Entry, NEW f \in File, NEW blob \in Content \cup {None},
           NEW commit \in Commits \cup {None}, NEW ts \in BOOLEAN, NEW e,
           e = EntryUpdate(ie, f, blob, commit, ts)
    PROVE  /\ e \in Entry /\ e # None /\ e.stage = ie.stage /\ ~e.nofile
           /\ e.blob = blob /\ e.x = f.x /\ (e.fresh => ie.fresh \/ ts)
           /\ commit # None => e.hasCommit /\ e.commit = commit
<1>1. f # None /\ f.x \in BOOLEAN BY FileIs
<1> DEFINE c == IF commit = None THEN ie.commit ELSE commit
           fresh == ie.fresh \/ ts
           h == commit # None
           n == ie.nofile /\ f = None
<1>2. /\ ie.fresh \in BOOLEAN /\ ie.nofile \in BOOLEAN /\ ie.commit \in Commits \cup {None}
  BY DEF Entry
<1>3. fresh \in BOOLEAN /\ c \in Commits \cup {None} /\ h \in BOOLEAN /\ n = FALSE BY <1>1, <1>2
<1>4. e = [ie EXCEPT !.nofile = n, !.fresh = fresh, !.x = f.x, !.blob = blob,
                     !.commit = c, !.hasCommit = h]
  <2>1. (IF f = None THEN ie.fresh ELSE fresh) = fresh /\ (IF f = None THEN ie.x ELSE f.x) = f.x
    BY <1>1
  <2> QED BY <2>1, Zenon DEF EntryUpdate
<1> HIDE DEF c, fresh, h, n
<1>5. /\ e \in Entry /\ e.stage = ie.stage /\ e.nofile = n /\ e.blob = blob /\ e.x = f.x
      /\ e.fresh = fresh /\ e.commit = c /\ e.hasCommit = h
  <2>1. DOMAIN ie = {"blob", "commit", "hasCommit", "nofile", "stage", "sblob", "x", "fresh"}
    BY DEF Entry
  <2>2. /\ e.stage = ie.stage /\ e.nofile = n /\ e.blob = blob /\ e.x = f.x /\ e.fresh = fresh
        /\ e.commit = c /\ e.hasCommit = h
    BY <1>4, <2>1
  <2>3. e \in Entry BY <1>1, <1>3, <1>4 DEF Entry
  <2> QED BY <2>2, <2>3
<1>6. e # None BY <1>5, FileConstants
<1> QED BY <1>3, <1>5, <1>6 DEF fresh, c, h

(* An entry that is brought up to date with what is on disk.                  *)
LEMMA EntryUpdateOK ==
    ASSUME NEW p, NEW ie \in Entry, ie.stage = "-", NEW f \in File,
           NEW blob \in Blobs(p) \cup {None}, blob \in Content \cup {None},
           NEW commit \in Commits \cup {None}, NEW ts \in BOOLEAN, ie.fresh \/ ts => f.c = blob,
           NEW e, e = EntryUpdate(ie, f, blob, commit, ts)
    PROVE  e \in Entry /\ e # None /\ EntryOK(p, e, f)
<1>1. /\ e \in Entry /\ e # None /\ e.stage = ie.stage /\ ~e.nofile
      /\ e.blob = blob /\ e.x = f.x /\ (e.fresh => ie.fresh \/ ts)
  BY EntryUpdateIs
<1>2. f.c \in Content /\ None \notin Content BY FileIs, FileConstants
<1> QED BY <1>1, <1>2 DEF EntryOK

(* A file that is written or removed has an entry whose time stamps are old.  *)
LEMMA TouchedOK ==
    ASSUME NEW p, NEW ie \in Index, NEW f, NEW g, EntryOK(p, ie, f), NEW e, e = Touched(ie)
    PROVE  /\ e \in Index /\ EntryOK(p, e, g) /\ (e = None <=> ie = None)
           /\ e # None => e \in Entry /\ e.stage = "-" /\ ~e.fresh /\ e.blob = ie.blob
<1>1. CASE ie = None BY <1>1 DEF Touched, EntryOK, Index
<1>2. CASE ie # None
  <2>1. ie \in Entry /\ ie.stage = "-" /\ ~ie.nofile /\ (ie.blob # None => ie.blob \in Blobs(p))
    BY <1>2 DEF Index, EntryOK
  <2>2. e = [ie EXCEPT !.fresh = FALSE] BY <1>2 DEF Touched
  <2>3. /\ e \in Entry /\ e.stage = ie.stage /\ e.nofile = ie.nofile /\ e.fresh = FALSE
        /\ e.blob = ie.blob
    BY <2>1, <2>2 DEF Entry
  <2>4. e # None BY <2>3, FileConstants
  <2> QED BY <1>2, <2>1, <2>3, <2>4 DEF EntryOK, Index
<1> QED BY <1>1, <1>2

(* diff3 keeps what is in the file but in neither of the versions.            *)
LEMMA MergeKeeps ==
    ASSUME NEW orig \in Content \cup {None}, NEW ours \in Content, NEW theirs \in Content,
           NEW m, m = MergeFile(orig, ours, theirs)
    PROVE  /\ m \in Content
           /\ \A r \in Regions : \A w :
                w \in ours[r] /\ w \notin theirs[r] /\ (orig # None => w \notin orig[r])
                => w \in m[r]
<1> DEFINE Part(r) == CASE ours[r] = theirs[r] -> ours[r]
             [] orig # None /\ ours[r] # theirs[r] /\ ours[r] = orig[r] -> theirs[r]
             [] orig # None /\ ours[r] # theirs[r] /\ theirs[r] = orig[r] -> ours[r]
             [] OTHER -> ours[r] \cup theirs[r]
<1>0. m = [r \in Regions |-> Part(r)] BY DEF MergeFile
<1>1. ASSUME NEW r \in Regions
      PROVE  /\ m[r] \in (SUBSET Vals) \ {{}}
             /\ \A w :
                  w \in ours[r] /\ w \notin theirs[r] /\ (orig # None => w \notin orig[r])
                  => w \in m[r]
  <2>1. ours[r] \in (SUBSET Vals) \ {{}} /\ theirs[r] \in (SUBSET Vals) \ {{}} BY DEF Content
  <2>2. m[r] = Part(r) BY <1>0
  <2>3. CASE ours[r] = theirs[r]
    <3>1. m[r] = ours[r] BY <2>2, <2>3
    <3> QED BY <2>1, <3>1
  <2>4. CASE orig # None /\ ours[r] # theirs[r] /\ ours[r] = orig[r]
    <3>1. m[r] = theirs[r] BY <2>2, <2>4
    <3> QED BY <2>1, <2>4, <3>1
  <2>5. CASE orig # None /\ ours[r] # theirs[r] /\ ours[r] # orig[r] /\ theirs[r] = orig[r]
    <3>1. m[r] = ours[r] BY <2>2, <2>5
    <3> QED BY <2>1, <3>1
  <2>6. CASE ours[r] # theirs[r] /\ ~(orig # None /\ (ours[r] = orig[r] \/ theirs[r] = orig[r]))
    <3>1. m[r] = ours[r] \cup theirs[r] BY <2>2, <2>6
    <3> QED BY <2>1, <3>1
  <2> QED BY <2>3, <2>4, <2>5, <2>6
<1> HIDE DEF Part
<1>2. \A r \in Regions : Part(r) \in (SUBSET Vals) \ {{}} BY <1>0, <1>1
<1>3. m \in Content BY <1>0, <1>2, Zenon DEF Content
<1> QED BY <1>1, <1>3

(* The blobs of a path.                                                       *)
LEMMA TreeBlob ==
    ASSUME NEW p \in Paths, NEW c \in Commits, Tree[c][p] # None
    PROVE  Tree[c][p] \in File /\ Tree[c][p].c \in Blobs(p) /\ Tree[c][p].c \in Content
<1>1. Tree[c][p] \in File BY UpdateConstants
<1> QED BY <1>1, FileIs DEF Blobs
(* They are contents without text of the user's.                              *)
LEMMA BlobIs ==
    ASSUME NEW p \in Paths, NEW b \in Blobs(p)
    PROVE  /\ b \in Content /\ b # None
           /\ EditsAreNew => \A r \in Regions, w \in EditVals : w \notin b[r]
<1>1. PICK c \in Commits : Tree[c][p] # None /\ b = Tree[c][p].c BY DEF Blobs
<1>2. b \in Content BY <1>1, TreeBlob
<1> QED BY <1>1, <1>2, FileConstants DEF EditsAreNew

(* A file that stays as it is.                                                *)
LEMMA Untouched ==
    ASSUME NEW p, NEW f \in OnDisk, NEW e \in Index, EntryOK(p, e, f), NEW o, o = Done(f, e)
    PROVE  OutcomeOK(p, f, o)
<1>1. o.f = f /\ o.ie = e BY DEF Done
<1>2. Keeps(f, f) BY DEF Keeps
<1> QED BY <1>1, <1>2 DEF OutcomeOK

(* install_blob over an unmodified file, or where there is none: the file is  *)
(* the incoming one, and its entry says so.                                   *)
LEMMA InstallBlobOK ==
    ASSUME NEW p \in Paths, NEW c \in Commits, Tree[c][p] # None, NEW ie \in Entry, NEW f, NEW g,
           EntryOK(p, ie, g), NEW o, o = InstallBlob(ie, f, Tree[c][p], c)
    PROVE  ~o.err /\ o.f = Tree[c][p] /\ o.ie \in Entry /\ EntryOK(p, o.ie, o.f)
<1> DEFINE te == Tree[c][p]
           ie1 == Touched(ie)
           e == EntryUpdate(ie1, te, te.c, c, TRUE)
<1>1. te \in File /\ te.c \in Blobs(p) /\ te.c \in Content BY TreeBlob
<1>2. te # None /\ te # Dir /\ ie # None BY <1>1, FileIs, FileConstants
<1>3. ie1 \in Entry /\ ie1.stage = "-" /\ ~ie1.fresh BY <1>2, TouchedOK DEF Index
<1> HIDE DEF ie1, te
<1>4. e \in Entry /\ e # None /\ EntryOK(p, e, te) BY <1>1, <1>3, EntryUpdateOK
<1>5. ~EntryUpdateFails(ie1, te) BY <1>2 DEF EntryUpdateFails
<1>6. o = Done(te, e) BY <1>2, <1>5 DEF InstallBlob, te, ie1
<1>7. o.err = FALSE /\ o.f = te /\ o.ie = e BY <1>6 DEF Done
<1> HIDE DEF e
<1> QED BY <1>4, <1>7 DEF te

(* merge_blob for a modified or added file: the user's text is in the result. *)
LEMMA MergeBlobOK ==
    ASSUME NEW p \in Paths, NEW c \in Commits, Tree[c][p] # None, NEW ie \in Entry, NEW f \in File,
           EntryOK(p, ie, f), NEW o, o = MergeBlob(ie, f, Tree[c][p], c)
    PROVE  OutcomeOK(p, f, o) /\ o.ie # None
<1> DEFINE te == Tree[c][p]
           ie1 == Touched(ie)
           m == MergeFile(ie.blob, f.c, te.c)
           subsumed == ~HasMarkers(m) /\ m = te.c
           f2 == [f EXCEPT !.c = m]
           e == EntryUpdate(ie1, f2, te.c, c, subsumed)
<1>1. te \in File /\ te.c \in Blobs(p) /\ te.c \in Content BY TreeBlob
<1>2. /\ f.c \in Content /\ ie # None /\ ie.blob \in Content \cup {None}
      /\ ie.blob # None => ie.blob \in Blobs(p)
  BY FileIs, FileConstants DEF Entry, EntryOK
<1>3. ie1 \in Entry /\ ie1.stage = "-" /\ ~ie1.fresh BY <1>2, TouchedOK DEF Index
<1>4. m \in Content BY <1>1, <1>2, MergeKeeps
<1>5. o = Done(f2, e) BY DEF MergeBlob
<1> HIDE DEF te, ie1
<1>6. \A r \in Regions : \A w :
        w \in f.c[r] /\ w \notin te.c[r] /\ (ie.blob # None => w \notin ie.blob[r]) => w \in m[r]
  BY <1>1, <1>2, MergeKeeps
<1> HIDE DEF m
<1>7. f2 \in File /\ f2.c = m BY <1>4 DEF File
<1> HIDE DEF f2
<1>8. subsumed \in BOOLEAN /\ (ie1.fresh \/ subsumed => f2.c = te.c) BY <1>3, <1>7
<1> HIDE DEF subsumed
<1>9. e \in Entry /\ e # None /\ EntryOK(p, e, f2) BY <1>1, <1>3, <1>7, <1>8, EntryUpdateOK
<1>10. o.f = f2 /\ o.ie = e BY <1>5 DEF Done
<1> HIDE DEF e
<1>11. ASSUME EditsAreNew PROVE Keeps(f, f2)
  <2>1. \A r \in Regions, w \in EditVals :
          w \notin te.c[r] /\ (ie.blob # None => w \notin ie.blob[r])
    BY <1>1, <1>2, <1>11, BlobIs
  <2> QED BY <1>6, <1>7, <2>1 DEF Keeps
<1> QED BY <1>7, <1>9, <1>10, <1>11 DEF OutcomeOK, OnDisk, Index

(* sync_timestamps records the time stamps of unmodified files only.          *)
LEMMA SyncTimestampsOK ==
    ASSUME NEW p \in Paths, NEW ie \in Entry, NEW f \in OnDisk, EntryOK(p, ie, f),
           NEW e, e = SyncTimestamps(ie, f)
    PROVE  e \in Entry /\ e # None /\ EntryOK(p, e, f)
<1> DEFINE st == GetFileStatus(ie, f)
<1>0. ie # None BY FileConstants
<1>1. CASE st = NoChange /\ StatInfoDiffers(ie, f)
  <2>1. e = EntryUpdate(ie, f, ie.blob, ie.commit, TRUE) BY <1>1 DEF SyncTimestamps
  <2>2. f \in File /\ f.c = ie.blob BY <1>1, StatusIs, NoChangeIs DEF OnDisk
  <2>3. f.c \in Content /\ f.c # None BY <2>2, FileIs, FileConstants
  <2>4. ie.stage = "-" /\ ie.blob \in Blobs(p) /\ ie.commit \in Commits \cup {None}
    BY <1>0, <2>2, <2>3 DEF EntryOK, Entry
  <2> QED BY <2>1, <2>2, <2>3, <2>4, EntryUpdateOK
<1>2. CASE ~(st = NoChange /\ StatInfoDiffers(ie, f))
  <2>1. e = ie BY <1>2 DEF SyncTimestamps
  <2> QED BY <1>0, <2>1
<1> QED BY <1>1, <1>2

(* update_blob where there is something on disk: the entry stays in order,    *)
(* and what the user wrote stays in the file.                                 *)
LEMMA UpdateBlobOK ==
    ASSUME NEW p \in Paths, NEW c \in Commits, Tree[c][p] # None, NEW ie \in Entry,
           NEW f \in OnDisk, f # None, EntryOK(p, ie, f),
           NEW o, o = UpdateBlob(ie, f, Tree[c][p], c)
    PROVE  OutcomeOK(p, f, o) /\ o.ie # None
<1> DEFINE te == Tree[c][p]
           st == GetFileStatus(ie, f)
<1>1. te \in File /\ te.c \in Blobs(p) /\ te.c \in Content BY TreeBlob
<1>2. ie # None BY FileConstants
<1>3. ie.stage = "-" /\ ie \in Index BY <1>2 DEF EntryOK, Index
<1>4. /\ f = Dir => st = "~"
      /\ f \in File => st \in {NoChange, "M", "C", "m", "A"}
      /\ f \in File /\ st = NoChange => f.c = ie.blob
      /\ st \in {"M", "C", "A", "m"} => f \in File /\ ~ie.fresh
  BY StatusIs
<1>5. UpdateStatus(ie, f) = st BY <1>2 DEF UpdateStatus
<1>6. o = CASE st \in {"~", "C"} -> Done(f, ie)
            [] OTHER ->
               IF UpToDate(ie, f, te, c) THEN Done(f, SyncTimestamps(ie, f))
               ELSE CASE st \in {"M", "A"} -> MergeBlob(ie, f, te, c)
                      [] st \in {"m", "D"} ->
                           IF EntryUpdateFails(ie, f) THEN Fail(f, ie)
                           ELSE Done(f, EntryUpdate(ie, f, te.c, c, FALSE))
                      [] OTHER -> InstallBlob(ie, f, te, c)
  BY <1>2, <1>3, <1>5 DEF UpdateBlob
<1> HIDE DEF te, st
<1>7. CASE st \in {"~", "C"}
  <2>1. o = Done(f, ie) BY <1>6, <1>7
  <2>2. o.ie = ie BY <2>1 DEF Done
  <2> QED BY <1>2, <1>3, <2>1, <2>2, Untouched
<1>8. CASE st \notin {"~", "C"} /\ UpToDate(ie, f, te, c)
  <2> DEFINE e == SyncTimestamps(ie, f)
  <2>1. o = Done(f, e) BY <1>6, <1>8
  <2>2. o.ie = e BY <2>1 DEF Done
  <2>3. e \in Entry /\ e # None /\ EntryOK(p, e, f) BY SyncTimestampsOK
  <2> HIDE DEF e
  <2> QED BY <2>1, <2>2, <2>3, Untouched DEF Index
<1>9. CASE st \in {"M", "A"} /\ ~UpToDate(ie, f, te, c)
  <2>1. o = MergeBlob(ie, f, te, c) BY <1>6, <1>9
  <2>2. f \in File BY <1>4, <1>9
  <2> QED BY <2>1, <2>2, MergeBlobOK DEF te
<1>10. CASE st = "m" /\ ~UpToDate(ie, f, te, c)
  <2> DEFINE e == EntryUpdate(ie, f, te.c, c, FALSE)
  <2>1. f \in File /\ ~ie.fresh BY <1>4, <1>10
  <2>2. ~EntryUpdateFails(ie, f) BY <2>1, FileIs DEF EntryUpdateFails
  <2>3. o = Done(f, e) BY <1>6, <1>10, <2>2
  <2>4. o.ie = e BY <2>3 DEF Done
  <2>5. e \in Entry /\ e # None /\ EntryOK(p, e, f) BY <1>1, <1>3, <2>1, EntryUpdateOK
  <2> HIDE DEF e
  <2> QED BY <2>3, <2>4, <2>5, Untouched DEF Index
<1>11. CASE st = NoChange /\ ~UpToDate(ie, f, te, c)
  <2>1. o = InstallBlob(ie, f, te, c) BY <1>6, <1>11, NoChangeIs
  <2>2. o.f = te /\ o.ie \in Entry /\ EntryOK(p, o.ie, o.f) BY <2>1, InstallBlobOK DEF te
  <2>3. f \in File /\ f.c = ie.blob BY <1>4, <1>11, NoChangeIs DEF OnDisk
  <2>4. ie.blob \in Blobs(p) BY <1>2, <2>3, FileIs, FileConstants DEF EntryOK
  <2>5. EditsAreNew => Keeps(f, te) BY <2>3, <2>4, BlobIs DEF Keeps
  <2>6. o.ie # None BY <2>2, FileConstants
  <2> QED BY <1>1, <2>2, <2>5, <2>6 DEF OutcomeOK, OnDisk, Index
<1> QED BY <1>4, <1>7, <1>8, <1>9, <1>10, <1>11 DEF OnDisk

(* delete_blob: a file is removed only if it is unmodified.                   *)
LEMMA DeleteBlobOK ==
    ASSUME NEW p \in Paths, NEW ie \in Entry, NEW f \in OnDisk, EntryOK(p, ie, f),
           NEW o \in DeleteBlob(ie, f)
    PROVE  OutcomeOK(p, f, o)
<1> DEFINE st == GetFileStatus(ie, f)
<1>2. ie # None BY FileConstants
<1>3. ie.stage = "-" /\ ie \in Index BY <1>2 DEF EntryOK, Index
<1>4. /\ f \in File /\ st = NoChange => f.c = ie.blob
      /\ st \in {"M", "C", "A", "m"} => f \in File /\ ~ie.fresh
  BY StatusIs
<1>5. \/ st \in {"M", "C", "A"} /\ o = Done(f, EntryUpdate(ie, f, None, None, FALSE))
      \/ st \notin {"M", "C", "A"} /\ o = Done(IF st = NoChange THEN None ELSE f, None)
      \/ o = Fail(f, ie)
  BY <1>3 DEF DeleteBlob
<1> HIDE DEF st
<1>6. CASE st \in {"M", "C", "A"} /\ o = Done(f, EntryUpdate(ie, f, None, None, FALSE))
  <2> DEFINE e == EntryUpdate(ie, f, None, None, FALSE)
  <2>1. e \in Entry /\ EntryOK(p, e, f) BY <1>3, <1>4, <1>6, EntryUpdateOK
  <2> HIDE DEF e
  <2> QED BY <1>6, <2>1, Untouched DEF Index, e
<1>7. CASE o = Fail(f, ie)
  <2>1. o.f = f /\ o.ie = ie BY <1>7 DEF Fail
  <2>2. Keeps(f, f) BY DEF Keeps
  <2> QED BY <1>3, <2>1, <2>2 DEF OutcomeOK
<1>8. CASE st # NoChange /\ o = Done(f, None)
  <2>1. EntryOK(p, None, f) BY DEF EntryOK
  <2> QED BY <1>8, <2>1, Untouched DEF Index
<1>9. CASE st = NoChange /\ o = Done(None, None)
  <2>1. o.f = None /\ o.ie = None BY <1>9 DEF Done
  <2>2. EntryOK(p, None, None) BY DEF EntryOK
  <2>3. ASSUME EditsAreNew PROVE Keeps(f, None)
    <3>1. ASSUME f \in File PROVE \A r \in Regions, w \in EditVals : w \notin f.c[r]
      <4>1. f.c = ie.blob BY <1>4, <1>9, <3>1
      <4>2. ie.blob \in Blobs(p) BY <1>2, <3>1, <4>1, FileIs, FileConstants DEF EntryOK
      <4> QED BY <2>3, <4>1, <4>2, BlobIs
    <3> QED BY <3>1 DEF Keeps
  <2> QED BY <2>1, <2>2, <2>3 DEF OutcomeOK, OnDisk, Index
<1> QED BY <1>5, <1>6, <1>7, <1>8, <1>9

-----------------------------------------------------------------------------
(* Steps.                                                                     *)

(* A step that concerns one path.                                             *)
LEMMA PathStep ==
    ASSUME UpdateInv, NEW p \in Paths, NEW f \in OnDisk, NEW e \in Index, NEW m \in Index,
           disk' = [disk EXCEPT ![p] = f], fi' = [fi EXCEPT ![p] = e],
           mi' = [mi EXCEPT ![p] = m], EntryOK(p, e, f), EntryOK(p, m, f),
           e = None => fi[p] = None, base' = base,
           pc' = pc \/ (pc = "walk" /\ pc' = "sync"),
           pc \in {"walk", "sync"} /\ m = None => Tree[base][p] = None,
           \/ inst' = None
           \/ inst' = inst /\ pc' = pc
           \/ inst' = p /\ pc' = "walk" /\ Tree[base][p] # None
    PROVE  UpdateInv'
<1>1. /\ disk' \in [Paths -> OnDisk] /\ fi' \in [Paths -> Index] /\ mi' \in [Paths -> Index]
      /\ disk'[p] = f /\ fi'[p] = e /\ mi'[p] = m
      /\ \A q \in Paths : q # p => disk'[q] = disk[q] /\ fi'[q] = fi[q] /\ mi'[q] = mi[q]
  BY DEF UpdateInv
<1>2. pc' \in {"idle", "open", "walk", "sync"} /\ base' \in Targets \cup {InitCommit}
  BY DEF UpdateInv
<1>3. ASSUME NEW q \in Paths PROVE PathOK(q)'
  <2>1. PathOK(q) BY DEF UpdateInv
  <2>2. EntryOK(q, fi'[q], disk'[q]) /\ EntryOK(q, mi'[q], disk'[q]) BY <1>1, <2>1 DEF PathOK
  <2>3. (EntryOK(q, fi[q], disk[q]) /\ EntryOK(q, mi[q], disk[q]))' BY <2>2 DEF EntryOK, Blobs
  <2>4. fi'[q] = None => Tree[base'][q] = None BY <1>1, <2>1 DEF PathOK
  <2>5. pc' \in {"walk", "sync"} /\ mi'[q] = None => Tree[base'][q] = None
    BY <1>1, <1>2, <2>1 DEF PathOK, UpdateInv
  <2>6. inst' = q /\ inst' # None => pc' = "walk" /\ Tree[base'][q] # None
    BY <2>1 DEF PathOK
  <2> QED BY <2>3, <2>4, <2>5, <2>6 DEF PathOK
<1> QED BY <1>1, <1>2, <1>3 DEF UpdateInv

(* A step of the walk that ends with o.  For a name that is not a path        *)
(* nothing would change.                                                      *)
LEMMA ApplyStep ==
    ASSUME UpdateInv, NEW p, NEW o, pc = "walk", Apply(p, o), base' = base, inst' = None,
           p \in Paths => /\ o.f \in OnDisk /\ o.ie \in Index /\ EntryOK(p, o.ie, o.f)
                          /\ o.ie = None => Tree[base][p] = None
    PROVE  UpdateInv'
<1>1. pc' = pc \/ pc' = "sync" BY DEF Apply
<1>2. CASE p \in Paths
  <2> DEFINE e == IF o.f = disk[p] THEN fi[p] ELSE Touched(fi[p])
  <2>1. PathOK(p) /\ fi[p] \in Index /\ fi \in [Paths -> Index] BY <1>2 DEF UpdateInv
  <2>2. fi' = [fi EXCEPT ![p] = e]
    <3>1. CASE o.f = disk[p]
      <4>1. fi' = fi BY <3>1 DEF Apply
      <4> QED BY <1>2, <2>1, <3>1, <4>1
    <3>2. CASE o.f # disk[p] BY <3>2 DEF Apply
    <3> QED BY <3>1, <3>2
  <2>3. e \in Index /\ EntryOK(p, e, o.f) /\ (e = None => fi[p] = None)
    <3>1. EntryOK(p, fi[p], disk[p]) BY <2>1 DEF PathOK
    <3>2. CASE o.f = disk[p] BY <2>1, <3>1, <3>2
    <3>3. CASE o.f # disk[p]
      <4>1. e = Touched(fi[p]) BY <3>3
      <4> HIDE DEF e
      <4> QED BY <2>1, <3>1, <4>1, TouchedOK
    <3> QED BY <3>2, <3>3
  <2> HIDE DEF e
  <2>4. disk' = [disk EXCEPT ![p] = o.f] /\ mi' = [mi EXCEPT ![p] = o.ie] BY DEF Apply
  <2> DEFINE f == o.f
             m == o.ie
  <2>5. /\ f \in OnDisk /\ m \in Index /\ EntryOK(p, m, f)
        /\ pc \in {"walk", "sync"} /\ m = None => Tree[base][p] = None
        /\ pc' = pc \/ (pc = "walk" /\ pc' = "sync")
    BY <1>1, <1>2
  <2>6. EntryOK(p, e, f) /\ disk' = [disk EXCEPT ![p] = f] /\ mi' = [mi EXCEPT ![p] = m]
    BY <2>3, <2>4
  <2> HIDE DEF f, m
  <2>7. \/ inst' = None
        \/ inst' = inst /\ pc' = pc
        \/ inst' = p /\ pc' = "walk" /\ Tree[base][p] # None
    OBVIOUS
  <2>8. e \in Index /\ (e = None => fi[p] = None) BY <2>3
  <2> QED BY <1>2, <2>2, <2>5, <2>6, <2>7, <2>8, PathStep
<1>3. CASE p \notin Paths
  <2>1. disk' = disk /\ fi' = fi /\ mi' = mi BY <1>3 DEF Apply, UpdateInv
  <2>2. \A q \in Paths : PathOK(q)' BY <1>1, <2>1 DEF PathOK, UpdateInv, EntryOK, Blobs
  <2> QED BY <1>1, <2>1, <2>2 DEF UpdateInv
<1> QED BY <1>2, <1>3

(* What update_blob and delete_blob do in the walk (diff_old_new, diff_old).  *)
LEMMA OutcomesOK ==
    ASSUME UpdateInv, NEW p \in Paths, pc = "walk", ~Installing(p), NEW o \in Outcomes(p)
    PROVE  OutcomeOK(p, disk[p], o) /\ (o.ie = None => Tree[base][p] = None)
<1>1. /\ PathOK(p) /\ disk[p] \in OnDisk /\ mi[p] \in Index /\ base \in Commits
  BY UpdateConstants DEF UpdateInv
<1>2. EntryOK(p, mi[p], disk[p]) /\ (mi[p] = None => Tree[base][p] = None) BY <1>1 DEF PathOK
<1>3. CASE Tree[base][p] # None
  <2>1. mi[p] \in Entry BY <1>1, <1>2, <1>3 DEF Index
  <2>2. o = UpdateBlob(mi[p], disk[p], Tree[base][p], base) BY <1>3 DEF Outcomes
  <2>3. disk[p] # None
    <3>1. ASSUME disk[p] = None PROVE FALSE
      <4>1. GetFileStatus(mi[p], disk[p]) = "!" BY <1>1, <1>2, <2>1, <3>1, StatusIs
      <4>2. mi[p] # None /\ mi[p].stage = "-" BY <1>2, <2>1, FileConstants DEF EntryOK
      <4>3. UpdateStatus(mi[p], disk[p]) = "!" BY <4>1, <4>2 DEF UpdateStatus
      <4> QED BY <1>3, <3>1, <4>2, <4>3 DEF Installing, InstallsNewFile
    <3> QED BY <3>1
  <2> QED BY <1>1, <1>2, <1>3, <2>1, <2>2, <2>3, UpdateBlobOK
<1>4. CASE Tree[base][p] = None /\ mi[p] # None
  <2>1. mi[p] \in Entry /\ o \in DeleteBlob(mi[p], disk[p]) BY <1>1, <1>4 DEF Index, Outcomes
  <2> QED BY <1>1, <1>2, <1>4, <2>1, DeleteBlobOK
<1>5. CASE Tree[base][p] = None /\ mi[p] = None
  <2>1. o = Done(disk[p], None) BY <1>5 DEF Outcomes
  <2>2. EntryOK(p, None, disk[p]) BY DEF EntryOK
  <2> QED BY <1>1, <1>5, <2>1, <2>2, Untouched DEF Index
<1> QED BY <1>3, <1>4, <1>5

(* install_blob of a new file.                                                *)
LEMMA InstallEndOK ==
    ASSUME UpdateInv, pc = "walk", inst # None, inst \in Paths, NEW o,
           o = InstallBlob(mi[inst], None, Tree[base][inst], base)
    PROVE  ~o.err /\ o.f \in OnDisk /\ o.ie \in Entry /\ o.ie # None /\ EntryOK(inst, o.ie, o.f)
<1>1. PathOK(inst) /\ mi[inst] \in Index /\ base \in Commits BY UpdateConstants DEF UpdateInv
<1>2. Tree[base][inst] # None /\ mi[inst] # None /\ EntryOK(inst, mi[inst], disk[inst])
  BY <1>1 DEF PathOK
<1>3. mi[inst] \in Entry BY <1>1, <1>2 DEF Index
<1>4. ~o.err /\ o.f = Tree[base][inst] /\ o.ie \in Entry /\ EntryOK(inst, o.ie, o.f)
  BY <1>1, <1>2, <1>3, InstallBlobOK
<1>5. o.f \in OnDisk BY <1>1, <1>2, <1>4, TreeBlob DEF OnDisk
<1>6. o.ie # None BY <1>4, FileConstants
<1> QED BY <1>4, <1>5, <1>6

(* The user changes a file: its time stamps are no longer those recorded.     *)
LEMMA UserStep ==
    ASSUME UpdateInv, NEW p \in Paths, NEW f \in OnDisk, UserChange(p, f)
    PROVE  UpdateInv'
<1> DEFINE e == Touched(fi[p])
           m == Touched(mi[p])
<1>1. PathOK(p) /\ fi[p] \in Index /\ mi[p] \in Index BY DEF UpdateInv
<1>2. e \in Index /\ EntryOK(p, e, f) /\ (e = None => fi[p] = None) BY <1>1, TouchedOK DEF PathOK
<1>3. m \in Index /\ EntryOK(p, m, f) /\ (m = None => mi[p] = None) BY <1>1, TouchedOK DEF PathOK
<1>4. fi' = [fi EXCEPT ![p] = e] /\ mi' = [mi EXCEPT ![p] = m] BY DEF UserChange
<1> HIDE DEF e, m
<1>5. pc \in {"walk", "sync"} /\ m = None => Tree[base][p] = None BY <1>1, <1>3 DEF PathOK
<1>6. disk' = [disk EXCEPT ![p] = f] /\ base' = base /\ pc' = pc /\ inst' = inst
  BY DEF UserChange
<1> QED BY <1>2, <1>3, <1>4, <1>5, <1>6, PathStep

(* Whatever the user does leaves a file, a directory or nothing.              *)
LEMMA UserMakesFile ==
    ASSUME NEW p \in Paths, disk[p] \in OnDisk,
           \/ \E r \in EditRegions, v \in EditVals : UserEdit(p, r, v)
           \/ UserChmod(p) \/ UserRemove(p) \/ UserObstruct(p)
           \/ \E v \in EditVals : UserCreate(p, v)
    PROVE  \E f \in OnDisk : UserChange(p, f)
<1>0. disk[p] \notin {None, Dir} => disk[p] \in File /\ disk[p].c \in Content /\ disk[p].x \in BOOLEAN
  BY FileIs DEF OnDisk
<1>1. ASSUME NEW r \in EditRegions, NEW v \in EditVals, UserEdit(p, r, v)
      PROVE  \E f \in OnDisk : UserChange(p, f)
  <2>1. disk[p] \in File /\ disk[p].c \in Content /\ r \in Regions /\ v \in Vals
    BY <1>0, <1>1, UpdateConstants DEF UserEdit
  <2> DEFINE c == [disk[p].c EXCEPT ![r] = {v}]
             f == [disk[p] EXCEPT !.c = c]
  <2>2. c \in Content BY <2>1 DEF Content
  <2>3. [disk[p] EXCEPT !.c[r] = {v}] = f BY <2>1 DEF File
  <2> HIDE DEF c
  <2>4. f \in File BY <2>1, <2>2 DEF File
  <2> QED BY <1>1, <2>3, <2>4 DEF UserEdit, OnDisk
<1>2. ASSUME UserChmod(p) PROVE \E f \in OnDisk : UserChange(p, f)
  <2>1. [disk[p] EXCEPT !.x = ~@] \in File BY <1>0, <1>2 DEF UserChmod, File
  <2> QED BY <1>2, <2>1 DEF UserChmod, OnDisk
<1>3. ASSUME NEW v \in EditVals, UserCreate(p, v) PROVE \E f \in OnDisk : UserChange(p, f)
  <2>1. [r \in Regions |-> {v}] \in Content BY UpdateConstants DEF Content
  <2>2. [x |-> FALSE, c |-> [r \in Regions |-> {v}]] \in File BY <2>1 DEF File
  <2> QED BY <1>3, <2>2 DEF UserCreate, OnDisk
<1>4. ASSUME UserRemove(p) \/ UserObstruct(p) PROVE \E f \in OnDisk : UserChange(p, f)
  BY <1>4 DEF UserRemove, UserObstruct, OnDisk
<1> QED BY <1>1, <1>2, <1>3, <1>4

(* Steps that leave the files alone.                                          *)
LEMMA IndexStep ==
    ASSUME UpdateInv, disk' = disk, base' \in Targets \cup {InitCommit},
           pc' \in {"idle", "open", "walk", "sync"},
           fi' \in [Paths -> Index], mi' \in [Paths -> Index],
           inst' = None \/ (inst' = inst /\ pc' = pc /\ base' = base),
           \A p \in Paths : /\ EntryOK(p, fi'[p], disk[p]) /\ EntryOK(p, mi'[p], disk[p])
                            /\ fi'[p] = None => Tree[base'][p] = None
                            /\ pc' \in {"walk", "sync"} /\ mi'[p] = None => Tree[base'][p] = None
    PROVE  UpdateInv'
<1>1. ASSUME NEW p \in Paths PROVE PathOK(p)'
  <2>1. (EntryOK(p, fi[p], disk[p]) /\ EntryOK(p, mi[p], disk[p]))' BY DEF EntryOK, Blobs
  <2>2. inst' = p /\ inst' # None => pc' = "walk" /\ Tree[base'][p] # None
    BY DEF UpdateInv, PathOK
  <2> QED BY <2>1, <2>2 DEF PathOK
<1> QED BY <1>1 DEF UpdateInv

(* Every step keeps the index in order.                                       *)
LEMMA UpdateStepInv ==
    ASSUME NoFileAppears, Writing, UpdateInv, [Next]_vars
    PROVE  UpdateInv'
<1>0. /\ base \in Targets \cup {InitCommit} /\ pc \in {"idle", "open", "walk", "sync"}
      /\ disk \in [Paths -> OnDisk] /\ fi \in [Paths -> Index] /\ mi \in [Paths -> Index]
      /\ \A p \in Paths : PathOK(p)
  BY DEF UpdateInv
<1>1. \A p \in Paths : /\ EntryOK(p, fi[p], disk[p]) /\ EntryOK(p, mi[p], disk[p])
                       /\ EntryOK(p, None, disk[p])
                       /\ fi[p] = None => Tree[base][p] = None
                       /\ pc \in {"walk", "sync"} /\ mi[p] = None => Tree[base][p] = None
  BY <1>0 DEF PathOK, EntryOK
<1>n. [p \in Paths |-> None] \in [Paths -> Index] BY DEF Index
<1>2. ASSUME NEW c \in Targets, NEW sub, UpdateSetBase(c, sub) PROVE UpdateInv'
  <2>1. \A p \in Paths : fi[p] = None => Tree[c][p] = None
    BY <1>0, <1>1, <1>2 DEF NoFileAppears, UpdateSetBase
  <2>2. inst = None \/ inst \notin Paths
    BY <1>0, <1>2 DEF UpdateSetBase, PathOK
  <2>3. base' = c /\ pc' = "open" /\ disk' = disk /\ fi' = fi /\ mi' = mi /\ inst' = inst
    BY <1>2 DEF UpdateSetBase
  <2>4. \A p \in Paths : PathOK(p)'
    BY <1>1, <2>1, <2>2, <2>3 DEF PathOK, EntryOK, Blobs
  <2> QED BY <1>0, <2>3, <2>4 DEF UpdateInv
<1>3. ASSUME UpdateOpen PROVE UpdateInv'
  <2>1. /\ disk' = disk /\ base' = base /\ fi' = fi /\ inst' = inst /\ pc = "open"
        /\ (mi' = fi /\ pc' = "walk") \/ (mi' = mi /\ pc' = "idle")
    BY <1>3 DEF UpdateOpen
  <2>2. inst = None \/ inst \notin Paths BY <1>0, <2>1 DEF PathOK
  <2>3. \A p \in Paths : PathOK(p)'
    BY <1>1, <2>1, <2>2 DEF PathOK, EntryOK, Blobs
  <2> QED BY <1>0, <2>1, <2>3 DEF UpdateInv
<1>4. ASSUME UpdatePath PROVE UpdateInv'
  <2> DEFINE p == Head(todo)
  <2>1. pc = "walk" /\ inst = None /\ ~Installing(p) /\ inst' = inst /\ base' = base
    BY <1>4 DEF UpdatePath
  <2>2. PICK o \in Outcomes(p) : Apply(p, o) BY <1>4 DEF UpdatePath
  <2> HIDE DEF p
  <2>3. p \in Paths => /\ o.f \in OnDisk /\ o.ie \in Index /\ EntryOK(p, o.ie, o.f)
                       /\ o.ie = None => Tree[base][p] = None
    BY <2>1, OutcomesOK DEF OutcomeOK
  <2> QED BY <2>1, <2>2, <2>3, ApplyStep
<1>5. ASSUME InstallBegin PROVE UpdateInv'
  <2> DEFINE p == Head(todo)
             f == [x |-> Tree[base][p].x, c |-> Truncated]
             e == Touched(fi[p])
             m == Touched(mi[p])
  <2>1. /\ pc = "walk" /\ pc' = pc /\ base' = base /\ inst' = p /\ Tree[base][p] # None
        /\ disk' = [disk EXCEPT ![p] = f]
        /\ fi' = [fi EXCEPT ![p] = e] /\ mi' = [mi EXCEPT ![p] = m]
    BY <1>5 DEF InstallBegin, Installing
  <2>2. Truncated \in Content BY FileConstants DEF Truncated, Content
  <2>3. CASE p \in Paths
    <3>1. base \in Commits /\ fi[p] \in Index /\ mi[p] \in Index BY <1>0, <2>3, UpdateConstants
    <3>2. Tree[base][p].x \in BOOLEAN BY <2>1, <2>3, <3>1, TreeBlob, FileIs
    <3>3. f \in OnDisk BY <2>2, <3>2 DEF File, OnDisk
    <3> HIDE DEF p, f
    <3>t. EntryOK(p, fi[p], disk[p]) /\ EntryOK(p, mi[p], disk[p]) BY <1>1, <2>3
    <3>4. e \in Index /\ EntryOK(p, e, f) /\ (e = None => fi[p] = None)
      BY <3>1, <3>t, TouchedOK
    <3>5. m \in Index /\ EntryOK(p, m, f) /\ (m = None => mi[p] = None)
      BY <3>1, <3>t, TouchedOK
    <3>6. pc \in {"walk", "sync"} /\ m = None => Tree[base][p] = None BY <1>1, <2>3, <3>5
    <3> HIDE DEF e, m
    <3>7. \/ inst' = None
          \/ inst' = inst /\ pc' = pc
          \/ inst' = p /\ pc' = "walk" /\ Tree[base][p] # None
      BY <2>1
    <3> QED BY <2>1, <2>3, <3>3, <3>4, <3>5, <3>6, <3>7, PathStep
  <2>4. CASE p \notin Paths
    <3> HIDE DEF p, f, e, m
    <3>1. disk' = disk /\ fi' = fi /\ mi' = mi BY <1>0, <2>1, <2>4
    <3>2. \A q \in Paths : PathOK(q)' BY <1>1, <2>1, <2>4, <3>1 DEF PathOK, EntryOK, Blobs
    <3> QED BY <1>0, <2>1, <3>1, <3>2 DEF UpdateInv
  <2> QED BY <2>3, <2>4
<1>6. ASSUME InstallEnd PROVE UpdateInv'
  <2> DEFINE o == InstallBlob(mi[inst], None, Tree[base][inst], base)
  <2>1. pc = "walk" /\ inst # None /\ Apply(inst, o) /\ inst' = None /\ base' = base
    BY <1>6 DEF InstallEnd
  <2>2. inst \in Paths => o.f \in OnDisk /\ o.ie \in Entry /\ o.ie # None /\ EntryOK(inst, o.ie, o.f)
    BY <2>1, InstallEndOK
  <2> HIDE DEF o
  <2> QED BY <2>1, <2>2, ApplyStep DEF Index
<1>7. ASSUME Cancel PROVE UpdateInv'
  <2>1. /\ disk' = disk /\ base' = base /\ fi' = fi /\ mi' = mi /\ pc = "walk" /\ pc' = "sync"
        /\ inst' = None
    BY <1>7 DEF Cancel
  <2> QED BY <1>0, <1>1, <2>1, IndexStep
<1>8. ASSUME BumpBase PROVE UpdateInv'
  <2>1. ASSUME NEW p \in Paths
        PROVE  /\ BumpBaseCommitId(mi[p], base) \in Index
               /\ EntryOK(p, BumpBaseCommitId(mi[p], base), disk[p])
               /\ BumpBaseCommitId(mi[p], base) = None => mi[p] = None
    <3> DEFINE ie == mi[p]
               e == BumpBaseCommitId(ie, base)
    <3>1. ie \in Index /\ EntryOK(p, ie, disk[p]) /\ base \in Commits BY <1>0, <1>1, UpdateConstants
    <3> HIDE DEF ie
    <3>2. CASE ie = None BY <3>1, <3>2 DEF BumpBaseCommitId, ie
    <3>3. CASE ie # None
      <4>1. ie \in Entry /\ e = [ie EXCEPT !.commit = base]
        BY <3>1, <3>3 DEF BumpBaseCommitId, Index
      <4> HIDE DEF e
      <4>2. /\ e \in Entry /\ e.stage = ie.stage /\ e.nofile = ie.nofile /\ e.blob = ie.blob
            /\ e.fresh = ie.fresh /\ e.x = ie.x
        BY <3>1, <4>1 DEF Entry
      <4>3. EntryOK(p, e, disk[p]) BY <3>1, <3>3, <4>1, <4>2 DEF EntryOK
      <4>4. e # None BY <4>2, FileConstants
      <4> QED BY <4>2, <4>3, <4>4 DEF e, ie, Index
    <3> QED BY <3>2, <3>3
  <2>2. /\ disk' = disk /\ base' = base /\ fi' = fi /\ pc = "walk" /\ pc' = "sync" /\ inst' = inst
        /\ mi' = [p \in Paths |-> IF p \in Selected THEN BumpBaseCommitId(mi[p], base) ELSE mi[p]]
    BY <1>8 DEF BumpBase
  <2>3. inst' = None BY <1>8, <2>2 DEF BumpBase, Writing
  <2> DEFINE e(p) == IF p \in Selected THEN BumpBaseCommitId(mi[p], base) ELSE mi[p]
  <2>4. \A p \in Paths : e(p) \in Index /\ EntryOK(p, e(p), disk[p]) /\ (e(p) = None => mi[p] = None)
    BY <1>0, <1>1, <2>1
  <2>5. mi' = [p \in Paths |-> e(p)] BY <2>2
  <2> HIDE DEF e
  <2>6. mi' \in [Paths -> Index] /\ \A p \in Paths : mi'[p] = e(p) BY <2>4, <2>5
  <2> QED BY <1>0, <1>1, <2>2, <2>3, <2>4, <2>6, IndexStep
<1>9. ASSUME SyncFileindex PROVE UpdateInv'
  <2>1. /\ disk' = disk /\ base' = base /\ fi' = mi /\ mi' = [p \in Paths |-> None]
        /\ pc = "sync" /\ pc' = "idle" /\ inst' = inst
    BY <1>9 DEF SyncFileindex
  <2>2. inst = None \/ inst \notin Paths BY <1>0, <2>1 DEF PathOK
  <2>3. \A p \in Paths : PathOK(p)' BY <1>1, <2>1, <2>2 DEF PathOK, EntryOK, Blobs
  <2> QED BY <1>0, <1>n, <2>1, <2>3 DEF UpdateInv
<1>10. ASSUME Crash PROVE UpdateInv'
  <2>1. /\ disk' = disk /\ base' = base /\ fi' = fi /\ mi' = [p \in Paths |-> None]
        /\ pc' = "idle" /\ inst' = None
    BY <1>10 DEF Crash
  <2>2. \A p \in Paths : mi'[p] = None BY <2>1
  <2> QED BY <1>0, <1>1, <1>n, <2>1, <2>2, IndexStep
<1>11. ASSUME User PROVE UpdateInv'
  <2> PICK p \in Paths :
        \/ \E r \in EditRegions, v \in EditVals : UserEdit(p, r, v)
        \/ UserChmod(p) \/ UserRemove(p) \/ UserObstruct(p)
        \/ \E v \in EditVals : UserCreate(p, v)
    BY <1>11 DEF User
  <2>1. \E f \in OnDisk : UserChange(p, f) BY <1>0, UserMakesFile
  <2> QED BY <2>1, UserStep
<1>12. ASSUME UNCHANGED vars PROVE UpdateInv'
  <2>1. /\ disk' = disk /\ base' = base /\ fi' = fi /\ mi' = mi /\ pc' = pc /\ inst' = inst
    BY <1>12 DEF vars
  <2> QED BY <1>0, <1>1, <2>1, IndexStep
<1> QED BY <1>2, <1>3, <1>4, <1>5, <1>6, <1>7, <1>8, <1>9, <1>10, <1>11, <1>12 DEF Next, Process

(* A file is written only during a walk.                                      *)
LEMMA WritingStep == Writing /\ [Next]_vars => Writing'
<1> SUFFICES ASSUME Writing, [Next]_vars PROVE Writing'
  OBVIOUS
<1> USE DEF Writing
<1>1. ASSUME NEW c \in Targets, NEW sub, UpdateSetBase(c, sub) PROVE Writing'
  BY <1>1 DEF UpdateSetBase
<1>2. ASSUME UpdateOpen \/ UpdatePath \/ InstallBegin \/ InstallEnd PROVE Writing'
  BY <1>2 DEF UpdateOpen, UpdatePath, InstallBegin, InstallEnd
<1>3. ASSUME Cancel \/ BumpBase \/ SyncFileindex \/ Crash PROVE Writing'
  BY <1>3 DEF Cancel, BumpBase, SyncFileindex, Crash
<1>4. ASSUME NEW p, NEW f, UserChange(p, f) PROVE Writing'
  BY <1>4 DEF UserChange
<1>5. ASSUME User PROVE Writing'
  BY <1>4, <1>5 DEF User, UserEdit, UserChmod, UserRemove, UserCreate, UserObstruct
<1>6. ASSUME UNCHANGED vars PROVE Writing'
  BY <1>6 DEF vars
<1> QED BY <1>1, <1>2, <1>3, <1>5, <1>6 DEF Next, Process

(* A complete checkout is in order.                                           *)
LEMMA UpdateInitInv == Init => Writing /\ UpdateInv
<1> SUFFICES ASSUME Init PROVE Writing /\ UpdateInv
  OBVIOUS
<1>1. /\ disk = Tree[InitCommit] /\ InitCommit \in Commits /\ base = InitCommit
      /\ mi = [p \in Paths |-> None] /\ pc = "idle" /\ inst = None
  BY UpdateConstants DEF Init
<1>2. /\ disk \in [Paths -> OnDisk] /\ mi \in [Paths -> Index]
      /\ \A p \in Paths : mi[p] = None /\ (disk[p] # None => disk[p] \in File)
  BY <1>1, UpdateConstants DEF OnDisk, Index
<1> DEFINE e(p) == IF disk[p] = None THEN None
                   ELSE EntryUpdate(EmptyEntry, disk[p], disk[p].c, InitCommit, TRUE)
<1>3. fi = [p \in Paths |-> e(p)] BY DEF Init
<1>4. EmptyEntry \in Entry /\ EmptyEntry.stage = "-" BY DEF EmptyEntry, Entry
<1>5. ASSUME NEW p \in Paths
      PROVE  e(p) \in Index /\ EntryOK(p, e(p), disk[p]) /\ (e(p) = None => Tree[base][p] = None)
  <2>1. CASE disk[p] = None BY <1>1, <2>1 DEF Index, EntryOK
  <2>2. CASE disk[p] # None
    <3> DEFINE f == disk[p]
               b == f.c
               i == EntryUpdate(EmptyEntry, f, b, InitCommit, TRUE)
    <3>1. f \in File /\ b \in Blobs(p) /\ b \in Content BY <1>1, <2>2, TreeBlob
    <3>2. e(p) = i BY <2>2
    <3> HIDE DEF f, b
    <3>3. f.c = b BY DEF b
    <3>4. i \in Entry /\ i # None /\ EntryOK(p, i, f) BY <1>1, <1>4, <3>1, <3>3, EntryUpdateOK
    <3> HIDE DEF i
    <3> QED BY <3>2, <3>4 DEF Index, f
  <2> QED BY <2>1, <2>2
<1> HIDE DEF e
<1>6. fi \in [Paths -> Index] /\ \A p \in Paths : fi[p] = e(p) BY <1>3, <1>5
<1>7. \A p \in Paths : PathOK(p)
  <2>1. \A p \in Paths : EntryOK(p, mi[p], disk[p]) BY <1>2 DEF EntryOK
  <2> QED BY <1>1, <1>5, <1>6, <2>1 DEF PathOK
<1> QED BY <1>1, <1>2, <1>6, <1>7 DEF UpdateInv, Writing

(* get_file_status takes a file for unmodified only if it has the text of its *)
(* entry's blob, whatever update, interrupts, kills and the user have done to *)
(* it, if no file appears where an unversioned one may be.                    *)
THEOREM UpdateTrustsTimestamps ==
    ASSUME NoFileAppears
    PROVE  Spec => []FreshMeansUnmodified
<1>1. UpdateInv => FreshMeansUnmodified
  <2> SUFFICES ASSUME UpdateInv, NEW p \in Paths, fi[p] # None, disk[p] \notin {None, Dir},
                      GetFileStatus(fi[p], disk[p]) = NoChange
               PROVE  disk[p].c = ComparedBlob(fi[p])
    BY DEF FreshMeansUnmodified
  <2>1. /\ fi[p] \in Entry /\ disk[p] \in OnDisk /\ disk[p] \in File
        /\ EntryOK(p, fi[p], disk[p])
    BY DEF UpdateInv, PathOK, Index, OnDisk
  <2>2. disk[p].c = fi[p].blob BY <2>1, StatusIs
  <2> QED BY <2>1, <2>2 DEF EntryOK, ComparedBlob
<1> QED BY <1>1, UpdateInitInv, UpdateStepInv, WritingStep, PTL DEF Spec

-----------------------------------------------------------------------------
(* What the user wrote.                                                       *)

(* A step that changes one file and what the user's text in it is.            *)
LEMMA MineStepAt ==
    ASSUME MineInv, UpdateInv, NEW p \in Paths, NEW g, NEW u,
           disk' = [disk EXCEPT ![p] = g], mine' = [mine EXCEPT ![p] = u],
           u \in [Regions -> EditVals \cup {None}],
           \A r \in Regions : u[r] # None => g \notin {None, Dir} /\ u[r] \in g.c[r],
           \/ inst' = None
           \/ inst' = inst /\ inst # p
           \/ inst' = p /\ \A r \in Regions : u[r] = None
    PROVE  MineInv'
<1>1. disk \in [Paths -> OnDisk] /\ mine \in [Paths -> [Regions -> EditVals \cup {None}]]
  BY DEF UpdateInv, MineInv
<1>2. /\ mine' \in [Paths -> [Regions -> EditVals \cup {None}]]
      /\ disk'[p] = g /\ mine'[p] = u
      /\ \A q \in Paths : q # p => disk'[q] = disk[q] /\ mine'[q] = mine[q]
  BY <1>1
<1>3. ASSUME NEW q \in Paths PROVE Preserved(q)'
  <2>1. Preserved(q) BY DEF MineInv
  <2>2. CASE q = p BY <1>2, <2>2 DEF Preserved
  <2>3. CASE q # p BY <1>2, <2>1, <2>3 DEF Preserved
  <2> QED BY <2>2, <2>3
<1> QED BY <1>2, <1>3 DEF MineInv

(* Steps that leave the files alone.                                          *)
LEMMA MineStays ==
    ASSUME MineInv, disk' = disk, mine' = mine, inst' = inst \/ inst' = None \/ inst' \notin Paths
    PROVE  MineInv'
<1>1. ASSUME NEW q \in Paths PROVE Preserved(q)'
  <2>1. Preserved(q) BY DEF MineInv
  <2> QED BY <2>1 DEF Preserved
<1> QED BY <1>1 DEF MineInv

(* A step of the walk keeps what the user wrote if its outcome does.          *)
LEMMA MineApplyStep ==
    ASSUME MineInv, UpdateInv, NEW p, NEW o, Apply(p, o), mine' = mine, inst' = None,
           p \in Paths =>
             \A r \in Regions : mine[p][r] # None => o.f \notin {None, Dir} /\ mine[p][r] \in o.f.c[r]
    PROVE  MineInv'
<1>1. disk' = [disk EXCEPT ![p] = o.f] BY DEF Apply
<1>2. disk \in [Paths -> OnDisk] /\ mine \in [Paths -> [Regions -> EditVals \cup {None}]]
  BY DEF UpdateInv, MineInv
<1>3. CASE p \in Paths
  <2> DEFINE u == mine[p]
             g == o.f
  <2>1. u \in [Regions -> EditVals \cup {None}] /\ mine' = [mine EXCEPT ![p] = u] BY <1>2, <1>3
  <2>2. \A r \in Regions : u[r] # None => g \notin {None, Dir} /\ u[r] \in g.c[r] BY <1>3
  <2>3. disk' = [disk EXCEPT ![p] = g] BY <1>1
  <2> HIDE DEF u, g
  <2> QED BY <1>3, <2>1, <2>2, <2>3, MineStepAt
<1>4. CASE p \notin Paths
  <2>1. disk' = disk BY <1>1, <1>2, <1>4
  <2> QED BY <2>1, MineStays
<1> QED BY <1>3, <1>4

(* The user's steps: what is written is there, what is removed is gone.       *)
LEMMA MineUserStep ==
    ASSUME MineInv, UpdateInv, NEW p \in Paths,
           \/ \E r \in EditRegions, v \in EditVals : UserEdit(p, r, v)
           \/ UserChmod(p) \/ UserRemove(p) \/ UserObstruct(p)
           \/ \E v \in EditVals : UserCreate(p, v)
    PROVE  MineInv'
<1>1. /\ disk \in [Paths -> OnDisk] /\ mine \in [Paths -> [Regions -> EditVals \cup {None}]]
      /\ Preserved(p) /\ disk[p] \in OnDisk /\ mine[p] \in [Regions -> EditVals \cup {None}]
  BY DEF UpdateInv, MineInv
<1>2. disk[p] \notin {None, Dir} => disk[p] \in File /\ disk[p].c \in Content
  BY <1>1, FileIs DEF OnDisk
<1>3. ASSUME NEW g, UserChange(p, g)
      PROVE  inst' = inst /\ inst # p /\ disk' = [disk EXCEPT ![p] = g]
  BY <1>3 DEF UserChange
<1> DEFINE gone == [r \in Regions |-> None]
<1>4. gone \in [Regions -> EditVals \cup {None}] /\ \A r \in Regions : gone[r] = None
  OBVIOUS
<1> HIDE DEF gone
<1>5. ASSUME NEW r \in EditRegions, NEW v \in EditVals, UserEdit(p, r, v) PROVE MineInv'
  <2> DEFINE g == [disk[p] EXCEPT !.c[r] = {v}]
             u == [mine[p] EXCEPT ![r] = v]
  <2>1. UserChange(p, g) /\ disk[p] \notin {None, Dir} /\ mine' = [mine EXCEPT ![p][r] = v]
    BY <1>5 DEF UserEdit
  <2>2. r \in Regions BY UpdateConstants
  <2>3. mine' = [mine EXCEPT ![p] = u] /\ u \in [Regions -> EditVals \cup {None}]
    BY <1>1, <2>1, <2>2
  <2>4. g \in File /\ g.c[r] = {v} /\ \A s \in Regions : s # r => g.c[s] = disk[p].c[s]
    <3> DEFINE c == [disk[p].c EXCEPT ![r] = {v}]
    <3>1. g = [disk[p] EXCEPT !.c = c] BY <1>2, <2>1 DEF File
    <3>2. c \in Content /\ c[r] = {v} /\ \A s \in Regions : s # r => c[s] = disk[p].c[s]
      BY <1>2, <2>1, <2>2, UpdateConstants DEF Content
    <3> HIDE DEF c
    <3>3. g \in File /\ g.c = c BY <1>2, <2>1, <3>1, <3>2 DEF File
    <3> QED BY <3>2, <3>3
  <2>5. u[r] = v /\ \A s \in Regions : s # r => u[s] = mine[p][s] BY <1>1, <2>2
  <2> HIDE DEF g, u
  <2>6. g \notin {None, Dir} BY <2>4, FileIs
  <2>7. \A s \in Regions : u[s] # None => g \notin {None, Dir} /\ u[s] \in g.c[s]
    BY <1>1, <2>4, <2>5, <2>6 DEF Preserved
  <2>8. inst' = inst /\ inst # p /\ disk' = [disk EXCEPT ![p] = g] BY <1>3, <2>1
  <2> QED BY <2>3, <2>7, <2>8, MineStepAt
<1>6. ASSUME UserChmod(p) PROVE MineInv'
  <2> DEFINE g == [disk[p] EXCEPT !.x = ~@]
             u == mine[p]
  <2>1. UserChange(p, g) /\ disk[p] \notin {None, Dir} /\ mine' = mine BY <1>6 DEF UserChmod
  <2>2. g \in File /\ g.c = disk[p].c BY <1>2, <2>1 DEF File
  <2>3. mine' = [mine EXCEPT ![p] = u] /\ u \in [Regions -> EditVals \cup {None}] BY <1>1, <2>1
  <2> HIDE DEF g
  <2>4. g \notin {None, Dir} BY <2>2, FileIs
  <2>5. \A s \in Regions : u[s] # None => g \notin {None, Dir} /\ u[s] \in g.c[s]
    BY <1>1, <2>2, <2>4 DEF Preserved
  <2>6. inst' = inst /\ inst # p /\ disk' = [disk EXCEPT ![p] = g] BY <1>3, <2>1
  <2> HIDE DEF u
  <2> QED BY <2>3, <2>5, <2>6, MineStepAt
<1>7. ASSUME UserRemove(p) PROVE MineInv'
  <2>1. UserChange(p, None) /\ mine' = [mine EXCEPT ![p] = gone] BY <1>7 DEF UserRemove, gone
  <2>2. inst' = inst /\ inst # p /\ disk' = [disk EXCEPT ![p] = None] BY <1>3, <2>1
  <2> QED BY <1>4, <2>1, <2>2, MineStepAt
<1>8. ASSUME UserObstruct(p) PROVE MineInv'
  <2>1. UserChange(p, Dir) /\ mine' = [mine EXCEPT ![p] = gone] BY <1>8 DEF UserObstruct, gone
  <2>2. inst' = inst /\ inst # p /\ disk' = [disk EXCEPT ![p] = Dir] BY <1>3, <2>1
  <2> QED BY <1>4, <2>1, <2>2, MineStepAt
<1>9. ASSUME NEW v \in EditVals, UserCreate(p, v) PROVE MineInv'
  <2> DEFINE c == [r \in Regions |-> {v}]
             g == [x |-> FALSE, c |-> c]
             u == [r \in Regions |-> v]
  <2>1. UserChange(p, g) /\ mine' = [mine EXCEPT ![p] = u] BY <1>9 DEF UserCreate
  <2>2. c \in Content BY UpdateConstants DEF Content
  <2>3. g \in File BY <2>2 DEF File
  <2>4. u \in [Regions -> EditVals \cup {None}] /\ \A s \in Regions : u[s] \in g.c[s] OBVIOUS
  <2> HIDE DEF g, u
  <2>5. g \notin {None, Dir} BY <2>3, FileIs
  <2>6. inst' = inst /\ inst # p /\ disk' = [disk EXCEPT ![p] = g] BY <1>3, <2>1
  <2>7. \A s \in Regions : u[s] # None => g \notin {None, Dir} /\ u[s] \in g.c[s] BY <2>4, <2>5
  <2> QED BY <2>1, <2>4, <2>6, <2>7, MineStepAt
<1> QED BY <1>5, <1>6, <1>7, <1>8, <1>9

(* No step of the process takes away what the user wrote.                     *)
LEMMA MineStep ==
    ASSUME EditsAreNew, UpdateInv, MineInv, [Next]_vars
    PROVE  MineInv'
<1>0. /\ disk \in [Paths -> OnDisk] /\ mine \in [Paths -> [Regions -> EditVals \cup {None}]]
      /\ \A q \in Paths : Preserved(q)
  BY DEF UpdateInv, MineInv
<1>1. ASSUME \/ \E c \in Targets : \E sub : UpdateSetBase(c, sub)
             \/ UpdateOpen \/ Cancel \/ BumpBase \/ SyncFileindex \/ Crash
             \/ UNCHANGED vars
      PROVE  MineInv'
  <2>1. disk' = disk /\ mine' = mine /\ (inst' = inst \/ inst' = None)
    BY <1>1 DEF UpdateSetBase, UpdateOpen, Cancel, BumpBase, SyncFileindex, Crash,
              history, user, vars
  <2> QED BY <2>1, MineStays
<1>2. ASSUME UpdatePath PROVE MineInv'
  <2> DEFINE p == Head(todo)
  <2>1. pc = "walk" /\ inst = None /\ ~Installing(p) /\ inst' = None /\ mine' = mine
    BY <1>2 DEF UpdatePath, user
  <2>2. PICK o \in Outcomes(p) : Apply(p, o) BY <1>2 DEF UpdatePath
  <2> HIDE DEF p
  <2>3. ASSUME p \in Paths, NEW r \in Regions, mine[p][r] # None
        PROVE  o.f \notin {None, Dir} /\ mine[p][r] \in o.f.c[r]
    <3>1. Keeps(disk[p], o.f) BY <2>1, <2>3, OutcomesOK DEF OutcomeOK
    <3>2. disk[p] \in File /\ mine[p][r] \in disk[p].c[r] /\ mine[p][r] \in EditVals
      BY <1>0, <2>3 DEF Preserved, OnDisk
    <3>3. o.f \in File /\ mine[p][r] \in o.f.c[r] BY <3>1, <3>2 DEF Keeps
    <3> QED BY <3>3, FileIs
  <2> QED BY <2>1, <2>2, <2>3, MineApplyStep
<1>3. ASSUME InstallBegin PROVE MineInv'
  <2> DEFINE p == Head(todo)
             u == mine[p]
             g == [x |-> Tree[base][p].x, c |-> Truncated]
  <2>1. /\ inst' = p /\ mine' = mine /\ disk[p] = None /\ disk' = [disk EXCEPT ![p] = g]
    BY <1>3 DEF InstallBegin, Installing, InstallsNewFile, history, user
  <2> HIDE DEF p, g
  <2>2. CASE p \in Paths
    <3>1. \A r \in Regions : u[r] = None BY <1>0, <2>1, <2>2 DEF Preserved
    <3>2. u \in [Regions -> EditVals \cup {None}] /\ mine' = [mine EXCEPT ![p] = u]
      BY <1>0, <2>1, <2>2
    <3> HIDE DEF u
    <3> QED BY <2>1, <2>2, <3>1, <3>2, MineStepAt
  <2>3. CASE p \notin Paths
    <3>1. disk' = disk BY <1>0, <2>1, <2>3
    <3> QED BY <2>1, <2>3, <3>1, MineStays
  <2> QED BY <2>2, <2>3
<1>4. ASSUME InstallEnd PROVE MineInv'
  <2> DEFINE o == InstallBlob(mi[inst], None, Tree[base][inst], base)
  <2>1. inst # None /\ Apply(inst, o) /\ inst' = None /\ mine' = mine
    BY <1>4 DEF InstallEnd, history, user
  <2> HIDE DEF o
  <2>2. inst \in Paths => \A r \in Regions : mine[inst][r] = None BY <1>0, <2>1 DEF Preserved
  <2> QED BY <2>1, <2>2, MineApplyStep
<1>5. ASSUME User PROVE MineInv'
  BY <1>5, MineUserStep DEF User
<1> QED BY <1>1, <1>2, <1>3, <1>4, <1>5 DEF Next, Process

(* got.1: update preserves any local changes.  What the user wrote into a     *)
(* file stays in it, on its own or between conflict markers, whatever commit  *)
(* is updated to and wherever update is interrupted or killed, until the user *)
(* overwrites or removes it.                                                  *)
THEOREM UpdatePreservesChanges ==
    ASSUME NoFileAppears, EditsAreNew
    PROVE  Spec => []LocalChangesSurvive
<1>1. Init => MineInv
  <2> SUFFICES ASSUME Init PROVE MineInv
    OBVIOUS
  <2>1. mine = [p \in Paths |-> [r \in Regions |-> None]] /\ inst = None BY DEF Init
  <2>2. mine \in [Paths -> [Regions -> EditVals \cup {None}]] BY <2>1
  <2>3. \A p \in Paths, r \in Regions : mine[p][r] = None BY <2>1
  <2> QED BY <2>1, <2>2, <2>3 DEF MineInv, Preserved
<1>2. MineInv => LocalChangesSurvive BY DEF MineInv, Preserved, LocalChangesSurvive
<1> QED BY <1>1, <1>2, UpdateInitInv, UpdateStepInv, WritingStep, MineStep, PTL DEF Spec

-----------------------------------------------------------------------------
(* The index and the commits.                                                 *)

Pending == {todo[i] : i \in DOMAIN todo}

(* An entry's blob is that of the commit it is recorded for.                  *)
Recorded(p, ie) ==
    ie # None =>
        /\ ie \in Entry /\ ie.stage = "-" /\ ~ie.nofile
        /\ ie.blob # None => /\ ie.hasCommit /\ ie.commit \in Commits
                             /\ Tree[ie.commit][p] # None /\ ie.blob = Tree[ie.commit][p].c

(* This is claimed of the paths that update has not passed over.              *)
Formed(ie) == ie # None => ie \in Entry /\ ie.stage = "-" /\ ~ie.nofile
Matched(p, ie, over) == Formed(ie) /\ (p \notin over => Recorded(p, ie))

(* An entry's blob is that of the base commit.                                *)
Current(p, ie, c) ==
    ie # None /\ ie.blob # None => Tree[c][p] # None /\ ie.blob = Tree[c][p].c

(* What is being written is the next file of the walk.                        *)
WritesNext ==
    inst # None => pc = "walk" /\ todo # <<>> /\ inst = Head(todo) /\ Tree[base][inst] # None

(* The walk leaves behind entries with the base commit's blobs, so that it is *)
(* right to bump them.                                                        *)
MatchInv ==
    /\ base \in Targets \cup {InitCommit} /\ disk \in [Paths -> OnDisk]
    /\ fi \in [Paths -> Index] /\ mi \in [Paths -> Index]
    /\ sel \in Seq(Paths) /\ todo \in Seq(Paths) /\ WritesNext
    /\ \A p \in Paths : Matched(p, fi[p], skipped) /\ Matched(p, mi[p], skipped)
    /\ pc = "walk" => \A p \in Selected : \/ Current(p, mi[p], base)
                                          \/ p \in Pending \cup skipped

(* What is left of a walk after one path.                                     *)
LEMMA TailIs ==
    ASSUME NEW S, NEW s \in Seq(S), s # <<>>
    PROVE  /\ Head(s) \in S /\ Tail(s) \in Seq(S)
           /\ \A p : p \in {s[i] : i \in DOMAIN s} =>
                     p = Head(s) \/ p \in {Tail(s)[i] : i \in DOMAIN Tail(s)}
<1>1. Head(s) \in S /\ Tail(s) \in Seq(S) /\ Len(Tail(s)) = Len(s) - 1 /\ Head(s) = s[1]
  OBVIOUS
<1>2. ASSUME NEW i \in DOMAIN s, i # 1
      PROVE  s[i] \in {Tail(s)[j] : j \in DOMAIN Tail(s)}
  <2>1. i \in 1 .. Len(s) /\ i - 1 \in 1 .. Len(Tail(s)) /\ Tail(s)[i - 1] = s[i]
    BY <1>1, <1>2
  <2>2. i - 1 \in DOMAIN Tail(s) BY <1>1, <2>1
  <2> QED BY <2>1, <2>2
<1> QED BY <1>1, <1>2

(* Old time stamps change nothing else in an entry.                           *)
LEMMA TouchedIs ==
    ASSUME NEW ie \in Index, NEW e, e = Touched(ie)
    PROVE  /\ e \in Index /\ (e = None <=> ie = None)
           /\ e # None => /\ e \in Entry /\ ~e.fresh /\ e.blob = ie.blob /\ e.stage = ie.stage
                          /\ e.commit = ie.commit /\ e.x = ie.x
                          /\ (e.nofile <=> ie.nofile) /\ (e.hasCommit <=> ie.hasCommit)
<1>1. CASE ie = None BY <1>1 DEF Touched, Index
<1>2. CASE ie # None
  <2>1. ie \in Entry /\ e = [ie EXCEPT !.fresh = FALSE] BY <1>2 DEF Index, Touched
  <2>2. /\ e \in Entry /\ e.fresh = FALSE /\ e.blob = ie.blob /\ e.stage = ie.stage
        /\ e.commit = ie.commit /\ e.x = ie.x /\ e.nofile = ie.nofile
        /\ e.hasCommit = ie.hasCommit
    BY <2>1 DEF Entry
  <2>3. e # None BY <2>2, FileConstants
  <2> QED BY <1>2, <2>2, <2>3 DEF Index
<1> QED BY <1>1, <1>2

LEMMA TouchedMatched ==
    ASSUME NEW p, NEW ie \in Index, NEW over, Matched(p, ie, over), NEW e, e = Touched(ie)
    PROVE  /\ e \in Index /\ Matched(p, e, over)
           /\ \A c : Current(p, ie, c) => Current(p, e, c)
  BY TouchedIs DEF Matched, Formed, Recorded, Current

(* What update_blob does with a file that it does not skip.                   *)
(* It is up to date:                                                          *)
IsUpToDate(ie, f, te, c, o) ==
    /\ ie # None /\ f \in File /\ o.f = f /\ f.x = te.x
    /\ o.ie.blob = ie.blob /\ o.ie.commit = ie.commit
    /\ ie.blob # None /\ ie.hasCommit => o.ie.hasCommit
    /\ (ie.hasCommit /\ ie.commit = c) \/ (ie.blob # None /\ ie.blob = te.c)

(* or it is written, merged, or left as it is, and recorded for the commit.   *)
IsBrought(ie, f, te, c, o) ==
    /\ o.f \in File /\ o.ie.blob = te.c /\ o.ie.hasCommit /\ o.ie.commit = c /\ o.ie.x = o.f.x
    /\ \/ o.f = te
       \/ ie = None /\ f # None /\ o.f = f
       \/ ie # None /\ f \in File /\ o.f = [f EXCEPT !.c = MergeFile(ie.blob, f.c, te.c)]
       \/ ie # None /\ f \in File /\ o.f = f /\ f.x # ie.x

(* get_file_status for an entry that is neither staged nor scheduled.         *)
LEMMA StatusOf ==
    ASSUME NEW ie \in Entry, ie.stage = "-", ~ie.nofile, NEW f \in OnDisk,
           NEW st, st = GetFileStatus(ie, f)
    PROVE  /\ f = None => st = "!"
           /\ f = Dir => st = "~"
           /\ f \in File => st \in {NoChange, "M", "m", "A", "C"}
           /\ f \in File /\ st # "A" => ie.blob # None
           /\ st = "m" => f.x # ie.x
           /\ st \in {NoChange, "M", "m", "A", "C"} => f \in File
<1>1. ComparedBlob(ie) = ie.blob BY DEF ComparedBlob
<1>2. CASE f = None
  <2>1. st = "!" BY <1>2, FileConstants DEF GetFileStatus
  <2> QED BY <1>2, <2>1, NoChangeIs, FileConstants
<1>3. CASE f = Dir
  <2>1. st = "~" BY <1>3, FileConstants DEF GetFileStatus
  <2> QED BY <1>3, <2>1, NoChangeIs, FileConstants
<1>4. CASE f \in File
  <2>1. f # None /\ f # Dir BY <1>4, FileIs
  <2>2. CASE ie.blob = None
    <3>1. st = "A" BY <2>1, <2>2 DEF GetFileStatus
    <3> QED BY <1>4, <2>1, <3>1
  <2>3. CASE ie.blob # None
    <3>1. st = IF ~StatInfoDiffers(ie, f) THEN NoChange
               ELSE IF f.c # ie.blob THEN IF HasMarkers(f.c) THEN "C" ELSE "M"
                    ELSE IF XbitDiffers(ie, f) THEN "m" ELSE NoChange
      BY <1>1, <2>1, <2>3 DEF GetFileStatus
    <3>2. st \in {NoChange, "M", "m", "C"} /\ (st = "m" => f.x # ie.x)
      BY <2>1, <3>1, NoChangeIs DEF XbitDiffers
    <3> QED BY <1>4, <2>1, <2>3, <3>2, NoChangeIs
  <2> QED BY <2>2, <2>3
<1> QED BY <1>2, <1>3, <1>4 DEF OnDisk

(* An entry for a file of a commit.                                           *)
LEMMA EntryUpdateRecorded ==
    ASSUME NEW p \in Paths, NEW c \in Commits, Tree[c][p] # None,
           NEW ie \in Entry, ie.stage = "-", NEW f \in File, NEW ts \in BOOLEAN, NEW e,
           e = EntryUpdate(ie, f, Tree[c][p].c, c, ts)
    PROVE  /\ e \in Entry /\ e # None /\ e.blob = Tree[c][p].c /\ e.hasCommit /\ e.commit = c
           /\ e.x = f.x /\ Recorded(p, e)
<1> DEFINE b == Tree[c][p].c
<1>1. b \in Content /\ c # None BY TreeBlob, FileConstants
<1>2. e = EntryUpdate(ie, f, b, c, ts) OBVIOUS
<1> HIDE DEF b
<1>3. /\ e \in Entry /\ e # None /\ e.stage = ie.stage /\ ~e.nofile
      /\ e.blob = b /\ e.x = f.x /\ e.hasCommit /\ e.commit = c
  BY <1>1, <1>2, EntryUpdateIs
<1> QED BY <1>3 DEF Recorded, b

(* install_blob: the file is written, unless an unversioned one is there.     *)
LEMMA InstallBlobIs ==
    ASSUME NEW p \in Paths, NEW c \in Commits, Tree[c][p] # None, NEW ie \in Index,
           Formed(ie), NEW f \in File \cup {None},
           NEW o, o = InstallBlob(ie, f, Tree[c][p], c)
    PROVE  /\ ~o.err /\ o.ie \in Entry /\ Recorded(p, o.ie)
           /\ IsBrought(ie, f, Tree[c][p], c, o)
<1> DEFINE te == Tree[c][p]
           f2 == IF ie = None /\ f # None THEN f ELSE te
           ie1 == IF ie = None THEN EmptyEntry ELSE Touched(ie)
<1>1. te \in File /\ te # None BY TreeBlob
<1>2. f2 \in File /\ f2 # None /\ f2 # Dir BY <1>1, FileIs
<1>3. ie1 \in Entry /\ ie1.stage = "-"
  <2>1. CASE ie = None BY <2>1 DEF EmptyEntry, Entry
  <2>2. CASE ie # None BY <2>2, TouchedIs DEF Formed
  <2> QED BY <2>1, <2>2
<1>4. f2 = te \/ (ie = None /\ f # None /\ f2 = f) OBVIOUS
<1>5. o = IF EntryUpdateFails(ie1, f2) THEN Fail(f2, ie)
          ELSE Done(f2, EntryUpdate(ie1, f2, Tree[c][p].c, c, TRUE))
  BY DEF InstallBlob
<1> HIDE DEF f2, ie1
<1>6. ~EntryUpdateFails(ie1, f2) BY <1>2 DEF EntryUpdateFails
<1>7. \E ts \in BOOLEAN : o = Done(f2, EntryUpdate(ie1, f2, Tree[c][p].c, c, ts)) BY <1>5, <1>6, Zenon
<1>8. PICK ts \in BOOLEAN : o = Done(f2, EntryUpdate(ie1, f2, Tree[c][p].c, c, ts)) BY <1>7
<1> DEFINE e == EntryUpdate(ie1, f2, Tree[c][p].c, c, ts)
<1>9. o.err = FALSE /\ o.f = f2 /\ o.ie = e BY <1>8 DEF Done
<1>10. /\ e \in Entry /\ e.blob = Tree[c][p].c /\ e.hasCommit /\ e.commit = c
       /\ e.x = f2.x /\ Recorded(p, e)
  BY <1>2, <1>3, EntryUpdateRecorded
<1> HIDE DEF e
<1> QED BY <1>2, <1>4, <1>9, <1>10 DEF IsBrought

(* merge_blob: the file is the merge, and its entry has the incoming blob.    *)
LEMMA MergeBlobIs ==
    ASSUME NEW p \in Paths, NEW c \in Commits, Tree[c][p] # None, NEW ie \in Entry,
           Formed(ie), NEW f \in File, NEW o, o = MergeBlob(ie, f, Tree[c][p], c)
    PROVE  /\ ~o.err /\ o.ie \in Entry /\ Recorded(p, o.ie)
           /\ IsBrought(ie, f, Tree[c][p], c, o)
<1> DEFINE te == Tree[c][p]
           ie1 == Touched(ie)
           m == MergeFile(ie.blob, f.c, te.c)
           ts == ~HasMarkers(m) /\ m = te.c
           f2 == [f EXCEPT !.c = m]
           e == EntryUpdate(ie1, f2, Tree[c][p].c, c, ts)
<1>1. te \in File /\ te.c \in Content BY TreeBlob
<1>2. f.c \in Content /\ ie # None /\ ie.blob \in Content \cup {None}
  BY FileIs, FileConstants DEF Entry
<1>3. ie1 \in Entry /\ ie1.stage = "-" BY <1>2, TouchedIs DEF Formed, Index
<1>4. m \in Content BY <1>1, <1>2, MergeKeeps
<1>5. o = Done(f2, e) BY DEF MergeBlob
<1> HIDE DEF ie1
<1>6. f2 \in File
  <2> HIDE DEF m
  <2> QED BY <1>4 DEF File
<1>7. ts \in BOOLEAN OBVIOUS
<1>8. f2 = [f EXCEPT !.c = MergeFile(ie.blob, f.c, Tree[c][p].c)] OBVIOUS
<1> HIDE DEF f2, ts, m
<1>9. /\ e \in Entry /\ e.blob = Tree[c][p].c /\ e.hasCommit /\ e.commit = c
      /\ e.x = f2.x /\ Recorded(p, e)
  BY <1>3, <1>6, <1>7, EntryUpdateRecorded
<1>10. o.err = FALSE /\ o.f = f2 /\ o.ie = e BY <1>5 DEF Done
<1> HIDE DEF e
<1> QED BY <1>2, <1>6, <1>8, <1>9, <1>10 DEF IsBrought

(* sync_timestamps changes neither blob nor commit.                           *)
LEMMA SyncTimestampsIs ==
    ASSUME NEW p, NEW ie \in Entry, Recorded(p, ie), NEW f \in File,
           NEW e, e = SyncTimestamps(ie, f)
    PROVE  /\ e \in Entry /\ Recorded(p, e) /\ e.blob = ie.blob /\ e.commit = ie.commit
           /\ ie.blob # None /\ ie.hasCommit => e.hasCommit
           /\ e.x = ie.x \/ e.x = f.x
<1>0. ie # None /\ ie.stage = "-" /\ ~ie.nofile BY FileConstants DEF Recorded
<1>1. CASE GetFileStatus(ie, f) = NoChange /\ StatInfoDiffers(ie, f)
  <2>0. f \in OnDisk BY DEF OnDisk
  <2>1. ie.blob # None BY <1>0, <1>1, <2>0, StatusOf, NoChangeIs
  <2>2. ie.commit \in Commits /\ ie.commit # None /\ ie.blob \in Content \cup {None}
    BY <1>0, <2>1, FileConstants DEF Recorded, Entry
  <2>3. \E ts \in BOOLEAN : e = EntryUpdate(ie, f, ie.blob, ie.commit, ts)
    BY <1>1, Zenon DEF SyncTimestamps
  <2>4. PICK ts \in BOOLEAN : e = EntryUpdate(ie, f, ie.blob, ie.commit, ts) BY <2>3
  <2>5. /\ e \in Entry /\ e # None /\ e.stage = ie.stage /\ ~e.nofile
        /\ e.blob = ie.blob /\ e.x = f.x /\ e.hasCommit /\ e.commit = ie.commit
    BY <2>2, <2>4, EntryUpdateIs
  <2> QED BY <1>0, <2>1, <2>5 DEF Recorded
<1>2. CASE ~(GetFileStatus(ie, f) = NoChange /\ StatInfoDiffers(ie, f))
  BY <1>2 DEF SyncTimestamps
<1> QED BY <1>1, <1>2

(* update_blob.                                                               *)
LEMMA UpdateBlobIs ==
    ASSUME NEW p \in Paths, NEW c \in Commits, Tree[c][p] # None, NEW ie \in Index,
           Recorded(p, ie), NEW f \in File \cup {None}, UpdateStatus(ie, f) # "C",
           NEW o, o = UpdateBlob(ie, f, Tree[c][p], c)
    PROVE  /\ ~o.err /\ o.ie \in Entry /\ Recorded(p, o.ie)
           /\ \/ IsBrought(ie, f, Tree[c][p], c, o)
              \/ IsUpToDate(ie, f, Tree[c][p], c, o) /\ (o.ie.x = ie.x \/ o.ie.x = f.x)
<1> DEFINE te == Tree[c][p]
           st == UpdateStatus(ie, f)
<1>0. Formed(ie) BY DEF Recorded, Formed
<1>1. CASE ie = None
  <2>1. st = "?" /\ ~UpToDate(ie, f, te, c) BY <1>1 DEF UpdateStatus, UpToDate
  <2>2. o = InstallBlob(ie, f, te, c) BY <1>1, <2>1 DEF UpdateBlob
  <2> QED BY <1>0, <2>2, InstallBlobIs
<1>2. CASE ie # None
  <2>1. ie \in Entry /\ ie.stage = "-" /\ ~ie.nofile /\ st = GetFileStatus(ie, f)
    BY <1>2 DEF Index, Recorded, UpdateStatus
  <2>2. /\ f = None => st = "!"
        /\ f \in File => st \in {NoChange, "M", "m", "A"}
        /\ st = "m" => f.x # ie.x
        /\ st \in {NoChange, "M", "m", "A"} => f \in File
    <3>1. f \in OnDisk BY DEF OnDisk
    <3> QED BY <2>1, <3>1, StatusOf
  <2>3. st \in {NoChange, "M", "m", "A", "!"} BY <2>2
  <2>4. o = CASE st \in {"~", "C"} -> Done(f, ie)
              [] OTHER ->
                 IF UpToDate(ie, f, te, c) THEN Done(f, SyncTimestamps(ie, f))
                 ELSE CASE st \in {"M", "A"} -> MergeBlob(ie, f, te, c)
                        [] st \in {"m", "D"} ->
                             IF EntryUpdateFails(ie, f) THEN Fail(f, ie)
                             ELSE Done(f, EntryUpdate(ie, f, te.c, c, FALSE))
                        [] OTHER -> InstallBlob(ie, f, te, c)
    BY <1>2, <2>1 DEF UpdateBlob
  <2>5. UpToDate(ie, f, te, c) =>
          /\ st # "!" /\ te.x = UpdateXbit(ie, f)
          /\ (ie.hasCommit /\ ie.commit = c) \/ (ie.blob # None /\ ie.blob = te.c)
    BY DEF UpToDate
  <2>6. st # "!" => UpdateXbit(ie, f) = f.x BY <2>1, <2>3, NoChangeIs DEF UpdateXbit
  <2> HIDE DEF te, st
  <2>7. st \notin {"~", "C", "D"} BY <2>3, NoChangeIs
  <2>8. CASE UpToDate(ie, f, te, c)
    <3> DEFINE e == SyncTimestamps(ie, f)
    <3>1. f \in File /\ f # None BY <2>2, <2>3, <2>5, <2>8, FileIs
    <3>2. o = Done(f, e) BY <2>4, <2>7, <2>8
    <3>3. o.err = FALSE /\ o.f = f /\ o.ie = e BY <3>2 DEF Done
    <3>4. /\ e \in Entry /\ Recorded(p, e) /\ e.blob = ie.blob /\ e.commit = ie.commit
          /\ ie.blob # None /\ ie.hasCommit => e.hasCommit
          /\ e.x = ie.x \/ e.x = f.x
      BY <2>1, <3>1, SyncTimestampsIs
    <3> HIDE DEF e
    <3> QED BY <1>2, <2>5, <2>6, <2>8, <3>1, <3>3, <3>4 DEF IsUpToDate, te
  <2>9. CASE ~UpToDate(ie, f, te, c) /\ st \in {"M", "A"}
    <3>1. o = MergeBlob(ie, f, te, c) /\ f \in File BY <2>2, <2>4, <2>7, <2>9
    <3> QED BY <1>0, <2>1, <3>1, MergeBlobIs DEF te
  <2>10. CASE ~UpToDate(ie, f, te, c) /\ st = "m"
    <3>1. f \in File /\ f.x # ie.x BY <2>2, <2>10
    <3>2. ~EntryUpdateFails(ie, f) BY <3>1, FileIs DEF EntryUpdateFails
    <3>3. o = Done(f, EntryUpdate(ie, f, te.c, c, FALSE)) BY <2>4, <2>10, <3>2
    <3>4. \E ts \in BOOLEAN : o = Done(f, EntryUpdate(ie, f, Tree[c][p].c, c, ts))
      BY <3>3, Zenon DEF te
    <3>5. PICK ts \in BOOLEAN : o = Done(f, EntryUpdate(ie, f, Tree[c][p].c, c, ts)) BY <3>4
    <3> DEFINE e == EntryUpdate(ie, f, Tree[c][p].c, c, ts)
    <3>6. o.err = FALSE /\ o.f = f /\ o.ie = e BY <3>5 DEF Done
    <3>7. /\ e \in Entry /\ e.blob = Tree[c][p].c /\ e.hasCommit /\ e.commit = c
          /\ e.x = f.x /\ Recorded(p, e)
      BY <2>1, <3>1, EntryUpdateRecorded
    <3> HIDE DEF e
    <3> QED BY <1>2, <3>1, <3>6, <3>7 DEF IsBrought
  <2>11. CASE ~UpToDate(ie, f, te, c) /\ st \in {NoChange, "!"}
    <3>1. o = InstallBlob(ie, f, te, c) BY <2>4, <2>7, <2>11, NoChangeIs
    <3> QED BY <1>0, <3>1, InstallBlobIs DEF te
  <2> QED BY <2>3, <2>8, <2>9, <2>10, <2>11
<1> QED BY <1>1, <1>2

(* delete_blob: the entry is gone, or it is that of an added file.            *)
LEMMA DeleteBlobIs ==
    ASSUME NEW p \in Paths, NEW ie \in Entry, Recorded(p, ie), NEW f \in OnDisk,
           NEW o \in DeleteBlob(ie, f)
    PROVE  /\ o.f \in OnDisk /\ o.ie \in Index /\ Recorded(p, o.ie)
           /\ ~o.err => o.ie = None \/ o.ie.blob = None
<1> DEFINE st == GetFileStatus(ie, f)
<1>1. ie # None /\ ie.stage = "-" /\ ~ie.nofile BY FileConstants DEF Recorded
<1>2. \/ st \in {"M", "C", "A"} /\ o = Done(f, EntryUpdate(ie, f, None, None, FALSE))
      \/ o = Done(IF st = NoChange THEN None ELSE f, None)
      \/ o = Fail(f, ie)
  BY <1>1 DEF DeleteBlob
<1>3. st \in {"M", "C", "A"} => f \in File BY <1>1, StatusOf
<1> HIDE DEF st
<1>4. CASE st \in {"M", "C", "A"} /\ o = Done(f, EntryUpdate(ie, f, None, None, FALSE))
  <2>1. f \in File BY <1>3, <1>4
  <2>2. \E ts \in BOOLEAN : o = Done(f, EntryUpdate(ie, f, None, None, ts)) BY <1>4, Zenon
  <2>3. PICK ts \in BOOLEAN : o = Done(f, EntryUpdate(ie, f, None, None, ts)) BY <2>2
  <2> DEFINE e == EntryUpdate(ie, f, None, None, ts)
  <2>4. e \in Entry /\ e # None /\ e.stage = ie.stage /\ ~e.nofile /\ e.blob = None
    BY <2>1, EntryUpdateIs
  <2>5. o.f = f /\ o.ie = e BY <2>3 DEF Done
  <2> HIDE DEF e
  <2> QED BY <1>1, <2>1, <2>4, <2>5 DEF Index, Recorded
<1>5. CASE o = Done(IF st = NoChange THEN None ELSE f, None)
  <2>1. o.f = (IF st = NoChange THEN None ELSE f) /\ o.ie = None BY <1>5 DEF Done
  <2> QED BY <2>1 DEF Index, Recorded, OnDisk
<1>6. CASE o = Fail(f, ie)
  <2>1. o.f = f /\ o.ie = ie /\ o.err = TRUE BY <1>6 DEF Fail
  <2> QED BY <2>1 DEF Index
<1> QED BY <1>2, <1>4, <1>5, <1>6

(* Whatever an entry's blob and commit are, what update makes of the path is  *)
(* a file, a directory or nothing, with an entry in order.                    *)
LEMMA EntryUpdateFormed ==
    ASSUME NEW ie \in Entry, ie.stage = "-", NEW f \in File, NEW b \in Content \cup {None},
           NEW c \in Commits \cup {None}, NEW ts \in BOOLEAN, NEW o,
           o = Done(f, EntryUpdate(ie, f, b, c, ts))
    PROVE  o.f = f /\ o.ie \in Index /\ Formed(o.ie)
<1> DEFINE e == EntryUpdate(ie, f, b, c, ts)
<1>1. o.f = f /\ o.ie = e BY DEF Done
<1>2. /\ e \in Entry /\ e # None /\ e.stage = ie.stage /\ ~e.nofile
      /\ e.blob = b /\ e.x = f.x
  <2>1. e = EntryUpdate(ie, f, b, c, ts) OBVIOUS
  <2> HIDE DEF e
  <2> QED BY <2>1, EntryUpdateIs
<1> HIDE DEF e
<1> QED BY <1>1, <1>2 DEF Index, Formed

LEMMA UpdateBlobFormed ==
    ASSUME NEW p \in Paths, NEW c \in Commits, Tree[c][p] # None, NEW ie \in Index, Formed(ie),
           NEW f \in OnDisk, NEW o, o = UpdateBlob(ie, f, Tree[c][p], c)
    PROVE  o.f \in OnDisk /\ o.ie \in Index /\ Formed(o.ie)
<1> DEFINE te == Tree[c][p]
           st == UpdateStatus(ie, f)
<1>1. te.c \in Content \cup {None} BY TreeBlob
<1>2. ASSUME o = Done(f, ie) \/ o = Fail(f, ie) PROVE o.f \in OnDisk /\ o.ie \in Index /\ Formed(o.ie)
  <2>1. o.f = f /\ o.ie = ie BY <1>2 DEF Done, Fail
  <2> QED BY <2>1
<1>3. ASSUME o = InstallBlob(ie, f, te, c), f \in File \cup {None}
      PROVE  o.f \in OnDisk /\ o.ie \in Index /\ Formed(o.ie)
  <2>1. o.ie \in Entry /\ Recorded(p, o.ie) /\ IsBrought(ie, f, Tree[c][p], c, o)
    BY <1>3, InstallBlobIs
  <2> QED BY <2>1 DEF IsBrought, Recorded, Formed, Index, OnDisk
<1>4. CASE ie = None
  <2>1. st = "?" /\ ~UpToDate(ie, f, te, c) BY <1>4 DEF UpdateStatus, UpToDate
  <2>2. o = InstallBlob(ie, f, te, c) BY <1>4, <2>1 DEF UpdateBlob
  <2>3. CASE f = Dir
    <3>1. o = Fail(f, ie) BY <1>4, <2>2, <2>3, FileConstants DEF InstallBlob, EntryUpdateFails
    <3> QED BY <1>2, <3>1
  <2>4. CASE f # Dir BY <1>3, <2>2, <2>4 DEF OnDisk
  <2> QED BY <2>3, <2>4
<1>5. CASE ie # None
  <2>1. ie \in Entry /\ ie.stage = "-" /\ ~ie.nofile /\ st = GetFileStatus(ie, f)
    BY <1>5 DEF Index, Formed, UpdateStatus
  <2>2. /\ st \in {NoChange, "M", "C", "m", "A"} => f \in File
        /\ st \in {NoChange, "M", "C", "m", "A", "!", "~"}
    BY <2>1, StatusOf, NoChangeIs DEF OnDisk
  <2>3. o = CASE st \in {"~", "C"} -> Done(f, ie)
              [] OTHER ->
                 IF UpToDate(ie, f, te, c) THEN Done(f, SyncTimestamps(ie, f))
                 ELSE CASE st \in {"M", "A"} -> MergeBlob(ie, f, te, c)
                        [] st \in {"m", "D"} ->
                             IF EntryUpdateFails(ie, f) THEN Fail(f, ie)
                             ELSE Done(f, EntryUpdate(ie, f, te.c, c, FALSE))
                        [] OTHER -> InstallBlob(ie, f, te, c)
    BY <1>5, <2>1 DEF UpdateBlob
  <2>4. UpToDate(ie, f, te, c) => st # "!" BY DEF UpToDate
  <2> HIDE DEF te, st
  <2>5. st # "D" BY <2>2, NoChangeIs
  <2>6. CASE st \in {"~", "C"} BY <1>2, <2>3, <2>6
  <2>7. CASE st \notin {"~", "C"} /\ UpToDate(ie, f, te, c)
    <3>1. o = Done(f, SyncTimestamps(ie, f)) /\ f \in File BY <2>2, <2>3, <2>4, <2>7
    <3>2. \/ o = Done(f, ie)
          \/ \E ts \in BOOLEAN : o = Done(f, EntryUpdate(ie, f, ie.blob, ie.commit, ts))
      <4>1. SyncTimestamps(ie, f) = ie
            \/ SyncTimestamps(ie, f) = EntryUpdate(ie, f, ie.blob, ie.commit, TRUE)
        BY Zenon DEF SyncTimestamps
      <4> QED BY <3>1, <4>1, Zenon
    <3>3. ie.blob \in Content \cup {None} /\ ie.commit \in Commits \cup {None}
      BY <2>1 DEF Entry
    <3>4. ASSUME NEW ts \in BOOLEAN, o = Done(f, EntryUpdate(ie, f, ie.blob, ie.commit, ts))
          PROVE  o.f = f /\ o.ie \in Index /\ Formed(o.ie)
      BY <2>1, <3>1, <3>3, <3>4, EntryUpdateFormed
    <3> QED BY <1>2, <3>2, <3>4
  <2>8. CASE st \in {"M", "A"} /\ ~UpToDate(ie, f, te, c)
    <3>1. o = MergeBlob(ie, f, Tree[c][p], c) /\ f \in File BY <2>2, <2>3, <2>8 DEF te
    <3>2. o.ie \in Entry /\ Recorded(p, o.ie) /\ IsBrought(ie, f, Tree[c][p], c, o)
      BY <2>1, <3>1, MergeBlobIs
    <3> QED BY <3>2 DEF IsBrought, Recorded, Formed, Index, OnDisk
  <2>9. CASE st = "m" /\ ~UpToDate(ie, f, te, c)
    <3>1. f \in File /\ ~EntryUpdateFails(ie, f) BY <2>2, <2>9, FileIs DEF EntryUpdateFails
    <3>2. o = Done(f, EntryUpdate(ie, f, te.c, c, FALSE)) BY <2>3, <2>9, <3>1
    <3>3. \E ts \in BOOLEAN : o = Done(f, EntryUpdate(ie, f, te.c, c, ts)) BY <3>2, Zenon
    <3> QED BY <1>1, <2>1, <3>1, <3>3, EntryUpdateFormed DEF te
  <2>10. CASE st \in {NoChange, "!"} /\ ~UpToDate(ie, f, te, c)
    <3>1. o = InstallBlob(ie, f, te, c) BY <2>3, <2>10, NoChangeIs
    <3>2. f # Dir
      <4>1. f = Dir => GetFileStatus(ie, f) = "~" BY FileConstants DEF GetFileStatus
      <4> QED BY <2>1, <2>10, <4>1, NoChangeIs
    <3> QED BY <1>3, <3>1, <3>2 DEF OnDisk
  <2> QED BY <2>2, <2>6, <2>7, <2>8, <2>9, <2>10
<1> QED BY <1>4, <1>5

LEMMA DeleteBlobFormed ==
    ASSUME NEW ie \in Entry, Formed(ie), NEW f \in OnDisk, NEW o \in DeleteBlob(ie, f)
    PROVE  o.f \in OnDisk /\ o.ie \in Index /\ Formed(o.ie)
<1> DEFINE st == GetFileStatus(ie, f)
<1>1. ie # None /\ ie.stage = "-" /\ ~ie.nofile BY FileConstants DEF Formed
<1>2. \/ st \in {"M", "C", "A"} /\ o = Done(f, EntryUpdate(ie, f, None, None, FALSE))
      \/ o = Done(IF st = NoChange THEN None ELSE f, None)
      \/ o = Fail(f, ie)
  BY <1>1 DEF DeleteBlob
<1>3. st \in {"M", "C", "A"} => f \in File BY <1>1, StatusOf
<1> HIDE DEF st
<1>4. CASE st \in {"M", "C", "A"} /\ o = Done(f, EntryUpdate(ie, f, None, None, FALSE))
  <2>1. \E ts \in BOOLEAN : o = Done(f, EntryUpdate(ie, f, None, None, ts)) BY <1>4, Zenon
  <2>2. None \in Content \cup {None} /\ None \in Commits \cup {None} /\ f \in File BY <1>3, <1>4
  <2>3. o.f = f /\ o.ie \in Index /\ Formed(o.ie) BY <1>1, <2>1, <2>2, EntryUpdateFormed
  <2> QED BY <2>3
<1>5. CASE o = Done(IF st = NoChange THEN None ELSE f, None)
  <2>1. o.f \in {f, None} /\ o.ie = None BY <1>5 DEF Done
  <2> QED BY <2>1 DEF Index, Formed, OnDisk
<1>6. CASE o = Fail(f, ie)
  <2>1. o.f = f /\ o.ie = ie BY <1>6 DEF Fail
  <2> QED BY <2>1 DEF Index
<1> QED BY <1>2, <1>4, <1>5, <1>6

LEMMA OutcomesFormed ==
    ASSUME MatchInv, NEW p \in Paths, NEW o \in Outcomes(p)
    PROVE  o.f \in OnDisk /\ o.ie \in Index /\ Formed(o.ie)
<1> DEFINE ie == mi[p]
           f == disk[p]
<1>1. base \in Commits /\ ie \in Index /\ f \in OnDisk /\ Formed(ie)
  BY UpdateConstants DEF MatchInv, Matched
<1>2. CASE Tree[base][p] # None
  <2>1. o = UpdateBlob(ie, f, Tree[base][p], base) BY <1>2 DEF Outcomes
  <2> QED BY <1>1, <1>2, <2>1, UpdateBlobFormed
<1>3. CASE Tree[base][p] = None /\ ie # None
  <2>1. o \in DeleteBlob(ie, f) /\ ie \in Entry BY <1>1, <1>3 DEF Outcomes, Index
  <2> QED BY <1>1, <2>1, DeleteBlobFormed
<1>4. CASE Tree[base][p] = None /\ ie = None
  <2>1. o = Done(f, None) BY <1>4 DEF Outcomes
  <2>2. o.f = f /\ o.ie = None BY <2>1 DEF Done
  <2> QED BY <1>1, <2>2 DEF Index, Formed
<1> QED BY <1>2, <1>3, <1>4

(* What a step of the walk does to a path that is not passed over.            *)
LEMMA OutcomesRecorded ==
    ASSUME MatchInv, NEW p \in Paths, p \notin skipped, ~Skips(p), NEW o \in Outcomes(p)
    PROVE  /\ o.f \in OnDisk /\ o.ie \in Index /\ Recorded(p, o.ie)
           /\ ~o.err => Current(p, o.ie, base)
<1> DEFINE ie == mi[p]
           f == disk[p]
           te == Tree[base][p]
<1>1. /\ base \in Commits /\ ie \in Index /\ f \in OnDisk /\ Recorded(p, ie)
      /\ te # None => UpdateStatus(ie, f) \notin {"~", "C"}
  BY UpdateConstants DEF MatchInv, Matched, Skips
<1>d. CASE te # None /\ f = Dir
  <2>1. o = UpdateBlob(ie, f, te, base) BY <1>d DEF Outcomes
  <2>2. ie = None
    <3>1. ASSUME ie # None PROVE FALSE
      <4>1. ie \in Entry /\ ie.stage = "-" /\ ~ie.nofile BY <1>1, <3>1 DEF Index, Recorded
      <4>2. GetFileStatus(ie, f) = "~" BY <1>1, <1>d, <4>1, StatusOf
      <4> QED BY <1>1, <1>d, <3>1, <4>2 DEF UpdateStatus
    <3> QED BY <3>1
  <2> HIDE DEF ie, f, te
  <2>3. UpdateStatus(ie, f) = "?" /\ ~UpToDate(ie, f, te, base) BY <2>2 DEF UpdateStatus, UpToDate
  <2>4. o = InstallBlob(ie, f, te, base) BY <2>1, <2>2, <2>3 DEF UpdateBlob
  <2>5. o = Fail(f, ie) BY <1>d, <2>2, <2>4, FileConstants DEF InstallBlob, EntryUpdateFails
  <2>6. o.f = f /\ o.ie = ie /\ o.err = TRUE BY <2>5 DEF Fail
  <2> QED BY <1>1, <2>6
<1>2. CASE te # None /\ f # Dir
  <2>0. f \in File \cup {None} BY <1>1, <1>2 DEF OnDisk
  <2>1. o = UpdateBlob(ie, f, Tree[base][p], base) BY <1>2 DEF Outcomes
  <2> HIDE DEF ie, f
  <2>2. /\ ~o.err /\ o.ie \in Entry /\ Recorded(p, o.ie)
        /\ \/ IsBrought(ie, f, Tree[base][p], base, o)
           \/ IsUpToDate(ie, f, Tree[base][p], base, o)
    BY <1>1, <1>2, <2>0, <2>1, UpdateBlobIs
  <2>3. o.f \in OnDisk BY <1>1, <2>2 DEF IsBrought, IsUpToDate, OnDisk
  <2>4. Current(p, o.ie, base)
    <3>1. CASE IsBrought(ie, f, Tree[base][p], base, o)
      BY <1>2, <3>1 DEF IsBrought, Current
    <3>2. CASE IsUpToDate(ie, f, Tree[base][p], base, o)
      BY <1>1, <1>2, <3>2 DEF IsUpToDate, Current, Recorded
    <3> QED BY <2>2, <3>1, <3>2
  <2> QED BY <2>2, <2>3, <2>4 DEF Index
<1>3. CASE te = None /\ ie # None
  <2>1. o \in DeleteBlob(ie, f) /\ ie \in Entry BY <1>1, <1>3 DEF Outcomes, Index
  <2> HIDE DEF ie, f
  <2>2. /\ o.f \in OnDisk /\ o.ie \in Index /\ Recorded(p, o.ie)
        /\ ~o.err => o.ie = None \/ o.ie.blob = None
    BY <1>1, <2>1, DeleteBlobIs
  <2> QED BY <2>2 DEF Current
<1>4. CASE te = None /\ ie = None
  <2>1. o = Done(f, None) BY <1>4 DEF Outcomes
  <2>2. o.f = f /\ o.ie = None BY <2>1 DEF Done
  <2> QED BY <1>1, <2>2 DEF Current, Recorded, Index, OnDisk
<1> QED BY <1>d, <1>2, <1>3, <1>4

(* A step that concerns one path.                                             *)
LEMMA MatchPathStep ==
    ASSUME MatchInv, NEW p \in Paths, NEW f \in OnDisk, NEW e \in Index, NEW m \in Index,
           disk' = [disk EXCEPT ![p] = f], fi' = [fi EXCEPT ![p] = e],
           mi' = [mi EXCEPT ![p] = m], skipped \subseteq skipped',
           Matched(p, e, skipped'), Matched(p, m, skipped'),
           base' = base, sel' = sel, todo' \in Seq(Paths), WritesNext',
           pc' = "walk" => /\ pc = "walk"
                           /\ \A q \in Pending : q = p \/ q \in Pending'
                           /\ \/ Current(p, m, base) \/ p \in Pending' \cup skipped'
                              \/ todo' = todo /\ (Current(p, mi[p], base) => Current(p, m, base))
    PROVE  MatchInv'
<1>1. /\ disk \in [Paths -> OnDisk] /\ fi \in [Paths -> Index] /\ mi \in [Paths -> Index]
      /\ base \in Targets \cup {InitCommit} /\ sel \in Seq(Paths)
      /\ \A q \in Paths : Matched(q, fi[q], skipped) /\ Matched(q, mi[q], skipped)
      /\ pc = "walk" => \A q \in Selected : \/ Current(q, mi[q], base)
                                            \/ q \in Pending \cup skipped
  BY DEF MatchInv
<1>2. /\ disk' \in [Paths -> OnDisk] /\ fi' \in [Paths -> Index] /\ mi' \in [Paths -> Index]
      /\ disk'[p] = f /\ fi'[p] = e /\ mi'[p] = m
      /\ \A q \in Paths : q # p => disk'[q] = disk[q] /\ fi'[q] = fi[q] /\ mi'[q] = mi[q]
  BY <1>1
<1>3. ASSUME NEW q \in Paths PROVE Matched(q, fi'[q], skipped') /\ Matched(q, mi'[q], skipped')
  <2>1. CASE q = p BY <1>2, <2>1
  <2>2. CASE q # p
    <3>1. Matched(q, fi[q], skipped') /\ Matched(q, mi[q], skipped') BY <1>1 DEF Matched
    <3> QED BY <1>2, <2>2, <3>1
  <2> QED BY <2>1, <2>2
<1>4. \A q \in Paths : (Matched(q, fi[q], skipped) /\ Matched(q, mi[q], skipped))'
  BY <1>3 DEF Matched, Formed, Recorded
<1>5. ASSUME pc' = "walk", NEW q \in Selected'
      PROVE  Current(q, mi'[q], base') \/ q \in Pending' \cup skipped'
  <2>1. q \in Selected BY <1>5 DEF Selected
  <2>2. q \in Paths BY <1>1, <2>1 DEF Selected
  <2>3. Current(q, mi[q], base) \/ q \in Pending \cup skipped BY <1>1, <1>5, <2>1
  <2>4. CASE q # p BY <1>2, <1>5, <2>2, <2>3, <2>4
  <2>5. CASE q = p
    <3>1. todo' = todo => Pending' = Pending BY DEF Pending
    <3> QED BY <1>2, <1>5, <2>3, <2>5, <3>1
  <2> QED BY <2>4, <2>5
<1>6. ASSUME pc' = "walk", NEW q \in Selected'
      PROVE  Current(q, mi[q], base)' \/ q \in Pending' \cup skipped'
  BY <1>5, <1>6 DEF Current
<1>7. (\A q \in Paths : Matched(q, fi[q], skipped) /\ Matched(q, mi[q], skipped))' BY <1>4
<1>8. (pc = "walk" => \A q \in Selected : \/ Current(q, mi[q], base)
                                         \/ q \in Pending \cup skipped)'
  BY <1>6
<1> QED BY <1>1, <1>2, <1>7, <1>8 DEF MatchInv

(* A step of the walk that ends with o.                                       *)
LEMMA MatchApplyStep ==
    ASSUME MatchInv, pc = "walk", todo # <<>>, NEW p, p = Head(todo), NEW o, Apply(p, o),
           base' = base, sel' = sel, inst' = None, skipped \subseteq skipped',
           o.f \in OnDisk, o.ie \in Index, Matched(p, o.ie, skipped'),
           ~o.err => Current(p, o.ie, base) \/ p \in skipped'
    PROVE  MatchInv'
<1>1. /\ disk \in [Paths -> OnDisk] /\ fi \in [Paths -> Index] /\ todo \in Seq(Paths)
      /\ \A q \in Paths : Matched(q, fi[q], skipped') /\ Matched(q, mi[q], skipped')
  BY DEF MatchInv, Matched
<1>2. /\ p \in Paths /\ Tail(todo) \in Seq(Paths)
      /\ \A q : q \in Pending => q = p \/ q \in {Tail(todo)[i] : i \in DOMAIN Tail(todo)}
  BY <1>1, TailIs DEF Pending
<1> DEFINE e == IF o.f = disk[p] THEN fi[p] ELSE Touched(fi[p])
           f == o.f
           m == o.ie
<1>3. fi' = [fi EXCEPT ![p] = e]
  <2>1. CASE o.f = disk[p]
    <3>1. fi' = fi BY <2>1 DEF Apply
    <3> QED BY <1>1, <1>2, <2>1, <3>1
  <2>2. CASE o.f # disk[p] BY <2>2 DEF Apply
  <2> QED BY <2>1, <2>2
<1>4. e \in Index /\ Matched(p, e, skipped')
  <2>1. fi[p] \in Index /\ Matched(p, fi[p], skipped') BY <1>1, <1>2
  <2>2. CASE o.f = disk[p] BY <2>1, <2>2
  <2>3. CASE o.f # disk[p]
    <3>1. e = Touched(fi[p]) BY <2>3
    <3> HIDE DEF e
    <3> QED BY <2>1, <3>1, TouchedMatched
  <2> QED BY <2>2, <2>3
<1>5. disk' = [disk EXCEPT ![p] = f] /\ mi' = [mi EXCEPT ![p] = m] BY DEF Apply
<1>6. /\ f \in OnDisk /\ m \in Index /\ Matched(p, m, skipped')
      /\ ~o.err => Current(p, m, base) \/ p \in skipped'
  OBVIOUS
<1>7. /\ todo' \in Seq(Paths)
      /\ pc' = "walk" => ~o.err /\ todo' = Tail(todo)
  <2>1. IF o.err THEN pc' = "sync" /\ todo' = <<>> ELSE todo' = Tail(todo) BY DEF Apply
  <2>2. <<>> \in Seq(Paths) OBVIOUS
  <2> QED BY <1>2, <2>1, <2>2
<1>8. WritesNext' BY DEF WritesNext
<1> HIDE DEF e, f, m
<1>9. pc' = "walk" => /\ \A q \in Pending : q = p \/ q \in Pending'
                      /\ Current(p, m, base) \/ p \in skipped'
  BY <1>2, <1>6, <1>7 DEF Pending
<1> QED BY <1>2, <1>3, <1>4, <1>5, <1>6, <1>7, <1>8, <1>9, MatchPathStep

(* Steps that leave the files alone.                                          *)
LEMMA MatchIndexStep ==
    ASSUME MatchInv, disk' = disk, base' \in Targets \cup {InitCommit},
           fi' \in [Paths -> Index], mi' \in [Paths -> Index],
           skipped' = skipped,
           \A p \in Paths : Matched(p, fi'[p], skipped) /\ Matched(p, mi'[p], skipped),
           sel' \in Seq(Paths), todo' \in Seq(Paths), WritesNext',
           pc' = "walk" => todo' = sel'
    PROVE  MatchInv'
<1>1. (\A q \in Paths : Matched(q, fi[q], skipped) /\ Matched(q, mi[q], skipped))'
  BY DEF Matched, Formed, Recorded
<1>2. (pc = "walk" => \A q \in Selected : \/ Current(q, mi[q], base)
                                         \/ q \in Pending \cup skipped)'
  BY DEF Selected, Pending
<1> QED BY <1>1, <1>2 DEF MatchInv

(* A bumped entry is one of the base commit.                                  *)
LEMMA BumpIs ==
    ASSUME NEW ie \in Index, NEW c \in Commits, NEW e, e = BumpBaseCommitId(ie, c)
    PROVE  /\ e \in Index /\ (e = None <=> ie = None)
           /\ e # None => /\ e \in Entry /\ e.commit = c /\ e.blob = ie.blob
                          /\ e.stage = ie.stage /\ e.x = ie.x
                          /\ (e.nofile <=> ie.nofile) /\ (e.hasCommit <=> ie.hasCommit)
<1>1. CASE ie = None BY <1>1 DEF BumpBaseCommitId, Index
<1>2. CASE ie # None
  <2>1. ie \in Entry /\ e = [ie EXCEPT !.commit = c] BY <1>2 DEF Index, BumpBaseCommitId
  <2>2. /\ e \in Entry /\ e.commit = c /\ e.blob = ie.blob /\ e.stage = ie.stage
        /\ e.x = ie.x /\ e.nofile = ie.nofile /\ e.hasCommit = ie.hasCommit
    BY <2>1 DEF Entry
  <2>3. e # None BY <2>2, FileConstants
  <2> QED BY <1>2, <2>2, <2>3 DEF Index
<1> QED BY <1>1, <1>2

(* Every step leaves entries that match their commits.                        *)
LEMMA MatchStepInv ==
    ASSUME MatchInv, [Next]_vars
    PROVE  MatchInv'
<1>0. /\ base \in Targets \cup {InitCommit} /\ disk \in [Paths -> OnDisk]
      /\ fi \in [Paths -> Index] /\ mi \in [Paths -> Index]
      /\ sel \in Seq(Paths) /\ todo \in Seq(Paths) /\ WritesNext
      /\ \A p \in Paths : Matched(p, fi[p], skipped) /\ Matched(p, mi[p], skipped)
      /\ pc = "walk" => \A p \in Selected : \/ Current(p, mi[p], base)
                                            \/ p \in Pending \cup skipped
      /\ base \in Commits
  BY UpdateConstants DEF MatchInv
<1>n. [p \in Paths |-> None] \in [Paths -> Index] BY DEF Index
<1>r. \A p \in Paths : Matched(p, None, skipped) BY DEF Matched, Formed, Recorded
<1>s. <<>> \in Seq(Paths) OBVIOUS
<1>2. ASSUME NEW c \in Targets, NEW s \in Seq(Paths), UpdateSetBase(c, s) PROVE MatchInv'
  <2>1. /\ base' = c /\ pc = "idle" /\ pc' = "open" /\ disk' = disk /\ fi' = fi /\ mi' = mi
        /\ inst' = inst /\ sel' = s /\ todo' = todo /\ skipped' = skipped
    BY <1>2 DEF UpdateSetBase, history
  <2>2. WritesNext' BY <1>0, <2>1 DEF WritesNext
  <2> QED BY <1>0, <2>1, <2>2, MatchIndexStep
<1>3. ASSUME UpdateOpen PROVE MatchInv'
  <2>1. /\ disk' = disk /\ base' = base /\ fi' = fi /\ inst' = inst /\ pc = "open" /\ sel' = sel
        /\ \/ mi' = fi /\ pc' = "walk" /\ todo' = sel
           \/ mi' = mi /\ pc' = "idle" /\ todo' = todo
        /\ skipped' = skipped
    BY <1>3 DEF UpdateOpen, history
  <2>2. WritesNext' BY <1>0, <2>1 DEF WritesNext
  <2> QED BY <1>0, <2>1, <2>2, MatchIndexStep
<1>4. ASSUME UpdatePath PROVE MatchInv'
  <2> DEFINE p == Head(todo)
  <2>1. /\ pc = "walk" /\ todo # <<>> /\ inst = None /\ inst' = None /\ base' = base /\ sel' = sel
        /\ skipped \subseteq skipped' /\ (p \notin skipped' => p \notin skipped /\ ~Skips(p))
    BY <1>4 DEF UpdatePath
  <2>2. p \in Paths BY <1>0, <2>1, TailIs
  <2>3. PICK o \in Outcomes(p) : Apply(p, o) BY <1>4 DEF UpdatePath
  <2>4. p = Head(todo) OBVIOUS
  <2> HIDE DEF p
  <2>5. o.f \in OnDisk /\ o.ie \in Index /\ Formed(o.ie)
    BY <2>2, OutcomesFormed
  <2>6. p \notin skipped' => Recorded(p, o.ie) /\ (~o.err => Current(p, o.ie, base))
    BY <2>1, <2>2, OutcomesRecorded
  <2>7. Matched(p, o.ie, skipped') BY <2>5, <2>6 DEF Matched
  <2> QED BY <2>1, <2>3, <2>4, <2>5, <2>6, <2>7, MatchApplyStep
<1>5. ASSUME InstallBegin PROVE MatchInv'
  <2> DEFINE p == Head(todo)
             f == [x |-> Tree[base][p].x, c |-> Truncated]
             e == Touched(fi[p])
             m == Touched(mi[p])
  <2>1. /\ pc = "walk" /\ pc' = pc /\ base' = base /\ sel' = sel /\ todo' = todo /\ todo # <<>>
        /\ inst' = p /\ Tree[base][p] # None /\ disk' = [disk EXCEPT ![p] = f]
        /\ fi' = [fi EXCEPT ![p] = e] /\ mi' = [mi EXCEPT ![p] = m] /\ skipped' = skipped
    BY <1>5 DEF InstallBegin, Installing, history
  <2>2. p \in Paths BY <1>0, <2>1, TailIs
  <2>3. f \in OnDisk
    <3>1. Truncated \in Content BY FileConstants DEF Truncated, Content
    <3>2. Tree[base][p].x \in BOOLEAN BY <1>0, <2>1, <2>2, TreeBlob, FileIs
    <3> QED BY <3>1, <3>2 DEF File, OnDisk
  <2>4. WritesNext' BY <2>1 DEF WritesNext
  <2> HIDE DEF p, f
  <2>5. /\ fi[p] \in Index /\ mi[p] \in Index /\ Matched(p, fi[p], skipped) /\ Matched(p, mi[p], skipped)
    BY <1>0, <2>2
  <2>6. e \in Index /\ Matched(p, e, skipped) BY <2>5, TouchedMatched
  <2>7. m \in Index /\ Matched(p, m, skipped) /\ (Current(p, mi[p], base) => Current(p, m, base))
    BY <2>5, TouchedMatched
  <2> HIDE DEF e, m
  <2>8. \A q \in Pending : q \in Pending' BY <2>1 DEF Pending
  <2> QED BY <1>0, <2>1, <2>2, <2>3, <2>4, <2>6, <2>7, <2>8, MatchPathStep
<1>6. ASSUME InstallEnd PROVE MatchInv'
  <2> DEFINE o == InstallBlob(mi[inst], None, Tree[base][inst], base)
  <2>1. /\ pc = "walk" /\ inst # None /\ Apply(inst, o) /\ inst' = None /\ base' = base /\ sel' = sel
        /\ skipped' = skipped
    BY <1>6 DEF InstallEnd, history
  <2>2. todo # <<>> /\ inst = Head(todo) /\ Tree[base][inst] # None
    BY <1>0, <2>1 DEF WritesNext
  <2>3. inst \in Paths BY <1>0, <2>2, TailIs
  <2>4. mi[inst] \in Index /\ Formed(mi[inst]) BY <1>0, <2>3 DEF Matched
  <2>5. /\ ~o.err /\ o.ie \in Entry /\ Recorded(inst, o.ie)
        /\ IsBrought(mi[inst], None, Tree[base][inst], base, o)
    BY <1>0, <2>2, <2>3, <2>4, InstallBlobIs
  <2> HIDE DEF o
  <2>6. /\ o.f \in OnDisk /\ o.ie \in Index /\ Current(inst, o.ie, base)
        /\ Matched(inst, o.ie, skipped')
    BY <2>2, <2>5 DEF IsBrought, OnDisk, Index, Current, Matched, Formed, Recorded
  <2> QED BY <2>1, <2>2, <2>6, MatchApplyStep
<1>7. ASSUME Cancel PROVE MatchInv'
  <2>1. /\ disk' = disk /\ base' = base /\ fi' = fi /\ mi' = mi /\ pc' = "sync"
        /\ inst' = None /\ sel' = sel /\ todo' = <<>> /\ skipped' = skipped
    BY <1>7 DEF Cancel, history
  <2>2. WritesNext' BY <2>1 DEF WritesNext
  <2> QED BY <1>0, <1>s, <2>1, <2>2, MatchIndexStep
<1>8. ASSUME BumpBase PROVE MatchInv'
  <2> DEFINE e(p) == IF p \in Selected THEN BumpBaseCommitId(mi[p], base) ELSE mi[p]
  <2>1. /\ pc = "walk" /\ todo = <<>> /\ disk' = disk /\ base' = base /\ fi' = fi /\ pc' = "sync"
        /\ inst' = inst /\ sel' = sel /\ todo' = todo /\ mi' = [p \in Paths |-> e(p)]
        /\ skipped' = skipped
    BY <1>8 DEF BumpBase, history
  <2>2. WritesNext' BY <1>0, <2>1 DEF WritesNext
  <2>3. ASSUME NEW p \in Paths PROVE e(p) \in Index /\ Matched(p, e(p), skipped)
    <3>1. CASE p \notin Selected BY <1>0, <3>1
    <3>2. CASE p \in Selected
      <4> DEFINE ie == mi[p]
                 i == BumpBaseCommitId(ie, base)
      <4>1. ie \in Index /\ Matched(p, ie, skipped) BY <1>0
      <4>2. Current(p, ie, base) \/ p \in skipped
        <5>1. Pending = {} BY <2>1 DEF Pending
        <5> QED BY <1>0, <2>1, <3>2, <5>1
      <4>3. e(p) = i BY <3>2
      <4> HIDE DEF ie, e
      <4>4. /\ i \in Index /\ (i = None <=> ie = None)
            /\ i # None => /\ i \in Entry /\ i.commit = base /\ i.blob = ie.blob
                           /\ i.stage = ie.stage
                           /\ (i.nofile <=> ie.nofile) /\ (i.hasCommit <=> ie.hasCommit)
        BY <1>0, <4>1, BumpIs
      <4> HIDE DEF i
      <4>5. Matched(p, i, skipped)
        BY <1>0, <4>1, <4>2, <4>4 DEF Matched, Formed, Recorded, Current
      <4> QED BY <4>3, <4>4, <4>5
    <3> QED BY <3>1, <3>2
  <2> HIDE DEF e
  <2>4. mi' \in [Paths -> Index] /\ \A p \in Paths : mi'[p] = e(p) BY <2>1, <2>3
  <2> QED BY <1>0, <2>1, <2>2, <2>3, <2>4, MatchIndexStep
<1>9. ASSUME SyncFileindex PROVE MatchInv'
  <2>1. /\ disk' = disk /\ base' = base /\ fi' = mi /\ mi' = [p \in Paths |-> None]
        /\ pc = "sync" /\ pc' = "idle" /\ inst' = inst /\ sel' = sel /\ todo' = todo
        /\ skipped' = skipped
    BY <1>9 DEF SyncFileindex, history
  <2>2. WritesNext' BY <1>0, <2>1 DEF WritesNext
  <2>3. \A p \in Paths : mi'[p] = None BY <2>1
  <2> QED BY <1>0, <1>n, <1>r, <2>1, <2>2, <2>3, MatchIndexStep
<1>10. ASSUME Crash PROVE MatchInv'
  <2>1. /\ disk' = disk /\ base' = base /\ fi' = fi /\ mi' = [p \in Paths |-> None]
        /\ pc' = "idle" /\ inst' = None /\ sel' = sel /\ todo' = <<>> /\ skipped' = skipped
    BY <1>10 DEF Crash
  <2>2. WritesNext' BY <2>1 DEF WritesNext
  <2>3. \A p \in Paths : mi'[p] = None BY <2>1
  <2> QED BY <1>0, <1>n, <1>r, <1>s, <2>1, <2>2, <2>3, MatchIndexStep
<1>11. ASSUME User PROVE MatchInv'
  <2> PICK p \in Paths :
        \/ \E r \in EditRegions, v \in EditVals : UserEdit(p, r, v)
        \/ UserChmod(p) \/ UserRemove(p) \/ UserObstruct(p)
        \/ \E v \in EditVals : UserCreate(p, v)
    BY <1>11 DEF User
  <2>0. disk[p] \in OnDisk BY <1>0
  <2>1. PICK f \in OnDisk : UserChange(p, f) BY <2>0, UserMakesFile
  <2> DEFINE e == Touched(fi[p])
             m == Touched(mi[p])
  <2>2. /\ disk' = [disk EXCEPT ![p] = f] /\ fi' = [fi EXCEPT ![p] = e]
        /\ mi' = [mi EXCEPT ![p] = m] /\ base' = base /\ pc' = pc /\ sel' = sel
        /\ todo' = todo /\ inst' = inst /\ skipped' = skipped
    BY <2>1 DEF UserChange
  <2>3. /\ fi[p] \in Index /\ mi[p] \in Index /\ Matched(p, fi[p], skipped) /\ Matched(p, mi[p], skipped)
    BY <1>0
  <2>4. e \in Index /\ Matched(p, e, skipped) BY <2>3, TouchedMatched
  <2>5. m \in Index /\ Matched(p, m, skipped) /\ (Current(p, mi[p], base) => Current(p, m, base))
    BY <2>3, TouchedMatched
  <2> HIDE DEF e, m
  <2>6. WritesNext' BY <1>0, <2>2 DEF WritesNext
  <2>7. \A q \in Pending : q \in Pending' BY <2>2 DEF Pending
  <2> QED BY <1>0, <2>2, <2>4, <2>5, <2>6, <2>7, MatchPathStep
<1>12. ASSUME UNCHANGED vars PROVE MatchInv'
  BY <1>12 DEF vars, MatchInv, WritesNext, Matched, Formed, Recorded, Current, Selected, Pending
<1>13. \A q \in Paths : <<q>> \in Seq(Paths) OBVIOUS
<1>14. PathSeq \in Seq(Paths) BY UpdateConstants
<1> QED BY <1>2, <1>3, <1>4, <1>5, <1>6, <1>7, <1>8, <1>9, <1>10, <1>11, <1>12, <1>13, <1>14
        DEF Next, Process

(* A complete checkout matches its commit.                                    *)
LEMMA MatchInitInv == Init => MatchInv
<1> SUFFICES ASSUME Init PROVE MatchInv
  OBVIOUS
<1>1. /\ disk = Tree[InitCommit] /\ InitCommit \in Commits /\ base = InitCommit
      /\ mi = [p \in Paths |-> None] /\ pc = "idle" /\ inst = None /\ sel = <<>> /\ todo = <<>>
  BY UpdateConstants DEF Init
<1>2. /\ disk \in [Paths -> OnDisk] /\ mi \in [Paths -> Index]
      /\ \A p \in Paths : mi[p] = None /\ (disk[p] # None => disk[p] \in File)
  BY <1>1, UpdateConstants DEF OnDisk, Index
<1> DEFINE e(p) == IF disk[p] = None THEN None
                   ELSE EntryUpdate(EmptyEntry, disk[p], disk[p].c, InitCommit, TRUE)
<1>3. fi = [p \in Paths |-> e(p)] BY DEF Init
<1>4. EmptyEntry \in Entry /\ EmptyEntry.stage = "-" BY DEF EmptyEntry, Entry
<1>5. ASSUME NEW p \in Paths PROVE e(p) \in Index /\ Recorded(p, e(p))
  <2>1. CASE disk[p] = None BY <2>1 DEF Index, Recorded
  <2>2. CASE disk[p] # None
    <3>1. \E ts \in BOOLEAN : e(p) = EntryUpdate(EmptyEntry, disk[p], disk[p].c, InitCommit, ts)
      BY <2>2, Zenon
    <3>2. PICK ts \in BOOLEAN : e(p) = EntryUpdate(EmptyEntry, disk[p], disk[p].c, InitCommit, ts)
      BY <3>1
    <3> DEFINE f == disk[p]
               i == EntryUpdate(EmptyEntry, f, Tree[InitCommit][p].c, InitCommit, ts)
    <3>3. e(p) = i /\ Tree[InitCommit][p] # None /\ f \in File BY <1>1, <1>2, <2>2, <3>2
    <3> HIDE DEF e, f
    <3>4. i \in Entry /\ Recorded(p, i) BY <1>1, <1>4, <3>3, EntryUpdateRecorded
    <3> HIDE DEF i
    <3> QED BY <3>3, <3>4 DEF Index
  <2> QED BY <2>1, <2>2
<1> HIDE DEF e
<1>6. fi \in [Paths -> Index] /\ \A p \in Paths : fi[p] = e(p) BY <1>3, <1>5
<1>7. \A p \in Paths : Matched(p, fi[p], skipped) /\ Matched(p, mi[p], skipped)
  BY <1>2, <1>5, <1>6 DEF Matched, Formed, Recorded
<1> QED BY <1>1, <1>2, <1>6, <1>7 DEF MatchInv, WritesNext

(* got-worktree.5: the commit id of an entry tells past incomplete updates.   *)
(* An entry has the blob of the commit it is recorded for, whatever paths and *)
(* commits are updated to, whatever the user does to files meanwhile, and     *)
(* wherever update fails, is interrupted or killed; only the entry of a file  *)
(* that an update once passed over may be bumped to a commit it was not       *)
(* brought to.                                                                *)
THEOREM UpdateIndexMatches == Spec => []IndexMatchesCommit
<1>1. MatchInv => IndexMatchesCommit BY DEF MatchInv, Matched, Recorded, IndexMatchesCommit
<1>2. MatchInv /\ [Next]_vars => MatchInv' BY MatchStepInv
<1> QED BY <1>1, <1>2, MatchInitInv, PTL DEF Spec
=============================================================================
