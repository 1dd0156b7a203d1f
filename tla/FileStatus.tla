----------------------------- MODULE FileStatus -----------------------------
(***************************************************************************)
(* One path of a work tree: the file on disk, its entry in the file index, *)
(* its entry in a repository tree, and the functions of lib/worktree.c     *)
(* that relate the three.  There is no state here; the modules about work  *)
(* tree operations apply these operators to their paths.                   *)
(*                                                                         *)
(* A content is a function from regions of the text to sets of values: one *)
(* value where the text is plain, several where conflict markers enclose   *)
(* alternatives.  Blobs are content-addressed, so a content is also its    *)
(* blob id.  Only regular files (and directories in their way) are         *)
(* modelled, not symbolic links.                                           *)
(***************************************************************************)

CONSTANTS
    Regions,  \* parts of a file that change and merge independently
    Vals,     \* what a region can hold
    Commits,  \* ids of commits
    None,     \* no file, no entry, no blob, no id
    Dir,      \* a directory (or another non-regular file) on disk
    Cut       \* the value of a region whose text was not written out

Content == [Regions -> (SUBSET Vals) \ {{}}]
File == [x : BOOLEAN, c : Content]     \* also an entry of a tree
Truncated == [r \in Regions |-> {Cut}]

(* struct got_fileindex_entry.  `fresh' says that the recorded time stamps  *)
(* and size are those of the file on disk; commit keeps its bytes when     *)
(* GOT_FILEIDX_F_NO_COMMIT (~hasCommit) is set; nofile is                   *)
(* GOT_FILEIDX_F_NO_FILE_ON_DISK; blob is None under GOT_FILEIDX_F_NO_BLOB. *)
Entry == [blob : Content \cup {None}, commit : Commits \cup {None},
          hasCommit : BOOLEAN, nofile : BOOLEAN,
          stage : {"-", "A", "M", "D"}, sblob : Content \cup {None},
          x : BOOLEAN, fresh : BOOLEAN]

NoChange == " "  \* GOT_STATUS_NO_CHANGE
Status == {NoChange, "M", "A", "D", "C", "!", "m", "~", "?"}

ASSUME FileConstants ==
    /\ Cut \in Vals
    /\ None \notin Commits /\ None \notin Content /\ None \notin File /\ None \notin Entry
    /\ None # Dir /\ Dir \notin File

-----------------------------------------------------------------------------
\* get_modified_file_content_status: does the text have conflict markers?
HasMarkers(c) == \E r \in Regions : \E v, w \in c[r] : v # w

\* Mutant of MergeFile: a conflict leaves the incoming side.
MergeFileTheirs(orig, ours, theirs) ==
    [r \in Regions |->
        IF orig # None /\ theirs[r] = orig[r] THEN ours[r] ELSE theirs[r]]

\* merge_file: got_merge_diff3 of the common ancestor, the file on disk and
\* the incoming version.  "If the file has no blob, this is an add vs add
\* conflict" and both appear in the result in their entirety.
MergeFile(orig, ours, theirs) ==
    [r \in Regions |->
        CASE ours[r] = theirs[r] -> ours[r]
          [] orig # None /\ ours[r] # theirs[r] /\ ours[r] = orig[r] -> theirs[r]
          [] orig # None /\ ours[r] # theirs[r] /\ theirs[r] = orig[r] -> ours[r]
          [] OTHER -> ours[r] \cup theirs[r]]

XbitDiffers(ie, f) == ie.x # f.x

StatInfoDiffers(ie, f) == ~ie.fresh \/ XbitDiffers(ie, f)

\* The blob that holds the version a file is compared with.
ComparedBlob(ie) == IF ie.stage \in {"A", "M"} THEN ie.sblob ELSE ie.blob

\* get_file_status
GetFileStatus(ie, f) ==
    CASE f = None -> IF ie.nofile THEN "D" ELSE "!"
      [] f = Dir -> "~"
      [] f \notin {None, Dir} /\ ie.nofile -> "D"
      [] f \notin {None, Dir} /\ ~ie.nofile /\ ie.blob = None /\ ie.stage # "A"
            -> "A"
      [] OTHER ->
            IF ~StatInfoDiffers(ie, f) THEN NoChange
            ELSE IF f.c # ComparedBlob(ie)
                 THEN IF HasMarkers(f.c) THEN "C" ELSE "M"
                 ELSE IF XbitDiffers(ie, f) THEN "m" ELSE NoChange

\* got_fileindex_entry_update fails on a directory, and on a missing file
\* unless the entry says that there is none.
EntryUpdateFails(ie, f) == f = Dir \/ (f = None /\ ~ie.nofile)

\* got_fileindex_entry_update; ts is its update_timestamps argument.  A file
\* found on disk clears GOT_FILEIDX_F_NO_FILE_ON_DISK.
EntryUpdate(ie, f, blob, commit, ts) ==
    [ie EXCEPT !.nofile = @ /\ f = None,
               !.fresh = IF f = None THEN @ ELSE @ \/ ts,
               !.x = IF f = None THEN @ ELSE f.x,
               !.blob = blob,
               !.commit = IF commit = None THEN @ ELSE commit,
               !.hasCommit = commit # None]

\* got_fileindex_entry_alloc
EmptyEntry == [blob |-> None, commit |-> None, hasCommit |-> FALSE,
               nofile |-> FALSE, stage |-> "-", sblob |-> None,
               x |-> FALSE, fresh |-> FALSE]

\* What writing the file does to its entry: the recorded time stamps are old.
Touched(ie) == IF ie = None THEN None ELSE [ie EXCEPT !.fresh = FALSE]

\* sync_timestamps
SyncTimestamps(ie, f) ==
    IF GetFileStatus(ie, f) = NoChange /\ StatInfoDiffers(ie, f)
    THEN EntryUpdate(ie, f, ie.blob, ie.commit, TRUE)
    ELSE ie

-----------------------------------------------------------------------------
(* What update_blob and delete_blob do: the outcome is the file and the    *)
(* entry they leave behind, or an error.                                   *)

Done(f, ie) == [err |-> FALSE, f |-> f, ie |-> ie]
Fail(f, ie) == [err |-> TRUE, f |-> f, ie |-> ie]

UpdateStatus(ie, f) == IF ie = None THEN "?" ELSE GetFileStatus(ie, f)

\* The executable bit update_blob compares with the tree's: that of the file,
\* or the recorded one if the file is missing or scheduled for deletion.
UpdateXbit(ie, f) == IF GetFileStatus(ie, f) \in {"!", "D"} THEN ie.x ELSE f.x

\* Mutant of UpToDate: any recorded commit counts.
UpToDateAnyCommit(ie, f, te, base) ==
    /\ ie # None /\ UpdateStatus(ie, f) # "!" /\ te.x = UpdateXbit(ie, f)
    /\ ie.hasCommit \/ (ie.blob # None /\ ie.blob = te.c)

\* "E": the entry is already at the base commit, or has the incoming blob.
UpToDate(ie, f, te, base) ==
    /\ ie # None /\ UpdateStatus(ie, f) # "!" /\ te.x = UpdateXbit(ie, f)
    /\ \/ ie.hasCommit /\ ie.commit = base
       \/ ie.blob # None /\ ie.blob = te.c

\* The cases in which install_blob creates the file, and writes it in place.
InstallsNewFile(ie, f) == f = None /\ UpdateStatus(ie, f) \in {"!", "?"}

\* Mutant of MergeBlob: time stamps are always recorded.
MergeBlobStamped(ie, f, te, base) ==
    LET f2 == [f EXCEPT !.c = MergeFile(ie.blob, f.c, te.c)]
    IN  Done(f2, EntryUpdate(Touched(ie), f2, te.c, base, TRUE))

\* merge_blob, then the entry: time stamps are recorded only if the clean
\* merge has subsumed all local changes.
MergeBlob(ie, f, te, base) ==
    LET merged == MergeFile(ie.blob, f.c, te.c)
        subsumed == ~HasMarkers(merged) /\ merged = te.c
        f2 == [f EXCEPT !.c = merged]
    IN  Done(f2, EntryUpdate(Touched(ie), f2, te.c, base, subsumed))

\* install_blob, then got_fileindex_entry_update or create_fileindex_entry.
\* An unversioned file in the way is left alone, yet gets an entry.
InstallBlob(ie, f, te, base) ==
    LET f2 == IF ie = None /\ f # None THEN f ELSE te
        ie1 == IF ie = None THEN EmptyEntry ELSE Touched(ie)
    IN  IF EntryUpdateFails(ie1, f2) THEN Fail(f2, ie)
        ELSE Done(f2, EntryUpdate(ie1, f2, te.c, base, TRUE))

UpdateBlob(ie, f, te, base) ==
    LET st == UpdateStatus(ie, f) IN
    CASE ie # None /\ ie.stage # "-" -> Fail(f, ie)
      [] (ie = None \/ ie.stage = "-") /\ st \in {"~", "C"} -> Done(f, ie)
      [] OTHER ->
            IF UpToDate(ie, f, te, base) THEN Done(f, SyncTimestamps(ie, f))
            ELSE CASE st \in {"M", "A"} -> MergeBlob(ie, f, te, base)
                   [] st \in {"m", "D"} ->
                        IF EntryUpdateFails(ie, f) THEN Fail(f, ie)
                        ELSE Done(f, EntryUpdate(ie, f, te.c, base, FALSE))
                   [] OTHER -> InstallBlob(ie, f, te, base)

\* delete_blob.  For a file that is not there it tests the file type in a
\* struct stat that was never filled in; seen as a symbolic link, the file
\* fails to be read.
DeleteBlob(ie, f) ==
    LET st == GetFileStatus(ie, f) IN
    IF ie.stage # "-" THEN {Fail(f, ie)}
    ELSE IF st \in {"M", "C", "A"}
         THEN {Done(f, EntryUpdate(ie, f, None, None, FALSE))}
         ELSE {Done(IF st = NoChange THEN None ELSE f, None)}
              \cup (IF f = None THEN {Fail(f, ie)} ELSE {})

\* bump_base_commit_id
BumpBaseCommitId(ie, base) ==
    IF ie = None THEN None ELSE [ie EXCEPT !.commit = base]
=============================================================================
