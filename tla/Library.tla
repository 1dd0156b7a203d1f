------------------------------ MODULE Library -------------------------------
(***************************************************************************)
(* The parts of lib/ and libexec/ below the commands, one at a time: a     *)
(* download (Fetch), its index (IndexPack), reading (Objects) and writing  *)
(* objects (ObjectCreate), the traversal of history with got_blame on top  *)
(* of it (CommitGraph, Blame), and the walks of the file index             *)
(* (FileindexWalk).  The first four meet in the object store, of which     *)
(* Fetch and ObjectCreate are shown to be implementations and which        *)
(* Objects reads.                                                          *)
(***************************************************************************)
EXTENDS Fetch, IndexPack, Objects, ObjectCreate, Blame, FileindexWalk

VARIABLE part  \* the part that runs

vars == <<part, fetchVars, indexVars, objectsVars, createVars, graphVars, walkVars>>

Init ==
    \/ /\ part = "fetch"
       /\ FetchInit /\ IndexIdle /\ ObjectsIdle /\ CreateIdle /\ GraphIdle /\ WalkIdle
    \/ /\ part = "index"
       /\ FetchIdle /\ IndexInit /\ ObjectsIdle /\ CreateIdle /\ GraphIdle /\ WalkIdle
    \/ /\ part = "objects"
       /\ FetchIdle /\ IndexIdle /\ ObjectsInit /\ CreateIdle /\ GraphIdle /\ WalkIdle
    \/ /\ part = "create"
       /\ FetchIdle /\ IndexIdle /\ ObjectsIdle /\ CreateInit /\ GraphIdle /\ WalkIdle
    \/ /\ part = "graph"
       /\ FetchIdle /\ IndexIdle /\ ObjectsIdle /\ CreateIdle /\ GraphInit /\ WalkIdle
    \/ /\ part = "walk"
       /\ FetchIdle /\ IndexIdle /\ ObjectsIdle /\ CreateIdle /\ GraphIdle /\ WalkInit

Next ==
    \/ /\ part = "fetch"
       /\ FetchNext
       /\ UNCHANGED <<part, indexVars, objectsVars, createVars, graphVars, walkVars>>
    \/ /\ part = "index"
       /\ IndexNext
       /\ UNCHANGED <<part, fetchVars, objectsVars, createVars, graphVars, walkVars>>
    \/ /\ part = "objects"
       /\ ObjectsNext
       /\ UNCHANGED <<part, fetchVars, indexVars, createVars, graphVars, walkVars>>
    \/ /\ part = "create"
       /\ CreateNext
       /\ UNCHANGED <<part, fetchVars, indexVars, objectsVars, graphVars, walkVars>>
    \/ /\ part = "graph"
       /\ GraphNext
       /\ UNCHANGED <<part, fetchVars, indexVars, objectsVars, createVars, walkVars>>
    \/ /\ part = "walk"
       /\ WalkNext
       /\ UNCHANGED <<part, fetchVars, indexVars, objectsVars, createVars, graphVars>>

Spec == Init /\ [][Next]_vars
=============================================================================
