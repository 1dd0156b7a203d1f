-------------------------------- MODULE Tog ---------------------------------
(***************************************************************************)
(* tog (tog/tog.c): the log view with its thread, the positions in the     *)
(* other views, and the tree of views, one of them at a time.  They meet   *)
(* in the keys alone: which view gets one is TogViews, what it does there  *)
(* is TogLog and TogList.                                                  *)
(***************************************************************************)
EXTENDS TogLog, TogViews, TogList

Init ==
    \/ LogInit /\ ViewsIdle /\ ListIdle
    \/ LogIdle /\ ViewsInit /\ ListIdle
    \/ LogIdle /\ ViewsIdle /\ ListInit

Next ==
    \/ LogNext /\ UNCHANGED <<viewVars, listVars>>
    \/ ViewsNext /\ UNCHANGED <<logVars, listVars>>
    \/ ListNext /\ UNCHANGED <<logVars, viewVars>>

vars == <<logVars, viewVars, listVars>>

(* The threads run when they can; a mutex is granted eventually.           *)
Spec == Init /\ [][Next]_vars /\ LogFairness /\ ListFairness

(* The main thread gets back to the user: its waits for commits and for    *)
(* the end of the log or blame thread end, and so does every search in the *)
(* log view.  (A wait that begins after the log thread's last signal and   *)
(* before it sets log_complete does not end.)                              *)
MainReturns ==
    /\ []<>(\/ main = "closed" \/ (main = "getch" /\ ~Searching)
            \/ "late wait" \in seen)
    /\ loop \in {"join", "back"} ~> loop = "key"
=============================================================================
