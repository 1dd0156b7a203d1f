------------------------------- MODULE TogLog -------------------------------
(***************************************************************************)
(* The log view of tog: the main thread, which draws commits and handles   *)
(* keys, and the log thread, which loads commits from the commit graph     *)
(* (tog/tog.c).  They share the queue of loaded commits, the counter of    *)
(* commits that are needed, tog_mutex and two condition variables.         *)
(*                                                                         *)
(* An entry of the queue is its position, 0 is NULL.  The main thread      *)
(* holds the mutex except while it waits for a key, for a commit or for    *)
(* the end of the log thread, so what it does in between is one step.      *)
(***************************************************************************)
EXTENDS Integers

CONSTANTS
    Totals,       \* numbers of commits the graph may have
    Sizes,        \* heights the view may have
    Patterns,     \* what a search may match, sets of commits
    KeySets,      \* the sets of keys the user may use
    MaxKeys,      \* bound on the number of keys pressed
    MaxNeeded,    \* bound on commits_needed while a search polls
    MayFail       \* may loading a commit fail?

LogKeys == {"up", "down", "ppage", "npage", "resize", "reload", "search",
         "n", "N", "q"}

ASSUME TogLogConstants ==
    /\ Totals \subseteq Nat /\ Sizes \subseteq Nat \ {0, 1}
    /\ \A k \in KeySets : k \subseteq LogKeys
    /\ MaxKeys \in Nat /\ MaxNeeded \in Nat /\ MayFail \in BOOLEAN

VARIABLES
    mutex,      \* who holds tog_mutex: "main", "log" or "free"
    main,       \* where the main thread is
    after,      \* what it goes on with after a wait
    log,        \* where the log thread is, "none" if there is none
    ending,     \* the log thread's `done'
    read,       \* the value of commits_needed it is about to decrement
    total, ncommits, needed, complete, quit,
    view,       \* nlines, first, last and selected entry, selected row
    search,     \* direction, done, regex, matched and search entry
    keys, pressed,
    seen        \* history: what has happened

logVars == <<mutex, main, after, log, ending, read, total, ncommits, needed,
          complete, quit, view, search, keys, pressed, seen>>
shared == <<total, keys>>

Smaller(a, b) == IF a < b THEN a ELSE b

(***************************************************************************)
(* The display                                                             *)
(***************************************************************************)
(* draw_commits: as many entries as fit below the header line.             *)
DrawCommits(v) ==
    [v EXCEPT !.last = IF v.first = 0 THEN 0
                       ELSE Smaller(ncommits, v.first + v.nlines - 2)]

(* select_commit: the entry in the selected row, if there is one.          *)
SelectCommit(v) ==
    [v EXCEPT !.entry = IF v.first # 0 /\ v.first + v.row <= ncommits
                        THEN v.first + v.row ELSE @]

LogScrollUp(v, max) ==
    [v EXCEPT !.first = IF @ > max THEN @ - max ELSE 1]

(* The loop of log_scroll_down.                                            *)
LogScrollDown(v, max) ==
    LET by == Smaller(max, ncommits - v.last)
    IN  [v EXCEPT !.last = @ + by, !.first = @ + by]

LastRow(v) == Smaller(v.nlines - 2, ncommits - 1)

(* Mutant: scrolling does not select the commit that comes into the row.   *)
LogUpUnselected(v) ==
    IF v.row > 0 THEN SelectCommit([v EXCEPT !.row = @ - 1])
    ELSE LogScrollUp(v, 1)

LogUp(v) ==
    SelectCommit(IF v.row > 0 THEN [v EXCEPT !.row = @ - 1]
                 ELSE LogScrollUp(v, 1))

(* Down, where the entries to scroll to have been loaded.                  *)
LogDown(v) ==
    SelectCommit(IF v.row < LastRow(v) THEN [v EXCEPT !.row = @ + 1]
                 ELSE LogScrollDown(v, 1))

LogPageUp(v) ==
    SelectCommit(IF v.first = 1 THEN [v EXCEPT !.row = 0]
                 ELSE LogScrollUp(v, v.nlines - 1))

LogPageDown(v) ==
    LET s == LogScrollDown(v, v.nlines - 1)
    IN  SelectCommit(IF s.first = v.first /\ s.row < LastRow(s)
                     THEN [s EXCEPT !.row = LastRow(s)] ELSE s)

(* The selection moves to entry m, a row at a time.                        *)
MoveTo(v, m) ==
    LET d[i \in 0..(m + v.entry)] ==
            IF i = 0 THEN v
            ELSE IF v.entry < m THEN LogDown(d[i - 1]) ELSE LogUp(d[i - 1])
    IN  d[IF v.entry < m THEN m - v.entry ELSE v.entry - m]

(***************************************************************************)
(* The main thread                                                         *)
(***************************************************************************)
Searching == search.dir # "none" /\ search.done = "no"

SignalLogThread == log' = IF log = "wait" THEN "woken" ELSE log

(* show_log_view: starts the log thread if there is none, and waits until  *)
(* it has filled the screen.                                               *)
ShowLog ==
    /\ main = "show"
    /\ IF log = "none"
       THEN /\ log' = "queue" /\ ending' = FALSE
            /\ main' = "trigger" /\ after' = "draw"
            /\ UNCHANGED <<mutex, view>>
       ELSE /\ view' = DrawCommits(view)
            /\ main' = "getch" /\ mutex' = "free"
            /\ UNCHANGED <<log, ending, after>>
    /\ UNCHANGED <<read, ncommits, needed, complete, quit, search, pressed,
                   seen, shared>>

(* The loop of trigger_log_thread: wake the log thread, wait for a commit. *)
Trigger ==
    /\ main = "trigger" /\ mutex = "main"
    /\ needed > 0 /\ ~complete
    /\ SignalLogThread
    /\ view' = DrawCommits(view)
    /\ main' = "wait" /\ mutex' = "free"
    /\ seen' = seen \cup (IF log \in {"complete", "exited"} THEN {"late wait"}
                          ELSE {})
    /\ UNCHANGED <<after, ending, read, ncommits, needed, complete, quit,
                   search, pressed, shared>>

CommitLoaded ==
    /\ main = "woken" /\ mutex = "free"
    /\ mutex' = "main" /\ main' = "trigger"
    /\ view' = DrawCommits(view)
    /\ UNCHANGED <<after, log, ending, read, ncommits, needed, complete, quit,
                   search, pressed, seen, shared>>

(* No more commits are needed, or there are none: on with what waited.     *)
Triggered ==
    /\ main = "trigger" /\ mutex = "main"
    /\ needed = 0 \/ complete
    /\ view' = CASE after = "down" -> SelectCommit(LogScrollDown(view, 1))
                 [] after = "npage" -> LogPageDown(view)
                 [] OTHER -> view
    /\ main' = "show"
    /\ UNCHANGED <<mutex, after, log, ending, read, ncommits, needed, complete,
                   quit, search, pressed, seen, shared>>

(* log_scroll_down asks for commits below the last one displayed.          *)
AskAndScroll(max, then, scrolled) ==
    IF view.last > 0 /\ ncommits < view.last + max /\ ~complete
    THEN /\ needed' = needed + max
         /\ main' = "trigger" /\ after' = then
         /\ UNCHANGED view
    ELSE /\ view' = IF view.last = 0 THEN SelectCommit(view) ELSE scrolled
         /\ main' = "show"
         /\ UNCHANGED <<needed, after>>

(* The view loop takes a key and hands it to input_log_view.               *)
LogKey(k) ==
    /\ main = "getch" /\ mutex = "free" /\ ~Searching
    /\ k \in keys /\ pressed < MaxKeys
    /\ pressed' = pressed + 1
    /\ mutex' = "main"

Settled == IF search.done \in {"none", "no more"}
           THEN [search EXCEPT !.done = "more"] ELSE search

(* Keys that move the selection up.                                        *)
KeyUp(k, moved) ==
    /\ LogKey(k)
    /\ view' = IF view.first = 0 THEN view ELSE moved
    /\ main' = "show" /\ search' = Settled
    /\ UNCHANGED <<after, log, ending, read, ncommits, needed, complete, quit,
                   seen, shared>>

(* Keys that move it down.                                                 *)
KeyDown(k) ==
    /\ LogKey(k)
    /\ search' = Settled
    /\ IF view.first = 0
       THEN main' = "show" /\ UNCHANGED <<view, needed, after>>
       ELSE IF k = "npage"
       THEN AskAndScroll(view.nlines - 1, "npage", LogPageDown(view))
       ELSE IF view.row < LastRow(view)
       THEN /\ view' = LogDown(view) /\ main' = "show"
            /\ UNCHANGED <<needed, after>>
       ELSE AskAndScroll(1, "down", LogDown(view))
    /\ UNCHANGED <<log, ending, read, ncommits, complete, quit, seen, shared>>

(* SIGWINCH: the selected row must fit.                                    *)
KeyResize(size) ==
    /\ LogKey("resize")
    /\ size # view.nlines
    /\ LET fit == Smaller(Smaller(view.row, size - 2), ncommits - 1)
       IN  view' = SelectCommit([view EXCEPT !.nlines = size, !.row = fit])
    /\ IF ncommits < size - 1 /\ ~complete
       THEN /\ needed' = needed + (size - 1) - ncommits
            /\ main' = "trigger" /\ after' = "draw"
       ELSE main' = "show" /\ UNCHANGED <<needed, after>>
    /\ search' = Settled
    /\ seen' = seen \cup (IF size > view.nlines THEN {"grown"} ELSE {})
    /\ UNCHANGED <<log, ending, read, ncommits, complete, quit, shared>>

(* Quit and reload (^L, B, Backspace) stop the log thread first.           *)
KeyStop(k) ==
    /\ LogKey(k)
    /\ quit' = TRUE
    /\ SignalLogThread
    /\ main' = "join" /\ after' = k
    /\ UNCHANGED <<ending, read, ncommits, needed, complete, view, search,
                   seen, shared>>

(* stop_log_thread releases the mutex and joins the log thread.            *)
Join ==
    /\ main = "join" /\ mutex = "main"
    /\ main' = "joining" /\ mutex' = "free"
    /\ UNCHANGED <<after, log, ending, read, ncommits, needed, complete, quit,
                   view, search, pressed, seen, shared>>

(* After the join the view is closed, or starts again with an empty queue. *)
Joined ==
    /\ main = "joining" /\ mutex = "free" /\ log \in {"none", "exited"}
    /\ log' = "none"
    /\ IF after = "q" \/ "error" \in seen
       THEN /\ main' = "closed"
            /\ UNCHANGED <<mutex, ncommits, needed, complete, quit, view, seen>>
       ELSE /\ mutex' = "main" /\ main' = "show"
            /\ ncommits' = 0 /\ needed' = view.nlines
            /\ complete' = FALSE /\ quit' = FALSE
            /\ view' = [view EXCEPT !.first = 0, !.last = 0, !.entry = 0,
                                    !.row = 0]
            /\ seen' = seen \cup (IF search.matched + search.entry > 0
                                  THEN {"dangling"} ELSE {})
    /\ UNCHANGED <<after, ending, read, search, pressed, shared>>

(* view_search_start and the search keys.  n and N follow the pointers to  *)
(* the last match, which a reload leaves dangling: what they do then is    *)
(* undefined and left out.                                                 *)
KeySearch(k, pattern) ==
    /\ LogKey(k)
    /\ search' = IF k = "search"
                 THEN [dir |-> "forward", done |-> "no", regex |-> pattern,
                       matched |-> 0, entry |-> 0]
                 ELSE [search EXCEPT
                         !.dir = IF k = "n" THEN "forward" ELSE "backward",
                         !.done = "no"]
    /\ k # "search" => /\ search.dir # "none" /\ pattern = search.regex
                       /\ "dangling" \notin seen
    /\ seen' = seen \ {"dangling"}
    /\ main' = "search"
    /\ UNCHANGED <<after, log, ending, read, ncommits, needed, complete, quit,
                   view, shared>>

(* Backspace while a search that had to stop is about to go on.            *)
SearchCancel ==
    /\ main = "search" /\ search.entry # 0
    /\ search' = [search EXCEPT !.done = "more"]
    /\ main' = "show"
    /\ UNCHANGED <<mutex, after, log, ending, read, ncommits, needed, complete,
                   quit, view, pressed, seen, shared>>

(* A search that is not done gets a turn each time around the view loop.   *)
SearchAgain ==
    /\ main = "getch" /\ mutex = "free" /\ Searching
    /\ mutex' = "main" /\ main' = "search"
    /\ UNCHANGED <<after, log, ending, read, ncommits, needed, complete, quit,
                   view, search, pressed, seen, shared>>

(* search_next_log_view: entries the search looks at, starting next to the *)
(* one it stopped at, to the last match, or at an end of the queue.        *)
Candidates ==
    LET at == IF search.entry > 0 THEN search.entry ELSE search.matched
    IN  IF search.dir = "forward"
        THEN {e \in 1..ncommits : e > at}
        ELSE {e \in 1..ncommits : at = 0 \/ e < at}

SearchHits == Candidates \cap search.regex

Nearest(es) ==
    CHOOSE e \in es : \A o \in es :
        IF search.dir = "forward" THEN e <= o ELSE e >= o

SearchNext ==
    /\ main = "search"
    /\ main' = "show"
    /\ IF SearchHits # {}
       THEN LET m == Nearest(SearchHits)
            IN  /\ search' = [search EXCEPT !.done = "more", !.matched = m,
                                            !.entry = 0]
                /\ view' = MoveTo(DrawCommits(view), m)
                /\ UNCHANGED <<needed, log>>
       ELSE IF complete \/ search.dir = "backward"
       THEN /\ search' = [search EXCEPT
                            !.done = IF search.matched = 0 THEN "none"
                                     ELSE "no more",
                            !.entry = 0]
            /\ UNCHANGED <<needed, log, view>>
       ELSE /\ search' = [search EXCEPT
                            !.entry = IF Candidates = {} THEN @ ELSE ncommits]
            /\ needed' = IF needed < MaxNeeded THEN needed + 1 ELSE needed
            /\ SignalLogThread
            /\ UNCHANGED view
    /\ UNCHANGED <<mutex, after, ending, read, ncommits, complete, quit,
                   pressed, seen, shared>>

(***************************************************************************)
(* The log thread                                                          *)
(***************************************************************************)
(* queue_commits reads the next commit without the mutex.                  *)
ReadCommit ==
    /\ log = "queue"
    /\ \/ /\ ncommits < total
          /\ log' = "insert" /\ UNCHANGED <<ending, seen>>
       \/ /\ ncommits = total
          /\ ending' = TRUE /\ log' = "lock" /\ UNCHANGED seen
       \/ /\ MayFail
          /\ log' = "exited" /\ seen' = seen \cup {"error"}
          /\ UNCHANGED ending
    /\ UNCHANGED <<mutex, main, after, read, ncommits, needed, complete, quit,
                   view, search, pressed, shared>>

InsertCommit ==
    /\ log = "insert" /\ mutex = "free"
    /\ ncommits' = ncommits + 1
    /\ search' = IF search.dir = "forward" /\ search.done = "no"
                    /\ ncommits' \in search.regex
                 THEN [search EXCEPT !.done = "more"] ELSE search
    /\ log' = "again"
    /\ UNCHANGED <<mutex, main, after, ending, read, needed, complete, quit,
                   view, pressed, seen, shared>>

(* A forward search makes it go on; otherwise one commit less is needed.   *)
CommitQueued ==
    /\ log = "again"
    /\ IF search.dir = "forward" /\ search.done = "no"
       THEN log' = "queue" /\ UNCHANGED read
       ELSE IF needed > 0
       THEN log' = "decrement" /\ read' = needed
       ELSE log' = "lock" /\ UNCHANGED read
    /\ UNCHANGED <<mutex, main, after, ending, ncommits, needed, complete,
                   quit, view, search, pressed, seen, shared>>

Decrement ==
    /\ log = "decrement"
    /\ needed' = read - 1 /\ log' = "lock"
    /\ UNCHANGED <<mutex, main, after, ending, read, ncommits, complete, quit,
                   view, search, pressed, seen, shared>>

(* Mutant: commit_loaded is not signalled at the end of the log.           *)
ReportUnlessDone ==
    /\ log = "lock" /\ mutex = "free"
    /\ ending' = (ending \/ quit)
    /\ view' = IF ~quit /\ view.first = 0
               THEN [view EXCEPT !.first = IF ncommits > 0 THEN 1 ELSE 0,
                                 !.entry = IF ncommits > 0 THEN 1 ELSE 0]
               ELSE view
    /\ main' = IF main = "wait" /\ ~ending' THEN "woken" ELSE main
    /\ needed' = IF ending' THEN 0 ELSE needed
    /\ log' = IF ending' THEN "complete"
              ELSE IF needed = 0 THEN "wait" ELSE "queue"
    /\ UNCHANGED <<mutex, after, read, ncommits, complete, quit, search,
                   pressed, seen, shared>>

(* The rest of log_thread's loop, with the mutex.                          *)
Report ==
    /\ log = "lock" /\ mutex = "free"
    /\ ending' = (ending \/ quit)
    /\ view' = IF ~quit /\ view.first = 0
               THEN [view EXCEPT !.first = IF ncommits > 0 THEN 1 ELSE 0,
                                 !.entry = IF ncommits > 0 THEN 1 ELSE 0]
               ELSE view
    /\ main' = IF main = "wait" THEN "woken" ELSE main
    /\ needed' = IF ending' THEN 0 ELSE needed
    /\ log' = IF ending' THEN "complete"
              ELSE IF needed = 0 THEN "wait" ELSE "queue"
    /\ UNCHANGED <<mutex, after, read, ncommits, complete, quit, search,
                   pressed, seen, shared>>

Woken ==
    /\ log = "woken" /\ mutex = "free"
    /\ log' = IF quit THEN "complete" ELSE "queue"
    /\ ending' = (ending \/ quit)
    /\ UNCHANGED <<mutex, main, after, read, ncommits, needed, complete, quit,
                   view, search, pressed, seen, shared>>

(* log_complete is set after the mutex has been released.                  *)
LogComplete ==
    /\ log = "complete"
    /\ complete' = TRUE /\ log' = "exited"
    /\ UNCHANGED <<mutex, main, after, ending, read, ncommits, needed, quit,
                   view, search, pressed, seen, shared>>

(***************************************************************************)
(* Specification                                                           *)
(***************************************************************************)
(* open_log_view.                                                          *)
LogInit ==
    /\ total \in Totals
    /\ \E size \in Sizes :
          /\ view = [nlines |-> size, first |-> 0, last |-> 0, entry |-> 0,
                     row |-> 0]
          /\ needed = size
    /\ keys \in KeySets
    /\ mutex = "main" /\ main = "show" /\ after = "draw"
    /\ log = "none" /\ ending = FALSE /\ read = 0
    /\ ncommits = 0 /\ complete = FALSE /\ quit = FALSE
    /\ search = [dir |-> "none", done |-> "no", regex |-> {}, matched |-> 0,
                 entry |-> 0]
    /\ pressed = 0 /\ seen = {}

MainThread ==
    ShowLog \/ Trigger \/ CommitLoaded \/ Triggered \/ Join \/ Joined
    \/ SearchAgain \/ SearchNext

LogThread ==
    ReadCommit \/ InsertCommit \/ CommitQueued \/ Decrement \/ Report
    \/ Woken \/ LogComplete

LogUser ==
    \/ KeyUp("up", LogUp(view))
    \/ KeyUp("ppage", LogPageUp(view))
    \/ \E k \in {"down", "npage"} : KeyDown(k)
    \/ \E size \in Sizes : KeyResize(size)
    \/ \E k \in {"q", "reload"} : KeyStop(k)
    \/ SearchCancel
    \/ \E k \in {"search", "n", "N"} : \E p \in Patterns : KeySearch(k, p)

LogNext == MainThread \/ LogThread \/ LogUser

(* Both threads run when they can; a mutex is granted eventually.          *)
LogFairness == SF_logVars(MainThread) /\ SF_logVars(LogThread)

(* No view is open.                                                        *)
LogIdle ==
    /\ total = 0 /\ keys = {} /\ mutex = "free" /\ main = "closed"
    /\ after = "q" /\ log = "none" /\ ending = FALSE /\ read = 0
    /\ ncommits = 0 /\ needed = 0 /\ complete = FALSE /\ quit = FALSE
    /\ view = [nlines |-> 0, first |-> 0, last |-> 0, entry |-> 0, row |-> 0]
    /\ search = [dir |-> "none", done |-> "no", regex |-> {}, matched |-> 0,
                 entry |-> 0]
    /\ pressed = 0 /\ seen = {}

(***************************************************************************)
(* Properties                                                              *)
(***************************************************************************)
(* When the user is asked for a key the selected commit is the one in the  *)
(* highlighted row: what Enter and t open is what is highlighted, although *)
(* commits arrive and searches move the selection in between.  (A window   *)
(* that has grown may show fewer commits than its selected row.)           *)
SelectedCommitIsHighlighted ==
    main = "getch" /\ view.first # 0 /\ "grown" \notin seen =>
        /\ view.entry = view.first + view.row
        /\ view.row \in 0 .. view.nlines - 2
=============================================================================
