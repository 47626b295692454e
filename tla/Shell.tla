------------------------------- MODULE Shell -------------------------------
(***************************************************************************)
(* prom's shell (shell/shell.c, shell/terminal.c, shell/pty.c): it starts  *)
(* bash on a pseudo-terminal and runs one loop that traces it, follows the *)
(* size of the real terminal, draws its output and passes keys on. SIGWINCH*)
(* arrives between any two steps, the child runs beside the loop, and each *)
(* of its system calls stops until tracer_loop resumes it (see Tracer).    *)
(* A size is its number of rows; output is counted in chunks of a read.    *)
(***************************************************************************)
EXTENDS Integers

CONSTANTS
  Rows,        \* heights of the real terminal
  PtyCap,      \* chunks that the pty holds for the master
  MaxResizes, MaxWrites, MaxKeys  \* bounds on what the user and bash do

ASSUME ShellAssumption ==
  /\ Rows \subseteq Nat \ {0} /\ PtyCap \in Nat \ {0}
  /\ MaxResizes \in Nat /\ MaxWrites \in Nat /\ MaxKeys \in Nat

VARIABLES
  term,     \* rows of the real terminal
  resizes,  \* how often they have changed
  winch,    \* SIGWINCH is pending
  handler,  \* "set", "once" (SA_RESETHAND) or "default"
  got,      \* globe.got_sigwinch
  wsize,    \* globe.wsize.ws_row, of the master
  copy,     \* the child's copy of it
  vrows,    \* rows of the vterm
  prows,    \* rows of the pty
  late,     \* history: what has spoilt the size since it was last read
  pc,       \* where the master stands
  curses,   \* the terminal is in ncurses' hands
  events,   \* what the last poll returned
  kid,      \* "none", "waiting", "new", "runs", "gone"
  call,     \* the child's system call: "none", "stopped", "resumed"
  held,     \* a job that bash has started in the background holds the slave
  written, drawn, shown,  \* chunks written to the pty, fed to the vterm, refreshed
  typed, taken            \* keys typed, and read by handle_input

size   == <<term, resizes, winch, handler, got, wsize, vrows, prows, late>>
child  == <<kid, call, copy, held>>
output == <<written, drawn, shown>>
keys   == <<typed, taken>>
vars   == <<size, pc, curses, events, child, output, keys>>

Init ==
  /\ term \in Rows \ {1} /\ resizes = 0 /\ winch = FALSE /\ handler = "default"
  /\ got = FALSE /\ wsize = 0 /\ vrows = 0 /\ prows = 0 /\ late = {}
  /\ pc = "sigaction" /\ curses = FALSE /\ events = {}
  /\ kid = "none" /\ call = "none" /\ copy = 0 /\ held = FALSE
  /\ written = 0 /\ drawn = 0 /\ shown = 0
  /\ typed = 0 /\ taken = 0

\* A step of the master from one place to another.
From(l, m) == pc = l /\ pc' = m
-----------------------------------------------------------------------------
(* shell_main_entry                                                        *)

\* sa_flags is never written: SA_RESETHAND is set or not, whatever is on the
\* stack. (The other flags make no difference here.)
Sigaction ==
  /\ pc = "sigaction"
  /\ \/ pc' = "curses" /\ handler' \in {"set", "once"}
     \/ pc' = "ended" /\ UNCHANGED handler
  /\ UNCHANGED <<term, resizes, winch, got, wsize, vrows, prows, late>>
  /\ UNCHANGED <<curses, events, child, output, keys>>

InitCurses ==
  /\ From("curses", "pty")
  /\ curses' = TRUE /\ wsize' = term - 1 /\ vrows' = term - 1 /\ late' = {}
  /\ UNCHANGED <<term, resizes, winch, handler, got, prows, events, child, output, keys>>

\* Faulty variant: exit without cleanup.
FailsDirty(l) ==
  /\ From(l, "ended")
  /\ UNCHANGED <<size, curses, events, child, output, keys>>

\* errord_clean, and the way out of main.
Fails(l) ==
  /\ From(l, "ended")
  /\ curses' = FALSE
  /\ UNCHANGED <<size, events, child, output, keys>>

\* new_master_pty and the opening of the slave.
OpenPty == From("pty", "fork") /\ UNCHANGED <<size, curses, events, child, output, keys>>

Fork ==
  /\ From("fork", "fcntl")
  /\ kid' = "waiting" /\ copy' = wsize
  /\ UNCHANGED <<size, curses, events, call, held, output, keys>>

SetNonblock == From("fcntl", "init") /\ UNCHANGED <<size, curses, events, child, output, keys>>

\* tracer_init has let the child go past the stop of tracee_init.
TracerInit ==
  /\ From("init", "trace")
  /\ kid' = "new"
  /\ UNCHANGED <<size, curses, events, call, copy, held, output, keys>>
-----------------------------------------------------------------------------
(* master_process                                                          *)

\* Faulty variant: the child's stops are left alone.
TraceNothing ==
  /\ From("trace", "sigwinch")
  /\ UNCHANGED <<size, curses, events, child, output, keys>>

\* tracer_loop never waits; it resumes the child if it has stopped.
Trace ==
  /\ From("trace", "sigwinch")
  /\ call' = IF call = "stopped" THEN "resumed" ELSE call
  /\ UNCHANGED <<size, curses, events, kid, copy, held, output, keys>>

\* Faulty variant: the flag is not looked at.
TestSigwinchNever ==
  From("sigwinch", "poll") /\ UNCHANGED <<size, curses, events, child, output, keys>>

TestSigwinch ==
  /\ pc = "sigwinch" /\ pc' = IF got THEN "resize" ELSE "poll"
  /\ UNCHANGED <<size, curses, events, child, output, keys>>

\* window_resize: endwin and refresh make ncurses ask for the size ...
ReadSize ==
  /\ From("resize", "set size")
  /\ wsize' = term - 1 /\ late' = {}
  /\ UNCHANGED <<term, resizes, winch, handler, got, vrows, prows>>
  /\ UNCHANGED <<curses, events, child, output, keys>>

\* Faulty variant: the pty is not told.
SetSizeVterm ==
  /\ From("set size", "clear")
  /\ vrows' = wsize
  /\ UNCHANGED <<term, resizes, winch, handler, got, wsize, prows, late>>
  /\ UNCHANGED <<curses, events, child, output, keys>>

\* ... and the vterm and the pty are told. vterm_set_size ignores a height
\* below one.
SetSize ==
  /\ From("set size", "clear")
  /\ prows' = wsize
  /\ vrows' = IF wsize < 1 THEN vrows ELSE wsize
  /\ late' = IF wsize < 1 THEN late \cup {"one row"} ELSE late
  /\ UNCHANGED <<term, resizes, winch, handler, got, wsize>>
  /\ UNCHANGED <<curses, events, child, output, keys>>

\* got_sigwinch is cleared after the size was read: a signal that has come in
\* between is forgotten.
Clear ==
  /\ From("clear", "poll")
  /\ got' = FALSE
  /\ UNCHANGED <<term, resizes, winch, handler, wsize, vrows, prows, late>>
  /\ UNCHANGED <<curses, events, child, output, keys>>

\* POLLHUP comes when the last holder of the slave has closed it: the child and
\* every job that it has left.
Ready ==
  {e \in {"output", "hup", "key"} :
     \/ e = "output" /\ written > drawn
     \/ e = "hup"    /\ kid = "gone" /\ ~held
     \/ e = "key"    /\ typed > taken}

\* The status bar is drawn, and poll returns at once. A turn without events
\* ends here, without refresh; EINTR is such a turn.
Poll ==
  /\ pc = "poll"
  /\ events' \in {Ready, {}}
  /\ pc' = IF events' = {} THEN "trace" ELSE "output"
  /\ Ready # {} /\ ~winch => events' = Ready
  /\ UNCHANGED <<size, curses, child, output, keys>>

\* One read of what is there, which may fail and end the loop; then POLLHUP ends
\* it, whatever is left.
HandleOutput ==
  /\ \/ /\ From("output", "hup")
        /\ IF "output" \in events
             THEN \E n \in drawn + 1 .. written : drawn' = n
             ELSE UNCHANGED drawn
     \/ From("output", "cleanup") /\ "output" \in events /\ UNCHANGED drawn
  /\ UNCHANGED <<size, curses, events, child, written, shown, keys>>

\* Faulty variant: the end of the child is not noticed.
IgnoreHup ==
  /\ From("hup", "input")
  /\ UNCHANGED <<size, curses, events, child, output, keys>>

TestHup ==
  /\ IF "hup" \in events THEN From("hup", "cleanup") ELSE From("hup", "input")
  /\ UNCHANGED <<size, curses, events, child, output, keys>>

\* Faulty variant: a key is read although none was typed.
HandleInputBlind ==
  /\ From("input", "refresh")
  /\ taken' = taken + 1
  /\ UNCHANGED <<size, curses, events, child, output, typed>>

\* handle_input reads every key there is (see Input).
HandleInput ==
  /\ From("input", "refresh")
  /\ taken' = IF "key" \in events THEN typed ELSE taken
  /\ UNCHANGED <<size, curses, events, child, output, typed>>

\* Faulty variant: the screen is refreshed only for keys.
RefreshForKeys ==
  /\ From("refresh", "trace")
  /\ shown' = IF "key" \in events THEN drawn ELSE shown
  /\ events' = {}
  /\ UNCHANGED <<size, curses, child, written, drawn, keys>>

Refresh ==
  /\ From("refresh", "trace")
  /\ shown' = drawn /\ events' = {}
  /\ UNCHANGED <<size, curses, child, written, drawn, keys>>

Loop ==
  \/ Trace \/ TestSigwinch \/ ReadSize \/ SetSize \/ Clear \/ Poll
  \/ HandleOutput \/ TestHup \/ HandleInput \/ Refresh

\* The startup goes on or fails; poll fails or the loop ends: cleanup.
Main ==
  \/ Sigaction \/ InitCurses \/ OpenPty \/ Fork \/ SetNonblock \/ TracerInit \/ Loop
  \/ \E l \in {"pty", "fork", "fcntl", "poll", "cleanup"} : Fails(l)
-----------------------------------------------------------------------------
(* The child, the user and the kernel.                                     *)

\* The child enters a system call and stops there.
Calls ==
  /\ kid \in {"new", "runs"} /\ call = "none"
  /\ call' = "stopped"
  /\ UNCHANGED <<size, pc, curses, events, kid, copy, held, output, keys>>

\* slave_process sets the size that it has copied, then becomes bash.
SetOwnSize ==
  /\ kid = "new" /\ call = "resumed"
  /\ prows' = copy
  /\ late' = IF copy # term - 1 THEN late \cup {"child"} ELSE late
  /\ kid' = "runs" /\ call' = "none"
  /\ UNCHANGED <<term, resizes, winch, handler, got, wsize, vrows>>
  /\ UNCHANGED <<pc, curses, events, copy, held, output, keys>>

Write ==
  /\ kid = "runs" /\ call = "resumed"
  /\ written < MaxWrites /\ written - drawn < PtyCap
  /\ written' = written + 1 /\ call' = "none"
  /\ UNCHANGED <<size, pc, curses, events, kid, copy, held, drawn, shown, keys>>

\* Another call; by fork, it may put a job into the background, which shares
\* its terminal.
OtherCall ==
  /\ kid = "runs" /\ call = "resumed"
  /\ call' = "none" /\ held' \in {held, TRUE}
  /\ UNCHANGED <<size, pc, curses, events, kid, copy, output, keys>>

\* The job ends, before bash or after it, or never.
JobEnds ==
  /\ held /\ held' = FALSE
  /\ UNCHANGED <<size, pc, curses, events, kid, call, copy, output, keys>>

\* It exits, having failed to start bash or not, or is killed. What its jobs
\* write from then on is refused: the kernel hangs up the terminal of a session
\* whose leader is gone.
Exit ==
  /\ kid \in {"new", "runs"}
  /\ kid' = "gone" /\ call' = "none"
  /\ UNCHANGED <<size, pc, curses, events, copy, held, output, keys>>

Type ==
  /\ typed < MaxKeys
  /\ typed' = typed + 1
  /\ UNCHANGED <<size, pc, curses, events, child, output, taken>>

Resize(r) ==
  /\ resizes < MaxResizes /\ r # term /\ pc # "ended"
  /\ term' = r /\ resizes' = resizes + 1
  /\ winch' = TRUE /\ late' = {}
  /\ UNCHANGED <<handler, got, wsize, vrows, prows, pc, curses, events, child, output, keys>>

\* sigwinch_handler, or the default: the signal is ignored. A signal that meets
\* the handling of an earlier one sets a flag that Clear is about to clear.
Deliver ==
  /\ winch /\ winch' = FALSE
  /\ IF handler = "default"
       THEN late' = late \cup {"ignored"} /\ UNCHANGED <<got, handler>>
       ELSE /\ got' = TRUE
            /\ handler' = IF handler = "once" THEN "default" ELSE handler
            /\ late' = IF pc \in {"set size", "clear"} THEN late \cup {"cleared"} ELSE late
  /\ UNCHANGED <<term, resizes, wsize, vrows, prows, pc, curses, events, child, output, keys>>

Outside ==
  \/ Calls \/ SetOwnSize \/ Write \/ OtherCall \/ JobEnds \/ Exit \/ Type \/ Deliver
  \/ \E r \in Rows : Resize(r)

Next == Main \/ Outside

\* The master is never blocked, and a pending signal is delivered. The child
\* and its jobs are scheduled; they need not call anything, write or end.
Spec ==
  /\ Init /\ [][Next]_vars
  /\ WF_vars(Main) /\ WF_vars(Deliver)
-----------------------------------------------------------------------------
Ended == pc = "ended"
Places == {"sigaction", "curses", "pty", "fork", "fcntl", "init", "trace", "sigwinch", "resize",
           "set size", "clear", "poll", "output", "hup", "input", "refresh", "cleanup", "ended"}

\* The heights that master, child, vterm and pty may hold.
Heights == {0} \cup {r - 1 : r \in Rows}

\* Nothing is shown that was not drawn, nor drawn that was not written; no key
\* is read that was not typed.
CountsOK ==
  /\ resizes \in Nat /\ written \in Nat /\ drawn \in Nat /\ shown \in Nat
  /\ typed \in Nat /\ taken \in Nat
  /\ shown <= drawn /\ drawn <= written /\ taken <= typed
  /\ resizes <= MaxResizes /\ written <= MaxWrites /\ typed <= MaxKeys

TypeOK ==
  /\ term \in Rows
  /\ winch \in BOOLEAN /\ got \in BOOLEAN /\ curses \in BOOLEAN
  /\ handler \in {"set", "once", "default"}
  /\ wsize \in Heights /\ copy \in Heights /\ vrows \in Heights /\ prows \in Heights
  /\ late \subseteq {"one row", "cleared", "child", "ignored"}
  /\ pc \in Places /\ events \subseteq {"output", "hup", "key"}
  /\ kid \in {"none", "waiting", "new", "runs", "gone"}
  /\ call \in {"none", "stopped", "resumed"} /\ held \in BOOLEAN
  /\ CountsOK

\* The vterm and the pty (once the child has set it up) have the size of the
\* terminal, less the status bar's row.
SizeFits ==
  /\ vrows = term - 1
  /\ kid = "runs" => prows = term - 1

\* The size is stale only while a SIGWINCH is on its way or being handled
\* (shell.c:214-217, terminal.c:116-124), or for one of four reasons: the
\* flag was cleared over a second signal, the child overwrote the size with its
\* copy (shell.c:125), the handler was a one-shot (shell.c:284-287) or the
\* terminal has one row.
SizeStaleOnlyIf ==
  pc \notin {"sigaction", "curses", "ended"} =>
    SizeFits \/ winch \/ got \/ late # {}

\* prom never ends with the terminal in ncurses' hands: every failing way out
\* of the startup goes through cleanup (shell.c:300-335).
TerminalRestored == Ended => ~curses

\* What bash writes is on the screen in the end, although most turns of the
\* loop end at poll and skip refresh; or prom has ended.
OutputShown == \A n \in 1 .. MaxWrites : written >= n ~> shown >= n \/ Ended

\* One event of the tracer per turn is enough: no call of the child stays
\* stopped, whatever output and keys there are to handle.
CallsResumed == call = "stopped" ~> call # "stopped" \/ Ended

\* When the child is gone and no job of its holds the terminal any longer, prom
\* ends (shell.c:246): also if output is left behind, the child was killed in a
\* system call, or the user keeps typing and resizing. A job that goes on holding
\* it keeps prom running without bash.
EndsWithChild == kid = "gone" /\ ~held ~> Ended

\* A new size reaches vterm and pty, unless one of the four reasons spoils it.
SizeSettles == ~SizeFits ~> SizeFits \/ late # {} \/ Ended
=============================================================================
