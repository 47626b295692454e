---------------------------- MODULE ShellProofs ----------------------------
(***************************************************************************)
(* Machine-checked proofs about Shell, for any heights of the terminal and *)
(* any number of resizes, writes and keys.                                 *)
(***************************************************************************)
EXTENDS Shell, TLAPS

\* A terminal of r rows leaves r - 1 to the vterm.
LEMMA HeightTypes ==
  /\ Heights \subseteq Int /\ 0 \in Heights
  /\ \A r \in Rows : r \in Int /\ r - 1 \in Heights
BY ShellAssumption DEF ShellAssumption, Heights

\* Type correctness at the start.
LEMMA TypeInit == Init => TypeOK
<1> SUFFICES ASSUME Init PROVE TypeOK
  OBVIOUS
<1>1. CountsOK
  BY ShellAssumption DEF ShellAssumption, Init, CountsOK
<1> QED BY <1>1, HeightTypes DEF Init, TypeOK, Places

\* The bounds on what the outside world may still do are kept.
LEMMA CountsNext == CountsOK /\ Next => CountsOK'
<1> SUFFICES ASSUME CountsOK, Next PROVE CountsOK'
  OBVIOUS
<1> USE ShellAssumption DEF ShellAssumption, CountsOK
<1>1. CASE HandleOutput
  BY <1>1 DEF HandleOutput, keys, size
<1>2. CASE HandleInput
  BY <1>2 DEF HandleInput, size, output
<1>3. CASE Refresh
  BY <1>3 DEF Refresh, size, keys
<1>4. CASE Type
  BY <1>4 DEF Type, size, output
<1>5. CASE Write
  BY <1>5 DEF Write, size, keys
<1>6. ASSUME NEW r \in Rows, Resize(r) PROVE CountsOK'
  BY <1>6 DEF Resize, output, keys
<1>7. ASSUME UNCHANGED <<resizes, output, keys>> PROVE CountsOK'
  BY <1>7 DEF output, keys
<1>8. CASE Sigaction \/ InitCurses \/ OpenPty \/ Fork \/ SetNonblock \/ TracerInit
  BY <1>7, <1>8 DEF Sigaction, InitCurses, OpenPty, Fork, SetNonblock, TracerInit, size
<1>9. CASE Trace \/ TestSigwinch \/ ReadSize \/ SetSize \/ Clear \/ Poll \/ TestHup
  BY <1>7, <1>9 DEF Trace, TestSigwinch, ReadSize, SetSize, Clear, Poll, TestHup, size
<1>10. ASSUME NEW l, Fails(l) PROVE CountsOK'
  BY <1>7, <1>10 DEF Fails, size
<1>11. CASE Calls \/ SetOwnSize \/ OtherCall \/ JobEnds \/ Exit \/ Deliver
  BY <1>7, <1>11 DEF Calls, SetOwnSize, OtherCall, JobEnds, Exit, Deliver, size
<1> QED
  BY <1>1, <1>2, <1>3, <1>4, <1>5, <1>6, <1>8, <1>9, <1>10, <1>11
  DEF Next, Main, Loop, Outside

\* Type correctness is kept by the shell's own steps.
LEMMA TypeMain == TypeOK /\ CountsOK' /\ Main => TypeOK'
<1> SUFFICES ASSUME TypeOK, CountsOK', Main PROVE TypeOK'
  OBVIOUS
<1> USE HeightTypes DEF TypeOK, Places, From, size, child, output, keys
<1>1. CASE Sigaction \/ InitCurses
  BY <1>1, ZenonT(60) DEF Sigaction, InitCurses
<1>2. CASE OpenPty \/ Fork \/ SetNonblock \/ TracerInit
  BY <1>2, ZenonT(60) DEF OpenPty, Fork, SetNonblock, TracerInit
<1>3. CASE Trace \/ TestSigwinch \/ ReadSize
  BY <1>3, ZenonT(60) DEF Trace, TestSigwinch, ReadSize
<1>4. CASE SetSize
  BY <1>4 DEF SetSize
<1>5. CASE Clear \/ TestHup
  BY <1>5, ZenonT(60) DEF Clear, TestHup
<1>6. CASE Poll
  BY <1>6 DEF Poll, Ready
<1>7. CASE HandleOutput \/ HandleInput \/ Refresh
  BY <1>7, ZenonT(60) DEF HandleOutput, HandleInput, Refresh
<1>8. ASSUME NEW l \in {"pty", "fork", "fcntl", "poll", "cleanup"}, Fails(l) PROVE TypeOK'
  BY <1>8 DEF Fails
<1> QED BY <1>1, <1>2, <1>3, <1>4, <1>5, <1>6, <1>7, <1>8 DEF Main, Loop

\* ... and by the steps of the program, the user and the window.
LEMMA TypeOutside == TypeOK /\ CountsOK' /\ Outside => TypeOK'
<1> SUFFICES ASSUME TypeOK, CountsOK', Outside PROVE TypeOK'
  OBVIOUS
<1> USE DEF TypeOK, size, child, output, keys
<1>1. CASE Calls \/ SetOwnSize \/ Write \/ OtherCall \/ JobEnds \/ Exit \/ Type
  BY <1>1, ZenonT(60) DEF Calls, SetOwnSize, Write, OtherCall, JobEnds, Exit, Type
<1>2. CASE Deliver
  BY <1>2 DEF Deliver
<1>3. ASSUME NEW r \in Rows, Resize(r) PROVE TypeOK'
  BY <1>3 DEF Resize
<1> QED BY <1>1, <1>2, <1>3 DEF Outside

\* However the loop, bash, the user and SIGWINCH interleave, every height that
\* is passed on is one that the terminal had, nothing is shown that was not
\* drawn and written before, and no key is read twice (shell.c:102-117, 254).
THEOREM TypeCorrect == Spec => []TypeOK
<1>1. TypeOK /\ [Next]_vars => TypeOK'
  <2> SUFFICES ASSUME TypeOK, UNCHANGED vars PROVE TypeOK'
    BY CountsNext, TypeMain, TypeOutside DEF Next, TypeOK
  <2> QED BY DEF TypeOK, CountsOK, vars, size, child, output, keys
<1> QED BY <1>1, TypeInit, PTL DEF Spec
-----------------------------------------------------------------------------
(* The size. While a SIGWINCH is handled the flag is still set, so what     *)
(* SizeStaleOnlyIf says when it is cleared has to be carried through the    *)
(* handling: the size that was read is the terminal's unless another signal *)
(* is on its way or has met the handling.                                   *)

Handled == {"resize", "set size", "clear"}

\* The size is not stale, or will be read again, or the reason is known.
Excused == winch \/ late # {}

SizeInv ==
  /\ pc \in Handled => got
  /\ pc = "set size" => wsize = term - 1 \/ Excused
  /\ pc = "clear"    => SizeFits \/ Excused
  /\ pc \notin Handled \cup {"sigaction", "curses", "ended"} => SizeFits \/ got \/ Excused
  /\ pc \in {"sigaction", "curses"} => kid = "none"
  /\ pc \in {"pty", "fork"} => kid = "none"

\* The invariant about the size at the start.
LEMMA SizeInit == Init => SizeInv
BY DEF Init, SizeInv, Handled

\* The invariant about the size is kept by the shell's own steps.
LEMMA SizeMain == TypeOK /\ SizeInv /\ Main => SizeInv'
<1> SUFFICES ASSUME TypeOK, SizeInv, Main PROVE SizeInv'
  OBVIOUS
<1> USE ShellAssumption, HeightTypes
        DEF ShellAssumption, TypeOK, SizeInv, Handled, Excused, SizeFits, From,
            size, child, output, keys
<1>1. CASE Sigaction \/ InitCurses \/ OpenPty
  BY <1>1 DEF Sigaction, InitCurses, OpenPty
<1>2. CASE Fork \/ SetNonblock \/ TracerInit
  BY <1>2 DEF Fork, SetNonblock, TracerInit
<1>3. CASE Trace \/ TestSigwinch \/ ReadSize
  BY <1>3 DEF Trace, TestSigwinch, ReadSize
<1>4. CASE SetSize
  <2>1. wsize \in Int /\ term \in Int
    OBVIOUS
  <2>2. CASE wsize < 1
    BY <1>4, <2>2 DEF SetSize
  <2>3. CASE ~(wsize < 1)
    BY <1>4, <2>3 DEF SetSize
  <2> QED BY <2>2, <2>3
<1>5. CASE Clear
  BY <1>5 DEF Clear
<1>6. CASE Poll \/ HandleOutput \/ TestHup \/ HandleInput \/ Refresh
  BY <1>6 DEF Poll, HandleOutput, TestHup, HandleInput, Refresh
<1>7. ASSUME NEW l \in {"pty", "fork", "fcntl", "poll", "cleanup"}, Fails(l) PROVE SizeInv'
  BY <1>7 DEF Fails
<1> QED BY <1>1, <1>2, <1>3, <1>4, <1>5, <1>6, <1>7 DEF Main, Loop

\* ... and by the steps of the program, the user and the window.
LEMMA SizeOutside == TypeOK /\ SizeInv /\ Outside => SizeInv'
<1> SUFFICES ASSUME TypeOK, SizeInv, Outside PROVE SizeInv'
  OBVIOUS
<1> USE HeightTypes DEF TypeOK, SizeInv, Handled, Excused, SizeFits, size, child, output, keys
<1>1. CASE Calls \/ Write \/ OtherCall \/ JobEnds \/ Exit \/ Type
  BY <1>1 DEF Calls, Write, OtherCall, JobEnds, Exit, Type
<1>2. CASE SetOwnSize
  BY <1>2 DEF SetOwnSize
<1>3. CASE Deliver
  BY <1>3 DEF Deliver
<1>4. ASSUME NEW r \in Rows, Resize(r) PROVE SizeInv'
  BY <1>4 DEF Resize
<1> QED BY <1>1, <1>2, <1>3, <1>4 DEF Outside

\* The size of the pty is right, or why it is not is known (SizeStaleOnlyIf).
LEMMA SizeInvariant == Spec => []SizeInv
<1>1. TypeOK /\ SizeInv /\ [Next]_vars => SizeInv'
  <2> SUFFICES ASSUME SizeInv, UNCHANGED vars PROVE SizeInv'
    BY SizeMain, SizeOutside DEF Next
  <2> QED BY DEF SizeInv, SizeFits, Excused, vars, size, child
<1> QED BY <1>1, SizeInit, TypeCorrect, PTL DEF Spec

\* The size that the vterm and the pty have is stale only while a SIGWINCH is
\* on its way or being handled, or for one of the four known reasons, however
\* many resizes come and wherever they meet the loop (shell.c:125, 214-217,
\* 284; terminal.c:121-123).
THEOREM StaleForKnownReasons == Spec => []SizeStaleOnlyIf
<1>1. SizeInv => SizeStaleOnlyIf
  BY DEF SizeInv, SizeStaleOnlyIf, Handled, Excused
<1> QED BY <1>1, SizeInvariant, PTL
-----------------------------------------------------------------------------
\* The terminal is nobody's before initscr, and cleanup is on every way out.
CursesInv == pc \in {"sigaction", "curses", "ended"} => ~curses

\* Whichever step of the startup or of the loop fails, and whenever, prom gives
\* the terminal back before it ends (shell.c:259-282, 300-335).
THEOREM TerminalGivenBack == Spec => []TerminalRestored
<1>1. Init => CursesInv
  BY DEF Init, CursesInv
<1>2. CursesInv /\ [Next]_vars => CursesInv'
  <2> SUFFICES ASSUME CursesInv, [Next]_vars PROVE CursesInv'
    OBVIOUS
  <2> USE DEF CursesInv, From
  <2>1. CASE Sigaction \/ InitCurses \/ OpenPty \/ Fork \/ SetNonblock \/ TracerInit
    BY <2>1 DEF Sigaction, InitCurses, OpenPty, Fork, SetNonblock, TracerInit
  <2>2. CASE Loop
    BY <2>2 DEF Loop, Trace, TestSigwinch, ReadSize, SetSize, Clear, Poll, HandleOutput,
                TestHup, HandleInput, Refresh
  <2>3. ASSUME NEW l, Fails(l) PROVE CursesInv'
    BY <2>3 DEF Fails
  <2>4. CASE Outside
    BY <2>4 DEF Outside, Calls, SetOwnSize, Write, OtherCall, JobEnds, Exit, Type,
                Deliver, Resize
  <2>5. CASE UNCHANGED vars
    BY <2>5 DEF vars
  <2> QED BY <2>1, <2>2, <2>3, <2>4, <2>5 DEF Next, Main
<1>3. CursesInv => TerminalRestored
  BY DEF CursesInv, TerminalRestored, Ended
<1> QED BY <1>1, <1>2, <1>3, PTL DEF Spec
=============================================================================
