# prom in TLA+

prom is a terminal shell wrapper: it runs the user's shell on a pseudo
terminal, draws its output through libvterm and curses, and traces it with its
own small ptrace library (`libtracer`) so that callbacks learn of, and may
refuse, the files that programs open. A second command, `prom-module`, keeps a
directory of loadable modules.

This directory holds TLA+ modules of that program, TLC configurations that
check them on small instances and TLAPS proofs of what holds for all instances.
Paths below are relative to the repository (`src/...` is the program's own
source directory).

## Inventory

| Component | State | Operations | Interacts with | What makes it correct |
|---|---|---|---|---|
| libtracer (`src/libtracer/tracer.c`) | callbacks, `static last_syscall`, the registers in the handler's hand | `tracee_init`, `tracer_init`, `tracer_loop` | the kernel (ptrace, wait), the shell's callbacks | no tracee left stopped; a refused open does not run and returns EPERM; every call is reported once; signals pass through |
| errm (`src/errm/`) | error code, stack of 12 frames of deferred handlers (thread local) | `errm_*`, `defer`, `static_defer`, function wrappers `edf_*` | every edf function of filesystem and modules | each defer runs once, in its own frame, at its end; the error code a caller reads is its callee's |
| dga (`src/dga/`) | length, element size and block of an array | new, resize, grow, shrink, dup, free, foreach | filesystem, modules | the length never exceeds the allocation |
| filesystem (`src/filesystem/`) | none between calls | `abs_path`, `dir_content` | errm, dga, libc | result or error code, no leak on any path |
| module directory (`src/modules/mods.c`, `src/prom-module.c`) | links in one directory, shared by processes | add, remove, list, list --clean | errm, filesystem, dynamic linker | list shows what was added; clean removes only what does not load |
| command dispatch (`src/main.c`, `src/prom.c`, `src/prom-shell.c`) | none | argument dispatch | the commands | - |
| shell loop (`src/shell/shell.c`, `pty.c`) | pty, vterm, resize flag, child | start-up, poll loop, shutdown | tracer, kernel, terminal | all output drawn, resize not lost, progress of every source |
| shell input (`src/shell/shell.c`) | vterm output buffer (4096) | `handle_input`, `handle_arrows` | vterm, pty | keys arrive in order, none twice |
| terminal (`src/shell/terminal.c`) | screen, window size | damage, cursor, resize | vterm, curses | what is drawn is what the vterm holds |
| logger, templates, build files, tests | - | - | - | not part of the behaviour |

The hard behaviours: two tracees whose ptrace stops reach the tracer in any
order, while the code keeps one `last_syscall` for all of them; processes killed
between two ptrace calls of one handler; a handshake whose first wait may be
interrupted; allocation failing at each call; several `prom-module` processes on
one directory; a signal handler that sets a flag the main loop clears. Each is
listed with its line in `PROJECT.json` under `hazards`.

## Plan

Done, in this order: `Tracer`, `OpenMonitor` and `TracerProofs`; `Errm` and `ErrmProofs`;
`Filesystem` (with the arrays of dga), which is composed with `Errm`; `Modules`;
`Shell`; `Input`.

Then the proofs beyond those: `TracerReportProofs` (the reports of calls) and
`TracerMonitorProofs` (the signals, and the refinement of `OpenMonitor`) on top of
`TracerProofs`; `ModulesProofs`, `ShellProofs`, `InputProofs` and `FilesystemProofs`.

So every safety property that a passing run checks is a theorem. The liveness
properties stay model-checked.

## libtracer

`Tracer.tla` puts the tracer beside the part of Linux it is written against.

*Kernel side* (external). `st[p]` says where process `p` is: running in user mode,
in the kernel, or in one of the ptrace stops (syscall entry and exit, the fork,
exit and interrupt events, group stop, signal-delivery stop). `SendSignal`,
`SignalStop`, `EnterCall`, `Exec...`, `Kill` are what processes do by themselves;
`PtraceSyscall` is what `PTRACE_SYSCALL` does to a stop. A call is its number, path
and access mode; `regs` holds only `orig_rax` and `rax`, the registers the tracer
changes. A call has the outcomes 0, -ENOENT, -EAGAIN: the properties only compare
results. An exec is a call that computes a value. The initial stop of the child is
an ordinary job-control stop that becomes a group stop when it is seized.

*Tracer side*. `pc` is the next ptrace or wait call. `tracer_init` is
`InitWait`, `InitSeize`, `InitInterrupt`, `InitResume`, `InitCont`: each fails into
`pc = "wait"` because both callers go on to `tracer_loop` whatever it returned
(`src/shell/shell.c:210`). `tracer_loop` is `HandleStopped` (waitpid and the switches of
`handle_stopped` and `handle_sigtrap`) and `ReapExited`; `handle_syscalls` is `GetRegs` and its
two error exits, `SyscallOpenat` with `ReadStringFails`, `SetRegs` with `SetRegsFails`, `Resume`.
`PTRACE_SETREGS` fails when the tracee is gone, and (a fault) while it is still stopped:
the code does not know what might cause that (its TODO at line 139), the `syscall`
callback, which may change the registers, is one thing that can. Either way the handler
returns without resuming; a live tracee is then left in its stop for ever (`Dropped`).
Between any two of these other processes run and any process may be killed; PEEKTEXT on a killed
process yields the empty string, which is also what an invalid address yields
(`NoPath`). `last` is `static long last_syscall`, the one variable for all tracees;
`Toggle` is line 122. The history variable `obs` records for the last call of each
process how often each callback heard of it, whether one refused it, and its result;
`clean` says that its registers were read at both its stops and no other tracee's in
between, `stale` that `last` held its number already when it entered: another tracee
died in such a call, or is still in it. Then the entry is taken for the exit, a refused
call runs, and the refusal falls on its exit stop. `CleanDenialsDecided` says that of the
clean calls exactly these run although they are refused.

`OpenMonitor.tla` is what libtracer promises of one program: each call is decided
once, before it runs; refused calls never run and return -EPERM; granted calls run
once and their result is untouched. `Tracer!Phase` and `Tracer!Result` are the
refinement mapping.

### Runs

| Run | Instance | What it shows |
|---|---|---|
| `tracer_pair` | 2 processes, 2 calls each, 2 paths (one refused for reading and writing), O_RDWR, failing GETREGS, SETREGS and malloc | `NoForgottenStop`; `DeniedSeesEPERM` and `UndeniedUntouched` in every interleaving; which calls are reported, refused, and run all the same, as long as no other stop comes between theirs |
| `tracer_single` | 1 process, 3 calls, all access modes, SIGINT, SIGTRAP, SIGCONT, SIGTSTP, EINTR, failing SETREGS | the refinement of `OpenMonitor`, every call reported exactly once |
| `tracer_signals` | 2 processes, 1 call each, SIGINT and SIGTSTP, EINTR | each signal is passed on to the process it stopped |
| `tracer_live` | 2 processes, 1 call each, all faults | every stop ends, but a dropped one; the child gets past the handshake and its own stop |
| `tracer_entry_cb` | 2 processes, 2 calls | violation: see Findings |

Bounds: `MaxCalls` bounds the calls of a process. One call of each of two processes
already lets an exit stop of one meet the toggle of the other; two calls let the
wrong toggle state carry over into the next call. The second process exists only
once the first has cloned it, so the clone's own stops are part of the runs. The
faults are `eintr` (the first wait), `getregs` (PTRACE_GETREGS failing although the
tracee exists), `setregs` (the same of PTRACE_SETREGS) and `malloc` (in `read_string`). `eintr`
only matters to the handshake, which `tracer_pair` leaves to the other runs. Deadlock checking is off: all
processes may be gone or have made all their calls.

Fairness (`FairSpec`): the callers run `tracer_loop` for ever, hence weak fairness of
the tracer's steps; the forked child runs to its own stop, hence weak fairness of
`TraceeInit` and `InterruptTrap`; and a signal that is pending for the child is delivered
before it goes on (weak fairness of its `SignalStop`), which `ShellStarts` needs: after an
early seize the child has still to go through the stop that it raised itself. No
fairness is assumed of programs, other signals or faults. In `tracer_live` no signals are sent from outside, so the order in which
waitpid picks among several stopped children cannot starve one for ever.

### Proofs

`TracerProofs.tla`, for any processes, paths, calls, signals, callbacks, refused paths,
faults and `MaxCalls` (from `TracerAssumption` only):

- `TypeCorrect`: `Spec => []TypeOK`.
- `NoStopForgotten`: `Spec => []NoForgottenStop`. Strengthened by `NotSeenBefore`: the
  stop that `tracer_init` makes of the child's own one has not been waited for. The one
  exception that the property names, a tracee whose PTRACE_SETREGS failed, is a history
  of the call (`dropped`); `DropInv` shows that it is set for no stop that is in hand, so it
  excuses nothing else.
- `DenialReachesProgram` and `ResultReachesProgram`: `DeniedSeesEPERM` and
  `UndeniedUntouched`. They say nothing of the middle of a call, so `CallInv` follows a
  call from its entry stop to its return: undecided with rax = -ENOSYS before
  `SetRegs`, then either refused with both registers -EPERM or still as the program
  made it, then with its result; while the handler works on a stop, its copy of the
  registers and `perm` agree with it. The steps are split into kernel, handshake and
  handlers; two frame lemmas cover the processes a step does not touch.

`TracerReportProofs.tla` extends it, for any number of tracees:

- `CleanCallsReported` and `CleanDenialsAreDecided`: `CleanReportedOnce` and
  `CleanDenialsDecided`.
  `ReportInv` follows what the callbacks have been told (`obs`) through a call, as long as it
  is clean: nothing before the entry stop is handled; after it `last` is the call's number and
  everything is told or, if the entry was taken for an exit (`stale`), `last` is idle and
  nothing is (`Owes`, `HalfTold`), which the exit stop then makes up for; in between,
  `SyscallOpenat` has told the `syscall` callback only (`AskedSyscall`). A stop of another
  tracee that comes meanwhile changes `last` and makes the call unclean in the same step
  (`Heard`). It needs one fact of the
  start: the child enters no call before `tracer_init` has resumed it (`Handshake`), because
  it stops itself or has its SIGSTOP pending.
- `SingleCallsReported`: `SingleReportedOnce`. With a single tracee and neither GETREGS nor
  malloc failing (`Alone`), `last` is -1 whenever no call is under way (`SingleInv`), so every
  call is clean and none is stale.

`TracerMonitorProofs.tla` extends that:

- `SignalsPassedOn`: `SignalsReinjected`, for any number of tracees. `SignalInv`: at `Resume`
  the signal to inject is the one of the stop that is resumed.
- `SingleImplementsMonitor`: under `Alone`, `Spec => ImplementsMonitor`. The assumption is
  the one under which the claim holds: the finding `tracer_entry_cb` shows that it fails
  with two tracees. Every step of the kernel, of `tracer_init` and of `tracer_loop` is mapped to
  a step of `OpenMonitor` or to a stutter of it; `Phases` says where `Phase` and `Result` are
  read off. `PermInv` is needed beside the invariants above: at the exit stop no file
  callback has been asked, so `SetRegs` leaves the result alone.

Only model-checked: liveness (out of the prover's reach).

## errm

`Errm.tla` is the error code and the defer stack of one thread with the wrapper that
the `edf_` macros put around a function. `Enter` is the wrapper's beginning
(`errm_clear`, `defer_push`), `Return` the end of the body, then `RunStatic`,
`StaticDone`, `RunDynamic` are the two loops of `run_defers` and `Pop` is `defer_pop`. A handler is
client code like a body: while it runs (`phase` is `in_static` or `in_dyn`) it may call edf
functions, register defers and set errors; `HandlerReturns` ends it. `frame[d]` is
`defer_stack.stack[d]`: `stat` and `dyn` are the arrays up to their lengths, `used` is
the pool's fill, `busy` is the entry whose handler runs (its argument is still in the
pool). Handlers are known by the order of their registration (`num`), arguments by
place and size. `abort()` sets `aborted`, after which nothing happens. errno values that
`errm_error_from_errno` does not list change nothing and have no step.

The client keeps two rules that the code relies on and does not check: `defer` and
`static_defer` only inside an edf function (elsewhere they write frame -1), and no
`static_defer` from a dynamic handler (it would run for the next function at that
depth). All callers in `filesystem.c` and `mods.c` keep them.

Run `errm`: 3 frames, 2 static and 2 dynamic defers, a pool of 4 with arguments of size
1 and 2, at most 4 registrations. That is enough for each limit to be exceeded, for a
handler to add a defer while another waits, and for a frame to be used again after
calls from a body, a static and a dynamic handler. It shows that each defer runs
exactly once (`EachOnce`), in order (`LatestFirst`), with its own argument
(`ArgsDisjoint`), and that an error is never a leftover (`ErrorIsOwn`). Deadlock
checking is off: `abort()` ends the program.

`ErrmProofs.tla` proves all five properties for any sizes, errors and number of
registrations, from `ErrmAssumption`. The inductive invariant `Inv` says: frames above
the current one are empty (so a function starts with nothing an earlier one left);
a frame in its dynamic phase has no static defers and an empty pool; within a frame
numbers and places grow with the index, below `used`; what waits has not run, and waits in
one frame only; every number registered has run or waits. Lemmas on the operations
on one frame (`AddStaticOK` to `FreePoolOK`) carry the argument, and three lemmas
(`NumberedSame`, `NumberedAdd`, `NumberedTake`) lift it to the stack.

## filesystem and dga

`Filesystem.tla` follows `abs_path` and `dir_content` through every function they call.
It instantiates `Errm`: a call of an edf function is `E!Enter`, `defer` is `E!Defer`,
`static_defer` is `E!StaticDefer`, and `Unwind` is what `run_defers` and `defer_pop` do at the
end of each function, with the release of the block that was registered. So the order
in which blocks are released is the one of errm, with the limits of `errm.h`
(12 frames, 12 and 6 defers, a pool of 48 bytes, `sizeof(wordexp_t)` = 24).

`fs.at` holds the place in each function on the stack; the places are named after what
comes next, and a last return that only hands on a value is one of `Ends`. `fs.heap` holds the blocks by name: no function here is recursive, so there is
at most one of each. The array of names is its length in the header, the number of
elements its block really holds, and the names that are allocated. Contents of
strings are left out. The calls that fail are wordexp, malloc in `emalloc`, getcwd,
opendir (with an errno that errm knows or not), `_dga_new` and `dga_grow`; `fs.failed`
remembers them. wordexp fails in two ways: with WRDE_NOSPACE it keeps the words that it
has, `expand` returns without wordfree, and nothing points to them any longer (`fs.lost`). Undefined behaviour is not followed any further: `fs.fault` names it.

Run `filesystem`: two calls, at most 3 entries, all combinations of failures.
Two calls show that nothing of the first one is left; 3 entries let a growth fail with
none, some and most names allocated. It shows that all blocks are freed once
and none is lost but by a wordexp out of memory (`NothingLeaks`), that NULL and an error come together (`ErrorMeansNull`), and that exactly
five failures lead to undefined behaviour (`OnlyUnhandledFail`): a path that expands to
no word (`filesystem.c:53`), getcwd (67), opendir with an errno that
`errm_error_from_errno` does not list (123), malloc in `_dga_new`, whose result
is never NULL (`dga.c:12`), and realloc in `dga_resize` (107). Deadlock is checked: a step of
the code that errm's rules forbid would be one. An error of readdir looks like the
end of the directory, in the code as in the model.

`FilesystemProofs.tla` proves the four properties of that run for any number of calls and
entries, any errors, and any limits of errm with room for four frames, one defer in
each and one `wordexp_t` (`FilesystemAssumption`; `errm.h` has 12, 12, 6 and 48 bytes):
`TypeCorrect`, `FailuresSurvived`, `NoLeaks`, `ErrorsAndValuesAgree`. None of them is
inductive: whether a block leaks is decided by a defer that some function on the
stack registered earlier. The inductive invariant `Inv` says so, as long as there was no
undefined behaviour. `Shape`: each place on the stack is one of a function that
the place below calls, so the stack is at most four deep. `Waits`: a function
that waits is in its body, and its frame holds the defer that its place tells (`Kept`).
`Unused`: the frames above are empty. `Inner`: the heap is exactly what the waiting
functions keep (`Below`), what the innermost one keeps and has in hand, and the error
code agrees with the value. `NamesOK`: the array's length is what its block holds,
but while an entry is added. Each action has a lemma; those for calls, returns and
defers (`CallsInv`, `ReturnsInv`, `DeferMoves`, `StaticMoves`, `Unwinds`, `PopInv`) carry
what all functions share. `ErrorsAndValuesAgree` is about the step that takes the
outermost function off the stack, which is `Pop` of its last frame (`OnlyPop`). The words
that are lost are apart from the heap and have an invariant of their own (`LostKnown`).

## modules

`Modules.tla` has any number of processes, each running one command of `prom module`.
`link` is the directory: what each name points to; `file` is the name that a module's file
exports, or `Broken`. `add` is `AddLoad` (abs_path and `load_module`) and `AddLink` (symlink);
`remove` is `Remove`; `list` and `list --clean` read the directory entry by entry (`ReadEntry`),
then load module after module (`ListLoad`, `ListFails`, `CleanLoad`, `CleanFinds`) and, for clean,
remove a name after it was found damaged (`CleanUnlinks`; a removal that fails is not
noticed, and the name is printed all the same). Steps of one process between
two of these touch nothing that others see. `Build` is a developer who rebuilds or
breaks a file, `Die` a kill or one of the faults of `Filesystem`. With no memory for a path
`dlopen(NULL)` opens prom itself, which counts as a module that does not load.

`good` and `stale` are histories per process: the names that have been linked and
loadable, or linked and not loadable, ever since the process started. The properties
compare them with what the command prints or removes, which is what can be asked of
it while others change the directory. `oom` are the names that a clean could not load for
lack of memory, `kept` those whose link it tried to remove and could not: a clean that
succeeds has left no other link that was broken all the time (`CleanComplete`).

Run `modules`: 2 processes with any two commands, 3 names (one with a dot), 2 files, 1
change of a file, any directory that earlier adds can have left, with files that may be
broken at the start; the commands run in the modules directory. Two processes and one
change suffice for a broken name to be found, repaired or replaced by the other process,
and then removed. Names of one kind, files and processes
are symmetric; no temporal property with fairness is checked. Deadlock checking is off:
the commands end. A clean may remove a module that was repaired after it was loaded:
`CleanSpares` is about those that were fine all along. And list prints the name that a file
exports, which is not the link's if the file was rebuilt under another name:
`PrintedCanBeRemoved` excepts those.

`ModulesProofs.tla` proves all five properties of that run for any number of processes,
names, files and changes (from `ModulesAssumption`): `TypeCorrect`, `ListIsComplete`,
`ListedNamesCanBeRemoved`, `CleanIsComplete`, `CleanSparesTheGood`. The inductive invariant
`Inv` has four parts beside the types. `TodoInv`: the names that wait were read, and each
waits once. `ReadInv`: while the directory is read, a name in the histories that was read
waits. `ListInv` and `CleanInv`: afterwards a name in the histories waits or was dealt with
as the command deals with it. `LinkInv`, the only one that relates the processes: a link
points to a file that exports its name, or that is broken or was renamed. The argument
for one process (`OwnAdds`, `OwnReads`, `OwnLists`, `OwnCleans`) is separate from the one that
its steps leave the others' invariants alone (`OthersApart`, `RestKept`): the histories
only shrink when others act, which is why they carry the properties.

## shell

`Shell.tla` is `shell_main_entry` and `master_process`, with `window_resize`, beside bash and
the user. `pc` is the next step of the master; steps that touch only its own state
are joined (the status bar is drawn in the step of poll). `wsize`, `vrows` and `prows` are the
heights that the master, the vterm and the pty know; the width behaves alike.
`Deliver` is SIGWINCH, between any two steps. The child's system calls stop (`Calls`) until
`Trace`, one call of `tracer_loop`, resumes them; what happens inside it is the subject of
`Tracer`. Output is counted in chunks: written to the pty, fed to the vterm, refreshed.
A read of the output may fail, which ends the loop (`HandleOutput`). Bash may put jobs into
the background, which hold the slave side of the pty (`held`): poll reports POLLHUP only
when bash is gone and the last of them has ended, so `EndsWithChild` is about that moment,
and a job that goes on keeps prom running without a shell.
`late` collects what has spoilt the size since the master last read it, so that
`SizeStaleOnlyIf` can say that nothing else does:

- "cleared": a signal comes between the reading of the size and `got_sigwinch = false`,
  which stays so until the next signal, whatever sizes come and go meanwhile;
- "child": bash's process sets the size that it copied at fork after the master has
  set a newer one (`shell.c:125`);
- "ignored": `sa_flags` is uninitialised (`shell.c:284`), so the handler may be a one-shot;
- "one row": `ws_row - 1` is 0, which the vterm ignores and the pty takes.

Run `shell`: heights 1, 3 and 4, two resizes, two chunks, one key, each start-up step
failing. A second resize is what meets the handling of the first, and can bring back the
height that was read or go on to a third; both ordinary heights and the one without
room for the vterm are met. Fairness: weak
fairness of the master (`poll` has timeout 0 and `tracer_loop` uses WNOHANG, so it is never
blocked once `tracer_init` has returned) and of the delivery of a pending signal. None is
assumed of the child, its jobs or the user. Deadlock checking is off: prom ends. A POLLHUP
ends the loop whatever output is left: `OutputShown` excepts that, as the screen is given
back in the next step.

`ShellProofs.tla` proves the three invariants for any heights and any number of resizes,
chunks and keys (from `ShellAssumption`): `TypeCorrect`, `StaleForKnownReasons` and
`TerminalGivenBack`. `SizeStaleOnlyIf` is not inductive: while a SIGWINCH is handled `got` is
still set, which hides what has been read. `SizeInv` carries it: before `SetSize` the size
read is the terminal's, before `Clear` vterm and pty have it, unless a signal is on its
way or `late` names a reason. `CursesInv` adds to `TerminalRestored` that the terminal is not
taken before `InitCurses`. The four liveness properties are only model-checked.

## input

`Input.tla` is `handle_input` and `handle_arrows`. Bytes carry the number of the key they stem
from. `ungot` counts the KEY_RESIZE that ncurses has pushed back, which `getch` returns
before any byte. `Getch` reads one byte, `Arrow` and `Bracket` are the two further `getch` calls of
`handle_arrows`, which do not wait: a late byte is read as -1 and passed on as a
character (`NoKey`). `Flush` is the second loop: `minimum` returns the larger number, so the
whole buffer is read at once; the non-blocking write takes what the pty has room for and
the rest is gone. `Push` (external) is the vterm's output buffer: what does not fit is
dropped or cut off. The vterm's answers to queries go into the same buffer (`Answer`) and lie
there until the next key.

Run `input`: four keys of four kinds, a buffer of 4 and a pty of 3 bytes, one resize or
answer, application mode of the arrows. Four keys make an arrow and one more byte, an
escape before an arrow, and both buffers overflow. Fairness: weak fairness of the
loop, as above; none of bash, so the pty may stay full.

`InputProofs.tla` proves the three invariants for any buffer sizes and any number of keys
(from `InputAssumption`): `TypeCorrect`, `KeysStayInOrder`, `NothingLostUnlessFull`. A byte
is in one of four places, `sent`, `buf`, `chars` and `tty`. `OrderInv`: each is in order and
each is before the next, which is what makes `KeysInOrder` inductive: an arrow that is cut
short must leave `chars` before the byte read after it. `CountInv`: no key comes from nowhere,
and none is missing as long as nothing overflowed. The lemmas about `KeysOf` and `Ordered`
say what concatenation, a prefix and a tail do to both. `KeysPassedOn` is liveness and only
model-checked.

## Findings

- `tracer_entry_cb`: `src/libtracer/README.md:82` says the syscall callback "gets called
  before every syscall entry" and `src/libtracer/tracer.c:121` "We get a syscall event
  once on entry and once on exit." With two tracees in the same call the shared
  `last_syscall` (`tracer.c:105,122`) makes the second entry look like an exit: no
  callback runs before it (and, for an open, none can refuse it before it runs).

- `array_length`: `src/dga/README.md:33` says that the length is "constantly tracked anyway";
  `dga_resize` stores it before a reallocation that may fail (`dga.c:24`).
- `modules_elsewhere`: the usage text (`src/prom-module.c:136-137`) offers "add a new namespace"
  and "list all modules"; the empty `modules_path` at line 42 makes add put the link into the
  working directory, where list does not look.

Also in the model, without a document that says otherwise: a group stop is resumed
with PTRACE_SYSCALL, so Ctrl-Z does not hold a traced program; SIGCONT and SIGTRAP
sent to a program are swallowed; after a GETREGS error the toggle is off by one stop;
after a SETREGS error the tracee stays stopped; a refused open runs when `last_syscall`
held its number; wordexp out of memory loses its words; `list --clean` reports links as
removed that it could not remove; jobs in the background keep prom running;
the five unhandled failures of `Filesystem`; the four ways to a stale size of `Shell`; a
lone escape is followed by a junk character, and answers of the terminal wait for a
key (`Input`); out of memory, `list --clean` removes a module that loads (`Modules`).

## Not modelled

- Of libtracer: register contents beyond `orig_rax` and `rax`; changes a `syscall`
  callback makes to the registers (but for a failing PTRACE_SETREGS); vfork (children of vfork are not traced, the
  options at `tracer.c:30` lack TRACEVFORK); exec details; several threads
  of the tracer.
- Drawing (`print_cell`, `damage_callback`, `movecursor_callback`, the status bar's text and
  colours): output with no effect on what the rest does. `meta(stdscr, false)`, which strips
  the eighth bit of keys: bytes have no bits here.
- `dga_shrink`, `dga_dup`: called nowhere. `size_t` overflow of lengths: they count directory
  entries.
- Dispatch in `main.c`, `prom.c` and `prom-shell.c`: no state. Logging, templates, the two
  example programs, build files, tests.
- A start-up step that fails after fork leaves the child stopped for ever (`shell.c:326`; in
  the model the child stays "waiting"): no property is stated, as fcntl cannot fail there
  in practice. Failing `malloc` for the status bar and `fopen` of the log: the process is
  gone at once.
- `ENABLED`, liveness and recursion are beyond the prover: all liveness properties are
  only model-checked.
