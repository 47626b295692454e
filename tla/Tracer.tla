------------------------------- MODULE Tracer -------------------------------
(***************************************************************************)
(* libtracer: the handshake tracee_init/tracer_init and the non-blocking   *)
(* tracer_loop with the handlers it dispatches to (libtracer/tracer.c),    *)
(* beside the part of Linux that they are written against: processes that  *)
(* make system calls and receive signals, and ptrace-stops of tracees that *)
(* were seized with TRACEFORK, TRACECLONE, TRACESYSGOOD and TRACEEXIT.     *)
(*                                                                         *)
(* The tracer runs one handler at a time, but the other tracees run on and *)
(* any process may be killed between two of its ptrace calls, so each      *)
(* ptrace call of a handler is an action of its own.                       *)
(***************************************************************************)
EXTENDS Integers

CONSTANTS
  Procs,       \* process ids the kernel can hand out
  Root,        \* the child forked by the tracing program
  Paths,       \* paths that programs open
  NoPath,      \* the empty string read_string returns when PEEKTEXT fails
  AccModes,    \* flags & O_ACCMODE of the opens
  OtherCalls,  \* numbers of calls that only compute a value
  Signals,     \* signals sent to the programs
  Cbs,         \* the struct tracer_callbacks members that are not NULL
  DenyRead,    \* paths for which file_read returns -1
  DenyWrite,   \* paths for which file_write returns -1
  Faults,      \* the rare failures the environment may produce
  MaxCalls     \* bound on the calls of one process

SYS_clone      == 56
SYS_exit_group == 231
SYS_openat     == 257
EPERM  == 1
ENOENT == 2
EAGAIN == 11
ENOSYS == 38
O_RDONLY == 0
O_WRONLY == 1
O_RDWR   == 2
SIGTRAP == 5
SIGCONT == 18
SIGSTOP == 19
SIGTSTP == 20
NoSignal == 0
StopSignals == {SIGSTOP, SIGTSTP}
SignalNumbers == 1..64

NotRun    == 1   \* no call of the model returns it
Callbacks == {"syscall", "file_read", "file_write"}

Calls ==
  [nr : {SYS_openat}, path : Paths \cup {NoPath}, acc : AccModes]
    \cup [nr : OtherCalls \cup {SYS_clone, SYS_exit_group},
          path : {NoPath}, acc : {O_RDONLY}]

ASSUME TracerAssumption ==
  /\ Root \in Procs
  /\ NoPath \notin Paths
  /\ AccModes \subseteq 0..3
  /\ OtherCalls \subseteq Nat \ {SYS_clone, SYS_exit_group, SYS_openat}
  /\ Signals \subseteq SignalNumbers
  /\ Cbs \subseteq Callbacks
  /\ DenyRead \subseteq Paths \cup {NoPath}
  /\ DenyWrite \subseteq Paths \cup {NoPath}
  /\ Faults \subseteq {"eintr", "getregs", "setregs", "malloc"}
  /\ MaxCalls \in Nat

VARIABLES
  (* processes, as the kernel keeps them *)
  st,      \* where each process is
  sig,     \* the signal of a "signal" or "group" stop
  seen,    \* waitpid has returned the current stop
  pend,    \* pending signals
  intr,    \* PTRACE_INTERRUPT has set a trap that Root has not taken yet
  seized,  \* Root is a tracee (every process cloned later is one from birth)
  ncalls,  \* calls made so far
  call,    \* the last call, as the program made it
  regs,    \* orig_rax and rax
  (* the tracer *)
  pc,      \* the next ptrace or wait call of the tracer
  cur,     \* pid_curr
  last,    \* static long last_syscall
  treg,    \* the handler's copy of the registers
  perm,    \* handle_syscalls' perm
  inj,     \* the signal PTRACE_SYSCALL will inject
  (* history *)
  obs      \* what happened to the last call of each process

procVars == <<st, sig, seen, pend, intr, seized, ncalls, call, regs>>
loopVars == <<pc, cur, last, treg, perm, inj>>
vars == <<procVars, loopVars, obs>>

SyscallStops == {"entry", "exit"}
EventStops   == {"fork", "exitev", "trap"}  \* WSTOPSIG is SIGTRAP
Stops        == SyscallStops \cup EventStops \cup {"group", "signal"}
Dead         == {"absent", "zombie", "gone"}
Places       == Stops \cup Dead \cup {"born", "jobstop", "user", "kernel"}
Handling     == {"getregs", "openat", "setregs", "resume"}
-----------------------------------------------------------------------------
NoCall  == [nr |-> -1, path |-> NoPath, acc |-> O_RDONLY]
NoRegs  == [nr |-> -1, ax |-> 0]
NewObs  == [n |-> [cb \in Callbacks |-> 0], denied |-> FALSE, oom |-> FALSE,
            clean |-> TRUE, stale |-> FALSE, dropped |-> FALSE, ret |-> NotRun]

Init ==
  /\ st = [p \in Procs |-> IF p = Root THEN "born" ELSE "absent"]
  /\ sig = [p \in Procs |-> NoSignal]
  /\ seen = [p \in Procs |-> FALSE]
  /\ pend = [p \in Procs |-> {}]
  /\ intr = FALSE
  /\ seized = FALSE
  /\ ncalls = [p \in Procs |-> 0]
  /\ call = [p \in Procs |-> NoCall]
  /\ regs = [p \in Procs |-> NoRegs]
  /\ pc = "init_wait"
  /\ cur = Root
  /\ last = -1
  /\ treg = NoRegs
  /\ perm = 0
  /\ inj = NoSignal
  /\ obs = [p \in Procs |-> NewObs]
-----------------------------------------------------------------------------
(* The kernel side.                                                        *)

\* Posting SIGCONT discards pending stop signals, and the other way round.
Post(p, s) ==
  LET stale == IF s = SIGCONT THEN StopSignals
               ELSE IF s \in StopSignals THEN {SIGCONT} ELSE {}
  IN [pend EXCEPT ![p] = (@ \ stale) \cup {s}]

\* p moves to a stop that waitpid has yet to report.
StopAt(p, where) ==
  /\ st' = [st EXCEPT ![p] = where]
  /\ seen' = [seen EXCEPT ![p] = FALSE]

\* tracee_init: the child stops itself before it executes anything else.
TraceeInit ==
  /\ st[Root] = "born"
  /\ st' = [st EXCEPT ![Root] = IF seized THEN "user" ELSE "jobstop"]
  /\ pend' = IF seized THEN Post(Root, SIGSTOP) ELSE pend
  /\ UNCHANGED <<sig, seen, intr, seized, ncalls, call, regs, loopVars, obs>>

\* The trap of PTRACE_INTERRUPT; a child that had not stopped itself yet
\* still will.
InterruptTrap ==
  /\ intr
  /\ st[Root] \in {"born", "user"}
  /\ StopAt(Root, "trap")
  /\ intr' = FALSE
  /\ pend' = IF st[Root] = "born" THEN Post(Root, SIGSTOP) ELSE pend
  /\ UNCHANGED <<sig, seized, ncalls, call, regs, loopVars, obs>>

SendSignal(p, s) ==
  /\ st[p] \notin Dead \cup {"born", "jobstop"}
  /\ pend' = Post(p, s)
  /\ UNCHANGED <<st, sig, seen, intr, seized, ncalls, call, regs, loopVars, obs>>

\* Signals are taken on the way back to user mode, after a pending trap.
SignalStop(p, s) ==
  /\ st[p] = "user"
  /\ p = Root => ~intr
  /\ s \in pend[p]
  /\ StopAt(p, "signal")
  /\ sig' = [sig EXCEPT ![p] = s]
  /\ pend' = [pend EXCEPT ![p] = @ \ {s}]
  /\ UNCHANGED <<intr, seized, ncalls, call, regs, loopVars, obs>>

\* A program makes a call: the syscall-entry-stop, with rax = -ENOSYS.
EnterCall(p, c) ==
  /\ st[p] = "user"
  /\ p = Root => ~intr
  /\ pend[p] = {}
  /\ ncalls[p] < MaxCalls
  /\ StopAt(p, "entry")
  /\ ncalls' = [ncalls EXCEPT ![p] = @ + 1]
  /\ call' = [call EXCEPT ![p] = c]
  /\ regs' = [regs EXCEPT ![p] = [nr |-> c.nr, ax |-> -ENOSYS]]
  /\ obs' = [obs EXCEPT ![p] = NewObs]
  /\ UNCHANGED <<sig, pend, intr, seized, loopVars>>

\* The kernel finishes the call with result r: the syscall-exit-stop.
Finish(p, r) ==
  /\ StopAt(p, "exit")
  /\ regs' = [regs EXCEPT ![p].ax = r]
  /\ obs' = [obs EXCEPT ![p].ret = r]
  /\ UNCHANGED <<sig, pend, intr, seized, ncalls, call, loopVars>>

\* A negative number is no call: the kernel leaves rax alone.
SkipCall(p) ==
  /\ st[p] = "kernel"
  /\ regs[p].nr < 0
  /\ StopAt(p, "exit")
  /\ UNCHANGED <<sig, pend, intr, seized, ncalls, call, regs, loopVars, obs>>

ExecOpen(p) ==
  /\ st[p] = "kernel"
  /\ regs[p].nr = SYS_openat
  /\ \/ Finish(p, -ENOENT)
     \/ call[p].path # NoPath /\ Finish(p, 0)

ExecOther(p) ==
  /\ st[p] = "kernel"
  /\ regs[p].nr \in OtherCalls
  /\ Finish(p, 0)

\* The new process is attached with the parent's options and starts in a
\* PTRACE_EVENT_STOP; the parent reports PTRACE_EVENT_FORK or _CLONE.
ExecClone(p, c) ==
  /\ st[p] = "kernel"
  /\ regs[p].nr = SYS_clone
  /\ st[c] = "absent"
  /\ st' = [st EXCEPT ![p] = "fork", ![c] = "trap"]
  /\ seen' = [seen EXCEPT ![p] = FALSE, ![c] = FALSE]
  /\ regs' = [regs EXCEPT ![p].ax = 0]
  /\ obs' = [obs EXCEPT ![p].ret = 0]
  /\ UNCHANGED <<sig, pend, intr, seized, ncalls, call, loopVars>>

CloneFails(p) ==
  /\ st[p] = "kernel"
  /\ regs[p].nr = SYS_clone
  /\ \A c \in Procs : st[c] # "absent"
  /\ Finish(p, -EAGAIN)

ExecExit(p) ==
  /\ st[p] = "kernel"
  /\ regs[p].nr = SYS_exit_group
  /\ StopAt(p, "exitev")
  /\ UNCHANGED <<sig, pend, intr, seized, ncalls, call, regs, loopVars, obs>>

\* SIGKILL ends any stop at once; PTRACE_EVENT_EXIT may or may not be seen.
Kill(p) ==
  /\ st[p] \notin Dead
  /\ \/ StopAt(p, "zombie")
     \/ st[p] # "exitev" /\ (p = Root => seized) /\ StopAt(p, "exitev")
  /\ UNCHANGED <<sig, pend, intr, seized, ncalls, call, regs, loopVars, obs>>

\* PTRACE_SYSCALL on a stopped tracee, injecting signal s.
PtraceSyscall(p, s) ==
  /\ st[p] \in Stops
  /\ \/ st[p] = "entry" /\ st' = [st EXCEPT ![p] = "kernel"]
                        /\ UNCHANGED <<sig, seen>>
     \/ st[p] \in {"exit", "trap", "group"}
        /\ st' = [st EXCEPT ![p] = "user"] /\ UNCHANGED <<sig, seen>>
     \/ st[p] = "fork" /\ StopAt(p, "exit") /\ UNCHANGED sig
     \/ st[p] = "exitev" /\ st' = [st EXCEPT ![p] = "zombie"]
                         /\ UNCHANGED <<sig, seen>>
     \/ /\ st[p] = "signal"
        /\ s \in StopSignals
        /\ StopAt(p, "group")
        /\ sig' = [sig EXCEPT ![p] = s]
     \/ /\ st[p] = "signal"
        /\ s \notin StopSignals
        /\ st' = [st EXCEPT ![p] = "user"]
        /\ UNCHANGED <<sig, seen>>
  /\ UNCHANGED <<pend, intr, seized, ncalls, call, regs>>
-----------------------------------------------------------------------------
(* tracer_init: every failure leaves it, and its callers go on regardless. *)

\* Faulty variant: waitpid without WSTOPPED only returns when the child ends.
InitWaitForExit ==
  /\ pc = "init_wait"
  /\ st[Root] = "zombie" /\ st' = [st EXCEPT ![Root] = "gone"]
  /\ pc' = "init_seize"
  /\ UNCHANGED <<sig, seen, pend, intr, seized, ncalls, call, regs,
                 cur, last, treg, perm, inj, obs>>

InitWait ==
  /\ pc = "init_wait"
  /\ \/ st[Root] = "jobstop" /\ UNCHANGED st
     \/ st[Root] = "zombie" /\ st' = [st EXCEPT ![Root] = "gone"]
     \/ "eintr" \in Faults /\ UNCHANGED st
  /\ pc' = "init_seize"
  /\ UNCHANGED <<sig, seen, pend, intr, seized, ncalls, call, regs,
                 cur, last, treg, perm, inj, obs>>

\* Seizing a stopped process turns its job-control stop into a ptrace-stop.
InitSeize ==
  /\ pc = "init_seize"
  /\ \/ /\ st[Root] \in Dead
        /\ pc' = "wait"
        /\ UNCHANGED <<st, sig, seized>>
     \/ /\ st[Root] \notin Dead
        /\ pc' = "init_interrupt"
        /\ seized' = TRUE
        /\ IF st[Root] = "jobstop"
             THEN /\ st' = [st EXCEPT ![Root] = "group"]
                  /\ sig' = [sig EXCEPT ![Root] = SIGSTOP]
             ELSE UNCHANGED <<st, sig>>
  /\ UNCHANGED <<seen, pend, intr, ncalls, call, regs,
                 cur, last, treg, perm, inj, obs>>

InitInterrupt ==
  /\ pc = "init_interrupt"
  /\ \/ st[Root] \in Dead /\ pc' = "wait" /\ UNCHANGED intr
     \/ st[Root] \notin Dead /\ pc' = "init_resume" /\ intr' = TRUE
  /\ UNCHANGED <<st, sig, seen, pend, seized, ncalls, call, regs,
                 cur, last, treg, perm, inj, obs>>

InitResume ==
  /\ pc = "init_resume"
  /\ \/ st[Root] \in Stops /\ PtraceSyscall(Root, NoSignal) /\ pc' = "init_cont"
     \/ st[Root] \notin Stops /\ UNCHANGED procVars /\ pc' = "wait"
  /\ UNCHANGED <<cur, last, treg, perm, inj, obs>>

InitCont ==
  /\ pc = "init_cont"
  /\ pend' = IF st[Root] \in Dead THEN pend ELSE Post(Root, SIGCONT)
  /\ pc' = "wait"
  /\ UNCHANGED <<st, sig, seen, intr, seized, ncalls, call, regs,
                 cur, last, treg, perm, inj, obs>>
-----------------------------------------------------------------------------
(* tracer_loop and its handlers.                                           *)

WStopSig(p) == IF st[p] \in SyscallStops THEN SIGTRAP + 128
               ELSE IF st[p] \in EventStops THEN SIGTRAP ELSE sig[p]

\* Faulty variants: the events are left to a callback that never resumes the
\* process; no signal is passed on.
DispatchDropsEvents(s) == IF s = SIGTRAP + 128 THEN "getregs"
                          ELSE IF s = SIGTRAP THEN "wait" ELSE "resume"
PassOnNothing(s) == NoSignal

\* What handle_stopped does next on signal s, and the signal it passes on.
Dispatch(s) == IF s = SIGTRAP + 128 THEN "getregs" ELSE "resume"
PassOn(s)   == IF s \in {SIGTRAP + 128, SIGTRAP, SIGCONT} THEN NoSignal ELSE s

\* waitpid returns a stop, which handle_stopped dispatches on its signal.
HandleStopped(p) ==
  /\ pc = "wait"
  /\ st[p] \in Stops
  /\ ~seen[p]
  /\ seen' = [seen EXCEPT ![p] = TRUE]
  /\ cur' = p
  /\ pc' = Dispatch(WStopSig(p))
  /\ inj' = PassOn(WStopSig(p))
  /\ UNCHANGED <<st, sig, pend, intr, seized, ncalls, call, regs,
                 last, treg, perm, obs>>

\* waitpid returns the end of a process: tracer_loop only reaps it.
ReapExited(p) ==
  /\ pc = "wait"
  /\ st[p] = "zombie"
  /\ st' = [st EXCEPT ![p] = "gone"]
  /\ UNCHANGED <<sig, seen, pend, intr, seized, ncalls, call, regs, loopVars, obs>>

Bump(n, cbs) == [cb \in Callbacks |-> n[cb] + (IF cb \in cbs THEN 1 ELSE 0)]

\* One variable tells entries from exits, whichever process is stopped.
ToggleNever(syscall) == syscall  \* faulty variant: exits look like entries

Toggle(syscall) == IF last = syscall THEN -1 ELSE syscall

StalePerm   == perm  \* faulty variant: perm outlives the handler
InitialPerm == 0

\* handle_syscalls up to the syscall callback. A call is clean if its registers
\* were read at both its stops and no other process's in between; it is stale
\* if last held its number when it was entered.
GetRegs ==
  /\ pc = "getregs"
  /\ st[cur] \in Stops
  /\ treg' = regs[cur]
  /\ last' = Toggle(regs[cur].nr)
  /\ perm' = InitialPerm
  /\ pc' = IF last' # -1 /\ regs[cur].nr = SYS_openat THEN "openat" ELSE "setregs"
  /\ obs' = [p \in Procs |->
       IF p = cur
         THEN [obs[p] EXCEPT
                 !.n = Bump(@, IF last' # -1 THEN Cbs \cap {"syscall"} ELSE {}),
                 !.clean = @ \/ st[p] = "entry",
                 !.stale = IF st[p] = "entry" THEN last = regs[p].nr ELSE @]
         ELSE [obs[p] EXCEPT !.clean = FALSE]]
  /\ UNCHANGED <<procVars, cur, inj>>

\* The process is gone (ESRCH): return without resuming anything.
GetRegsGone ==
  /\ pc = "getregs"
  /\ st[cur] \notin Stops
  /\ pc' = "wait"
  /\ UNCHANGED <<procVars, cur, last, treg, perm, inj, obs>>

\* Faulty variant: every error returns at once.
GetRegsFailsReturns ==
  /\ pc = "getregs"
  /\ "getregs" \in Faults
  /\ pc' = "wait"
  /\ obs' = [obs EXCEPT ![cur].clean = FALSE]
  /\ UNCHANGED <<procVars, cur, last, treg, perm, inj>>

\* Any other error: resume without looking at the call.
GetRegsFails ==
  /\ pc = "getregs"
  /\ "getregs" \in Faults
  /\ pc' = "resume"
  /\ obs' = [obs EXCEPT ![cur].clean = FALSE]
  /\ UNCHANGED <<procVars, cur, last, treg, perm, inj>>

Reads(acc)  == acc \in {O_RDONLY, O_RDWR}
Writes(acc) == acc \in {O_WRONLY, O_RDWR}

\* The file callbacks an open with mode acc is reported to.
Asked(acc) == Cbs \cap ((IF Reads(acc) THEN {"file_read"} ELSE {})
                          \cup (IF Writes(acc) THEN {"file_write"} ELSE {}))

Refuses(acc, path) == \/ "file_read" \in Asked(acc) /\ path \in DenyRead
                      \/ "file_write" \in Asked(acc) /\ path \in DenyWrite

\* Faulty variant: the callbacks' results are added up.
VerdictSum(acc, path) ==
  (IF "file_read" \in Asked(acc) /\ path \in DenyRead THEN -1 ELSE 0)
    + (IF "file_write" \in Asked(acc) /\ path \in DenyWrite THEN -1 ELSE 0)

\* What syscall_openat returns.
Verdict(acc, path) == IF Refuses(acc, path) THEN -1 ELSE 0

\* syscall_openat: the path is peeked word by word, so a process that has
\* died meanwhile yields the empty string.
SyscallOpenat ==
  /\ pc = "openat"
  /\ LET acc  == call[cur].acc
         path == IF st[cur] \in Stops THEN call[cur].path ELSE NoPath
     IN /\ perm' = Verdict(acc, path)
        /\ obs' = [obs EXCEPT ![cur].n = Bump(@, Asked(acc)),
                              ![cur].denied = @ \/ Refuses(acc, path)]
  /\ pc' = "setregs"
  /\ UNCHANGED <<procVars, cur, last, treg, inj>>

\* read_string runs out of memory: no callback, the open goes ahead.
ReadStringFails ==
  /\ pc = "openat"
  /\ "malloc" \in Faults
  /\ perm' = 0
  /\ obs' = [obs EXCEPT ![cur].oom = TRUE]
  /\ pc' = "setregs"
  /\ UNCHANGED <<procVars, cur, last, treg, inj>>

\* Faulty variants: a refusal changes only one of the two registers.
RefusalKeepsNr(r) == [nr |-> r.nr, ax |-> -EPERM]
RefusalKeepsAx(r) == [nr |-> -EPERM, ax |-> r.ax]

\* The registers of a refused call: no call to run, and its result.
Refusal(r) == [nr |-> -EPERM, ax |-> -EPERM]

SetRegs ==
  /\ pc = "setregs"
  /\ st[cur] \in Stops
  /\ regs' = [regs EXCEPT ![cur] = IF perm = -1 THEN Refusal(treg) ELSE treg]
  /\ pc' = "resume"
  /\ treg' = NoRegs
  /\ UNCHANGED <<st, sig, seen, pend, intr, seized, ncalls, call,
                 cur, last, perm, inj, obs>>

\* The process is gone, or the registers are refused (the syscall callback may
\* have changed them): return without resuming, whether it is stopped or not.
SetRegsFails ==
  /\ pc = "setregs"
  /\ \/ st[cur] \notin Stops /\ UNCHANGED obs
     \/ /\ st[cur] \in Stops
        /\ "setregs" \in Faults
        /\ obs' = [obs EXCEPT ![cur].dropped = TRUE]
  /\ pc' = "wait"
  /\ treg' = NoRegs
  /\ UNCHANGED <<procVars, cur, last, perm, inj>>

Resume ==
  /\ pc = "resume"
  /\ \/ st[cur] \in Stops /\ PtraceSyscall(cur, inj)
     \/ st[cur] \notin Stops /\ UNCHANGED procVars
  /\ pc' = "wait"
  /\ UNCHANGED <<cur, last, treg, perm, inj, obs>>
-----------------------------------------------------------------------------
TracerInit == InitWait \/ InitSeize \/ InitInterrupt \/ InitResume \/ InitCont

TracerLoop ==
  \/ \E p \in Procs : HandleStopped(p) \/ ReapExited(p)
  \/ GetRegs \/ GetRegsGone \/ GetRegsFails
  \/ SyscallOpenat \/ ReadStringFails
  \/ SetRegs \/ SetRegsFails \/ Resume

Exec(p) ==
  \/ SkipCall(p) \/ ExecOpen(p) \/ ExecOther(p) \/ CloneFails(p) \/ ExecExit(p)
  \/ \E c \in Procs : ExecClone(p, c)

Kernel ==
  \/ TraceeInit \/ InterruptTrap
  \/ \E p \in Procs :
       \/ Kill(p)
       \/ \E s \in Signals : SendSignal(p, s)
       \/ \E s \in pend[p] : SignalStop(p, s)
       \/ \E c \in Calls : EnterCall(p, c)
       \/ Exec(p)

Next == TracerInit \/ TracerLoop \/ Kernel

Spec == Init /\ [][Next]_vars

\* The embedding program calls tracer_loop for ever; the forked child runs until
\* it stops itself, and takes its signals before it does anything else.
Fairness == /\ WF_vars(TracerInit \/ TracerLoop)
            /\ WF_vars(TraceeInit \/ InterruptTrap)
            /\ WF_vars(\E s \in pend[Root] : SignalStop(Root, s))

FairSpec == Spec /\ Fairness
-----------------------------------------------------------------------------
Regs == [nr : Int, ax : Int]
Observations == [n : [Callbacks -> Nat], denied : BOOLEAN, oom : BOOLEAN,
                 clean : BOOLEAN, stale : BOOLEAN, dropped : BOOLEAN, ret : Int]

\* Every variable stays in its type.
TypeOK ==
  /\ st \in [Procs -> Places]
  /\ sig \in [Procs -> SignalNumbers \cup {NoSignal}]
  /\ seen \in [Procs -> BOOLEAN]
  /\ pend \in [Procs -> SUBSET SignalNumbers]
  /\ intr \in BOOLEAN
  /\ seized \in BOOLEAN
  /\ ncalls \in [Procs -> 0..MaxCalls]
  /\ call \in [Procs -> Calls \cup {NoCall}]
  /\ regs \in [Procs -> Regs]
  /\ pc \in {"init_wait", "init_seize", "init_interrupt", "init_resume",
             "init_cont", "wait"} \cup Handling
  /\ cur \in Procs
  /\ last \in Int
  /\ treg \in Regs
  /\ perm \in {-1, 0}
  /\ inj \in SignalNumbers \cup {NoSignal}
  /\ obs \in [Procs -> Observations]

\* The program has got the result of its last call.
Completed(p) == st[p] = "user" /\ ncalls[p] > 0

\* p was left in the syscall-stop for which PTRACE_SETREGS failed.
Dropped(p) == st[p] \in SyscallStops /\ obs[p].dropped

\* A stop that waitpid has returned is being handled: the one error path that
\* drops a tracee, which then stays stopped for ever, is that of a failing
\* PTRACE_SETREGS (tracer.c:138-143); a failing PTRACE_GETREGS, a refused or an
\* unreadable path and the deaths of other tracees drop none.
NoForgottenStop ==
  \A p \in Procs : st[p] \in Stops /\ seen[p] =>
    (cur = p /\ pc \in Handling) \/ Dropped(p)

\* Whatever the interleaving, a callback's -1 reaches the calling program
\* as a permission error (the promise of tracer.h:44-46).
DeniedSeesEPERM ==
  \A p \in Procs : Completed(p) /\ obs[p].denied => regs[p].ax = -EPERM

\* Whatever the interleaving, a call no callback refused is executed once
\* and its result reaches the program unchanged.
UndeniedUntouched ==
  \A p \in Procs : Completed(p) /\ ~obs[p].denied =>
    obs[p].ret # NotRun /\ regs[p].ax = obs[p].ret

\* How often each callback should hear of call c.
Expected(c) ==
  Bump([cb \in Callbacks |-> 0],
       (Cbs \cap {"syscall"}) \cup (IF c.nr = SYS_openat THEN Asked(c.acc) ELSE {}))

\* A call is reported to each callback exactly as often as it should be if no
\* other tracee's syscall-stop was handled between its two, PTRACE_GETREGS
\* failed at neither, and there was memory for its path; even if its entry
\* is taken for an exit and its exit for an entry.
CleanReportedOnce ==
  \A p \in Procs : Completed(p) /\ obs[p].clean /\ ~obs[p].oom =>
    obs[p].n = Expected(call[p])

\* Under the same conditions a call is refused exactly if a callback refuses its
\* path, and a refused call is executed all the same exactly if last_syscall
\* held its number when it was entered (left there by a tracee that died in
\* such a call, or is still in it): the refusal then falls on the exit stop
\* (tracer.c:122, 133-136).
CleanDenialsDecided ==
  \A p \in Procs : Completed(p) /\ obs[p].clean /\ ~obs[p].oom =>
    /\ obs[p].denied <=> /\ call[p].nr = SYS_openat
                         /\ Refuses(call[p].acc, call[p].path)
    /\ obs[p].denied => (obs[p].ret = NotRun <=> ~obs[p].stale)

\* With one tracee nothing can interleave: every call is reported exactly as
\* often as it should be ("outputs all file reads that ls makes",
\* libtracer/README.md:59).
SingleReportedOnce ==
  Procs = {Root} =>
    \A p \in Procs : Completed(p) /\ Faults \cap {"getregs", "malloc"} = {} =>
      obs[p].n = Expected(call[p])

\* The phase of Root's call, as the monitor sees it.
Phase ==
  CASE st[Root] \in Dead \cup {"exitev"} -> "dead"
    [] st[Root] = "entry" -> "issued"
    [] st[Root] = "kernel" -> IF regs[Root].nr < 0 THEN "refused" ELSE "granted"
    [] st[Root] \in {"exit", "fork"} ->
         IF obs[Root].ret = NotRun THEN "refused" ELSE "performed"
    [] OTHER -> "run"

Result == CASE Phase = "dead" -> 0
            [] Phase = "issued" -> -ENOSYS
            [] OTHER -> regs[Root].ax

RefusedCalls == {c \in Calls : c.nr = SYS_openat /\ Refuses(c.acc, c.path)}

Monitor == INSTANCE OpenMonitor WITH phase <- Phase, call <- call[Root], res <- Result

\* The tracer of a single process implements the monitor: the decision falls
\* between the two syscall-stops of a call, and the exit stop changes nothing.
ImplementsMonitor == Monitor!Spec

\* handle_stopped passes a signal on to the process it was stopped for, except
\* SIGTRAP, SIGCONT and the start-up stop that tracer_init's own
\* PTRACE_SYSCALL may consume.
SignalsReinjected ==
  [][\A p \in Procs :
       st[p] = "signal" /\ st'[p] \in {"user", "group"} /\ pc # "init_resume" =>
         /\ cur = p
         /\ inj = IF sig[p] \in {SIGTRAP, SIGCONT} THEN NoSignal ELSE sig[p]
         /\ st'[p] = "group" <=> sig[p] \in StopSignals]_vars

\* The syscall callback "gets called before every syscall entry"
\* (libtracer/README.md:82).
SyscallCbBeforeEntry ==
  \A p \in Procs : st[p] = "kernel" /\ "syscall" \in Cbs => obs[p].n["syscall"] = 1

\* A stopped tracee is resumed or dies: tracer_loop leaves no process hanging
\* but one whose registers PTRACE_SETREGS refused (tracer.c:138-143).
StopsResumed == \A p \in Procs : st[p] \in Stops ~> st[p] \notin Stops \/ Dropped(p)

\* The forked child gets past the handshake, and past the stop that it raises
\* itself, and runs on, or has died; even when tracer_init's unchecked
\* waitpid (tracer.c:28) returned before that stop.
ShellStarts ==
  <>((st[Root] = "user" /\ SIGSTOP \notin pend[Root] /\ ~intr) \/ st[Root] \in Dead)
=============================================================================
