----------------------- MODULE TracerReportProofs -----------------------
(***************************************************************************)
(* Machine-checked proofs of what the callbacks are told: a call that no   *)
(* stop of another tracee interrupted is reported once to each callback    *)
(* and refused exactly if one of them refuses it, although entries and     *)
(* exits are told apart only by comparing with last_syscall; a last_syscall*)
(* left by another tracee moves the report, and the refusal, to the exit.  *)
(***************************************************************************)
EXTENDS TracerProofs

(* tracer_init resumes the child before it has made any call.              *)

Early == {"init_wait", "init_seize", "init_interrupt", "init_resume"}

Handshake ==
  pc \in Early =>
    /\ st[Root] \notin {"entry", "kernel", "exit", "fork"}
    /\ st[Root] = "user" => pend[Root] # {}

\* A posted signal is pending, and posting to one process says nothing of
\* the signals of another.
LEMMA Posted ==
  ASSUME NEW p \in Procs, NEW s, pend \in [Procs -> SUBSET SignalNumbers]
  PROVE  /\ Post(p, s)[p] # {}
         /\ \A q \in Procs \ {p} : Post(p, s)[q] = pend[q]
BY DEF Post

\* The child of tracee_init stops itself or has its SIGSTOP pending until
\* tracer_init resumes it, so it enters no call before that.
LEMMA HandshakeInvariant == Spec => []Handshake
<1> USE TracerAssumption DEF TracerAssumption
<1>1. Init => Handshake
  BY DEF Init, Handshake
<1>2. TypeOK /\ Handshake /\ [Next]_vars => Handshake'
  <2> SUFFICES ASSUME TypeOK, Handshake, [Next]_vars, pc' \in Early
               PROVE  /\ st'[Root] \notin {"entry", "kernel", "exit", "fork"}
                      /\ st'[Root] = "user" => pend'[Root] # {}
    BY DEF Handshake
  <2>1. CASE TracerInit
    <3>1. pc \in Early
      BY <2>1 DEF TracerInit, InitWait, InitSeize, InitInterrupt, InitResume, InitCont, Early
    <3>2. CASE InitWait \/ InitSeize
      BY <3>1, <3>2 DEF Handshake, InitWait, InitSeize, TypeOK
    <3>3. CASE InitInterrupt
      BY <3>1, <3>3 DEF Handshake, InitInterrupt
    <3>4. pc' \notin Early \/ InitWait \/ InitSeize \/ InitInterrupt
      BY <2>1 DEF TracerInit, InitResume, InitCont, Early
    <3> QED BY <3>2, <3>3, <3>4
  <2>2. CASE TracerLoop
    <3>1. pc' \notin Early
      BY <2>2 DEF TracerLoop, HandleStopped, ReapExited, GetRegs, GetRegsGone, GetRegsFails,
                  SyscallOpenat, ReadStringFails, SetRegs, SetRegsFails, Resume, Dispatch,
                  Early, loopVars
    <3> QED BY <3>1
  <2>3. CASE Kernel
    <3>1. pc \in Early
      BY <2>3 DEF Kernel, Exec, TraceeInit, InterruptTrap, Kill, SendSignal, SignalStop,
                  EnterCall, SkipCall, ExecOpen, ExecOther, CloneFails, ExecExit, ExecClone,
                  Finish, loopVars
    <3>2. CASE TraceeInit \/ InterruptTrap
      BY <3>2, Posted DEF TraceeInit, InterruptTrap, StopAt, TypeOK
    <3>3. ASSUME NEW p \in Procs, Kill(p) PROVE Handshake'
      BY <3>1, <3>3 DEF Handshake, Kill, StopAt, TypeOK
    <3>4. ASSUME NEW p \in Procs, NEW s \in Signals, SendSignal(p, s) PROVE Handshake'
      BY <3>1, <3>4, Posted DEF Handshake, SendSignal, TypeOK
    <3>5. ASSUME NEW p \in Procs, NEW s \in pend[p], SignalStop(p, s) PROVE Handshake'
      BY <3>1, <3>5 DEF Handshake, SignalStop, StopAt, TypeOK
    <3>6. ASSUME NEW p \in Procs, NEW c \in Calls, EnterCall(p, c) PROVE Handshake'
      BY <3>1, <3>6 DEF Handshake, EnterCall, StopAt, TypeOK
    <3>7. ASSUME NEW p \in Procs, Exec(p) PROVE Handshake'
      <4>1. st[p] = "kernel" /\ pend' = pend
        BY <3>7 DEF Exec, SkipCall, ExecOpen, ExecOther, CloneFails, ExecExit, ExecClone, Finish
      <4>2. p # Root
        BY <3>1, <4>1 DEF Handshake
      <4>3. st'[Root] = st[Root] \/ st'[Root] = "trap"
        BY <3>7, <4>2 DEF Exec, SkipCall, ExecOpen, ExecOther, CloneFails, ExecExit, ExecClone,
                          Finish, StopAt, TypeOK
      <4> QED BY <3>1, <4>1, <4>3 DEF Handshake
    <3> QED BY <2>3, <3>2, <3>3, <3>4, <3>5, <3>6, <3>7 DEF Kernel, Handshake
  <2>4. CASE UNCHANGED vars
    BY <2>4 DEF Handshake, vars, procVars, loopVars
  <2> QED BY <2>1, <2>2, <2>3, <2>4 DEF Next
<1> QED BY <1>1, <1>2, TypeCorrect, PTL DEF Spec
-----------------------------------------------------------------------------
(* Every clean call is reported as it should be. While no other process's   *)
(* stop comes between, `last` keeps its value from the entry of a call to    *)
(* its exit (Owes). If the handler took the entry for one, the call has been *)
(* reported by then; if not (a stale last_syscall), nothing has been, and    *)
(* the exit is taken for an entry (HalfTold). After it, all is told (Told).  *)

Zero == [cb \in Callbacks |-> 0]

Untold(p) == obs[p].n = Zero

Reported(p) ==
  /\ obs[p].n = Expected(call[p])
  /\ obs[p].denied <=> call[p].nr = SYS_openat /\ Refuses(call[p].acc, call[p].path)
  /\ obs[p].denied => (obs[p].ret = NotRun <=> ~obs[p].stale)

Told(p) == obs[p].clean /\ ~obs[p].oom => Reported(p)

Owes(p) == obs[p].clean => last = IF obs[p].stale THEN -1 ELSE call[p].nr

HalfTold(p) == obs[p].clean => IF obs[p].stale THEN Untold(p) /\ ~obs[p].denied ELSE Told(p)

Numbered(p) == /\ call[p] \in Calls /\ regs[p].nr \in {call[p].nr, -1}
               /\ ~obs[p].denied => regs[p].nr = call[p].nr

AskedSyscall(p) == /\ last = SYS_openat /\ call[p].nr = SYS_openat
                   /\ obs[p].n = Bump(Zero, Cbs \cap {"syscall"})

ReportAtEntry(p) == st[p] = "entry" /\ ~obs[p].dropped =>
  /\ ~Working(p, {"openat", "setregs", "resume"}) => Untold(p)
  /\ Working(p, {"openat"}) /\ obs[p].clean => AskedSyscall(p) /\ ~obs[p].stale
  /\ Working(p, {"setregs", "resume"}) => Owes(p) /\ HalfTold(p)

ReportAtExit(p) == st[p] = "exit" /\ ~obs[p].dropped =>
  /\ ~Working(p, {"openat", "setregs", "resume"}) => Owes(p) /\ HalfTold(p)
  /\ Working(p, {"openat"}) /\ obs[p].clean =>
       AskedSyscall(p) /\ obs[p].stale /\ ~obs[p].denied
  /\ Working(p, {"setregs", "resume"}) => Told(p)

ReportElsewhere(p) ==
  /\ st[p] \in {"kernel", "fork"} => Owes(p) /\ HalfTold(p)
  /\ st[p] \in {"user", "signal", "group", "trap"} /\ ncalls[p] > 0 => Told(p)
  /\ st[p] \in {"entry", "kernel", "fork", "exit"} => Numbered(p)
  /\ Working(p, {"resume"}) => st[p] \in Stops \cup {"zombie"}

ReportOK(p) == ReportAtEntry(p) /\ ReportAtExit(p) /\ ReportElsewhere(p)

ReportInv == \A p \in Procs : ReportOK(p)

\* Another process's stop may make the call of p unclean, and changes nothing
\* else of it.
Heard(p) == /\ call'[p] = call[p]
            /\ obs'[p].n = obs[p].n /\ obs'[p].oom = obs[p].oom
            /\ obs'[p].denied = obs[p].denied /\ obs'[p].ret = obs[p].ret
            /\ obs'[p].stale = obs[p].stale /\ obs'[p].dropped = obs[p].dropped
            /\ obs'[p].clean => obs[p].clean /\ last' = last

Quiet(p) == /\ Heard(p)
            /\ st'[p] = st[p] /\ ncalls'[p] = ncalls[p] /\ regs'[p].nr = regs[p].nr

\* What was told of a call stays told while nothing is heard of it.
LEMMA StaysTold ==
  ASSUME NEW p \in Procs, Heard(p)
  PROVE  /\ Told(p) => Told(p)'
         /\ Owes(p) => Owes(p)'
         /\ Untold(p) => Untold(p)'
         /\ HalfTold(p) => HalfTold(p)'
BY DEF Heard, Told, Owes, Untold, Reported, HalfTold

\* A process that a step leaves alone keeps its part of the invariant when the
\* tracer stays where it is,
LEMMA ReportFrame ==
  ASSUME NEW p \in Procs, ReportOK(p), Quiet(p), UNCHANGED <<cur, pc>>
  PROVE  ReportOK(p)'
BY StaysTold
DEF ReportOK, ReportAtEntry, ReportAtExit, ReportElsewhere, Quiet, Heard, Working,
    AskedSyscall, Numbered

\* and when the tracer works on another one.
LEMMA ReportFrameTracer ==
  ASSUME NEW p \in Procs, ReportOK(p), Quiet(p),
         ~Working(p, Handling), ~Working(p, Handling)'
  PROVE  ReportOK(p)'
BY StaysTold
DEF ReportOK, ReportAtEntry, ReportAtExit, ReportElsewhere, Quiet, Heard, Working,
    Numbered, Handling

\* Processes whose part of the invariant a step has no hand in.
Rest(P) == \A q \in Procs \ P : Quiet(q)

\* PTRACE_SYSCALL takes a call on with what was told of it.
LEMMA ResumeReport ==
  ASSUME NEW p \in Procs, NEW s \in SignalNumbers \cup {NoSignal}, TypeOK, ReportOK(p),
         PtraceSyscall(p, s), pc' \notin Handling, UNCHANGED <<obs, last>>,
         st[p] \in SyscallStops => Working(p, {"resume"}) /\ ~obs[p].dropped
  PROVE  ReportOK(p)'
<1>1. UNCHANGED <<ncalls, call, regs>> /\ Heard(p)
  BY DEF PtraceSyscall, Heard
<1>2. ~Working(p, {"openat", "setregs", "resume"})' /\ ~Working(p, {"openat"})'
      /\ ~Working(p, {"setregs", "resume"})' /\ ~Working(p, {"resume"})'
  BY DEF Working, Handling
<1>3. CASE st[p] = "entry"
  <2>1. Owes(p) /\ HalfTold(p) /\ Numbered(p)
    BY <1>3 DEF ReportOK, ReportAtEntry, ReportElsewhere, Working, SyscallStops
  <2>2. st'[p] = "kernel"
    BY <1>3 DEF PtraceSyscall, TypeOK
  <2> QED BY <1>1, <1>2, <2>1, <2>2, StaysTold
          DEF ReportOK, ReportAtEntry, ReportAtExit, ReportElsewhere, Numbered
<1>4. CASE st[p] = "fork"
  <2>1. Owes(p) /\ HalfTold(p) /\ Numbered(p)
    BY <1>4 DEF ReportOK, ReportElsewhere
  <2>2. st'[p] = "exit"
    BY <1>4 DEF PtraceSyscall, StopAt, TypeOK
  <2> QED BY <1>1, <1>2, <2>1, <2>2, StaysTold
          DEF ReportOK, ReportAtEntry, ReportAtExit, ReportElsewhere, Numbered
<1>5. CASE st[p] \in {"exit", "trap", "group", "signal"}
  <2>1. ncalls[p] > 0 => Told(p)
    BY <1>5 DEF ReportOK, ReportAtExit, ReportElsewhere, Working, SyscallStops
  <2>2. st'[p] \in {"user", "group"}
    BY <1>5 DEF PtraceSyscall, StopAt, TypeOK
  <2> QED BY <1>1, <1>2, <2>1, <2>2, StaysTold
          DEF ReportOK, ReportAtEntry, ReportAtExit, ReportElsewhere
<1>6. CASE st[p] = "exitev"
  <2>1. st'[p] = "zombie"
    BY <1>6 DEF PtraceSyscall, TypeOK
  <2> QED BY <1>2, <2>1 DEF ReportOK, ReportAtEntry, ReportAtExit, ReportElsewhere
<1> QED BY <1>3, <1>4, <1>5, <1>6 DEF PtraceSyscall, Stops, SyscallStops, EventStops

\* The start: no process has made a call.
LEMMA ReportInvInit == Init => ReportInv
<1> SUFFICES ASSUME Init, NEW p \in Procs PROVE ReportOK(p)
  BY DEF ReportInv
<1> QED BY DEF Init, ReportOK, ReportAtEntry, ReportAtExit, ReportElsewhere, Working

\* The kernel's steps keep it: entering a call starts it untold, and the kernel
\* only finishes a call that was not refused.
LEMMA ReportInvKernel == TypeOK /\ CallInv /\ ReportInv /\ Kernel => ReportInv'
<1> SUFFICES ASSUME TypeOK, CallInv, ReportInv, Kernel PROVE ReportInv'
  OBVIOUS
<1> USE TracerAssumption DEF TracerAssumption
<1>1. ASSUME NEW P \in SUBSET Procs, Rest(P), UNCHANGED <<cur, pc>>,
             \A q \in P : ReportOK(q)'
      PROVE  ReportInv'
  BY <1>1, ReportFrame DEF ReportInv, Rest
<1>2. \A p \in Procs : ReportOK(p) /\ CallOK(p)
  BY DEF ReportInv, CallInv
<1>3. CASE TraceeInit \/ InterruptTrap
  <2>1. Rest({Root}) /\ UNCHANGED <<cur, pc, last, ncalls, call, regs, obs>>
    BY <1>3 DEF TraceeInit, InterruptTrap, StopAt, loopVars, TypeOK, Quiet, Heard, Rest
  <2>2. /\ st'[Root] \in {"user", "jobstop", "trap"} /\ st[Root] \in {"born", "user"}
        /\ st[Root] # "born" => st'[Root] = "trap"
    BY <1>3 DEF TraceeInit, InterruptTrap, StopAt, TypeOK
  <2>3. st[Root] = "born" => ncalls[Root] = 0
    BY <1>2 DEF CallOK, Elsewhere
  <2>4. st[Root] = "user" /\ ncalls[Root] > 0 => Told(Root)
    BY <1>2 DEF ReportOK, ReportElsewhere
  <2>5. ~Working(Root, {"resume"})
    BY <1>2, <2>2 DEF ReportOK, ReportElsewhere, Stops, SyscallStops, EventStops
  <2>6. Heard(Root) /\ ~Working(Root, {"resume"})'
    BY <2>1, <2>5 DEF Heard, Working
  <2>7. ReportOK(Root)'
    BY <2>1, <2>2, <2>3, <2>4, <2>6, StaysTold
    DEF ReportOK, ReportAtEntry, ReportAtExit, ReportElsewhere
  <2> QED BY <1>1, <2>1, <2>7
<1>4. ASSUME NEW p \in Procs, Kill(p) \/ ExecExit(p) PROVE ReportInv'
  <2>1. Rest({p}) /\ UNCHANGED <<cur, pc>>
    BY <1>4 DEF Kill, ExecExit, StopAt, loopVars, TypeOK, Quiet, Heard, Rest
  <2>2. st'[p] \in {"zombie", "exitev"}
    BY <1>4 DEF Kill, ExecExit, StopAt, TypeOK
  <2>3. ReportOK(p)'
    BY <2>2 DEF ReportOK, ReportAtEntry, ReportAtExit, ReportElsewhere, Stops, EventStops
  <2> QED BY <1>1, <2>1, <2>3
<1>5. ASSUME NEW p \in Procs, NEW s \in Signals, SendSignal(p, s) PROVE ReportInv'
  <2>1. Rest({}) /\ UNCHANGED <<cur, pc>>
    BY <1>5 DEF SendSignal, loopVars, Quiet, Heard, Rest
  <2> QED BY <1>1, <2>1
<1>6. ASSUME NEW p \in Procs, NEW s \in pend[p], SignalStop(p, s) PROVE ReportInv'
  <2>1. Rest({p}) /\ UNCHANGED <<cur, pc, last, ncalls, call, regs, obs>>
    BY <1>6 DEF SignalStop, StopAt, loopVars, TypeOK, Quiet, Heard, Rest
  <2>2. st[p] = "user" /\ st'[p] = "signal"
    BY <1>6 DEF SignalStop, StopAt, TypeOK
  <2>3. ncalls[p] > 0 => Told(p)
    BY <1>2, <2>2 DEF ReportOK, ReportElsewhere
  <2>4. Heard(p)
    BY <2>1 DEF Heard
  <2>5. ReportOK(p)'
    BY <2>1, <2>2, <2>3, <2>4, StaysTold
    DEF ReportOK, ReportAtEntry, ReportAtExit, ReportElsewhere, Stops
  <2> QED BY <1>1, <2>1, <2>5
<1>7. ASSUME NEW p \in Procs, NEW c \in Calls, EnterCall(p, c) PROVE ReportInv'
  <2>1. Rest({p}) /\ UNCHANGED <<cur, pc>>
    BY <1>7 DEF EnterCall, StopAt, loopVars, TypeOK, Quiet, Heard, Rest
  <2>2. st[p] = "user" /\ st'[p] = "entry"
    BY <1>7 DEF EnterCall, StopAt, TypeOK
  <2>3. call'[p] = c /\ regs'[p].nr = c.nr /\ obs'[p] = NewObs
    BY <1>7 DEF EnterCall, TypeOK
  <2>4. Untold(p)' /\ Numbered(p)'
    BY <2>3 DEF Untold, Zero, NewObs, Numbered
  <2>5. ~Working(p, {"openat", "setregs", "resume"})
    BY <1>2, <2>2
    DEF CallOK, Elsewhere, ReportOK, ReportElsewhere, Working, Stops, SyscallStops, EventStops
  <2>6. ReportOK(p)'
    BY <2>1, <2>2, <2>4, <2>5
    DEF ReportOK, ReportAtEntry, ReportAtExit, ReportElsewhere, Working
  <2> QED BY <1>1, <2>1, <2>6
<1>8. ASSUME NEW p \in Procs, st[p] = "kernel"
      PROVE  /\ Owes(p) /\ HalfTold(p) /\ Numbered(p)
             /\ ~Working(p, {"getregs", "openat", "setregs", "resume"})
             /\ regs[p].nr \in Nat => ~obs[p].denied
  <2>1. Owes(p) /\ HalfTold(p) /\ Numbered(p)
    BY <1>2, <1>8 DEF ReportOK, ReportElsewhere
  <2>2. ~Working(p, {"getregs", "openat", "setregs"}) /\ Decided(p)
    BY <1>2, <1>8 DEF CallOK, Elsewhere
  <2>3. ~Working(p, {"resume"})
    BY <1>2, <1>8 DEF ReportOK, ReportElsewhere, Stops, SyscallStops, EventStops
  <2>4. regs[p].nr \in Nat => ~obs[p].denied
    BY <2>2 DEF Decided, EPERM
  <2> QED BY <2>1, <2>2, <2>3, <2>4 DEF Working
<1>9. ASSUME NEW p \in Procs, st[p] = "kernel", UNCHANGED <<cur, pc, last, call>>,
             st'[p] \in {"exit", "fork"}, regs'[p].nr = regs[p].nr,
             \/ obs'[p].ret = obs[p].ret
             \/ ~obs[p].denied,
             obs'[p].n = obs[p].n, obs'[p].denied = obs[p].denied,
             obs'[p].oom = obs[p].oom, obs'[p].clean = obs[p].clean,
             obs'[p].stale = obs[p].stale
      PROVE  ReportOK(p)'
  <2>1. /\ Owes(p) /\ HalfTold(p) /\ Numbered(p)
        /\ ~Working(p, {"getregs", "openat", "setregs", "resume"})
    BY <1>8, <1>9
  <2>2. Owes(p)' /\ Numbered(p)'
    BY <1>9, <2>1 DEF Owes, Numbered
  <2>3. HalfTold(p)'
    BY <1>9, <2>1 DEF HalfTold, Untold, Told, Reported
  <2> QED BY <1>9, <2>1, <2>2, <2>3
          DEF ReportOK, ReportAtEntry, ReportAtExit, ReportElsewhere, Working
<1>10. ASSUME NEW p \in Procs, SkipCall(p) PROVE ReportInv'
  <2>1. Rest({p}) /\ UNCHANGED <<cur, pc>>
    BY <1>10 DEF SkipCall, StopAt, loopVars, TypeOK, Quiet, Heard, Rest
  <2>2. /\ st[p] = "kernel" /\ st'[p] = "exit"
        /\ UNCHANGED <<ncalls, call, regs, obs, cur, pc, last>>
    BY <1>10 DEF SkipCall, StopAt, TypeOK, loopVars
  <2> QED BY <1>1, <1>9, <2>1, <2>2
<1>11. ASSUME NEW p \in Procs, NEW r \in Int, st[p] = "kernel", regs[p].nr \in Nat, Finish(p, r)
       PROVE  ReportInv'
  <2>1. Rest({p}) /\ UNCHANGED <<cur, pc, last, call>>
    BY <1>11 DEF Finish, StopAt, loopVars, TypeOK, Quiet, Heard, Rest
  <2>2. st'[p] = "exit" /\ regs'[p].nr = regs[p].nr
    BY <1>11 DEF Finish, StopAt, TypeOK, Regs
  <2>3. /\ obs'[p].n = obs[p].n /\ obs'[p].denied = obs[p].denied
        /\ obs'[p].oom = obs[p].oom /\ obs'[p].clean = obs[p].clean
        /\ obs'[p].stale = obs[p].stale
    BY <1>11 DEF Finish, TypeOK, Observations
  <2> QED BY <1>1, <1>8, <1>9, <1>11, <2>1, <2>2, <2>3
<1>12. ASSUME NEW p \in Procs, ExecOpen(p) \/ ExecOther(p) \/ CloneFails(p) PROVE ReportInv'
  <2>1. st[p] = "kernel" /\ (Finish(p, -ENOENT) \/ Finish(p, 0) \/ Finish(p, -EAGAIN))
    BY <1>12 DEF ExecOpen, ExecOther, CloneFails
  <2>2. regs[p].nr \in OtherCalls \cup {SYS_openat, SYS_clone}
    BY <1>12 DEF ExecOpen, ExecOther, CloneFails
  <2>3. regs[p].nr \in Nat
    BY <2>2, NumberTypes
  <2> QED BY <1>11, <2>1, <2>3, NumberTypes
<1>13. ASSUME NEW p \in Procs, NEW c \in Procs, ExecClone(p, c) PROVE ReportInv'
  <2>1. Rest({p, c}) /\ UNCHANGED <<cur, pc, last, ncalls, call>>
    BY <1>13 DEF ExecClone, loopVars, TypeOK, Quiet, Heard, Rest
  <2>2. /\ st[p] = "kernel" /\ st[c] = "absent" /\ p # c /\ regs[p].nr \in Nat
        /\ st'[p] = "fork" /\ st'[c] = "trap"
    BY <1>13, NumberTypes DEF ExecClone, TypeOK
  <2>3. /\ regs'[p].nr = regs[p].nr
        /\ obs'[p].n = obs[p].n /\ obs'[p].denied = obs[p].denied
        /\ obs'[p].oom = obs[p].oom /\ obs'[p].clean = obs[p].clean
        /\ obs'[p].stale = obs[p].stale
    BY <1>13 DEF ExecClone, TypeOK, Regs, Observations
  <2>4. ReportOK(p)'
    BY <1>8, <1>9, <2>1, <2>2, <2>3
  <2>5. ncalls'[c] = 0
    BY <1>2, <2>1, <2>2 DEF CallOK, Elsewhere
  <2>6. ReportOK(c)'
    BY <2>2, <2>5 DEF ReportOK, ReportAtEntry, ReportAtExit, ReportElsewhere, Stops, EventStops
  <2> QED BY <1>1, <2>1, <2>4, <2>6
<1> QED BY <1>3, <1>4, <1>5, <1>6, <1>7, <1>10, <1>12, <1>13 DEF Kernel, Exec

\* tracer_init reports nothing, and it resumes the child before any call.
LEMMA ReportInvTracerInit ==
  TypeOK /\ CallInv /\ Handshake /\ ReportInv /\ TracerInit => ReportInv'
<1> SUFFICES ASSUME TypeOK, CallInv, Handshake, ReportInv, TracerInit PROVE ReportInv'
  OBVIOUS
<1> USE TracerAssumption DEF TracerAssumption
<1>1. pc \notin Handling /\ pc' \notin Handling /\ UNCHANGED <<cur, last, obs>>
  BY DEF TracerInit, InitWait, InitSeize, InitInterrupt, InitResume, InitCont, Handling
<1>2. \A q \in Procs : ~Working(q, Handling) /\ ~Working(q, Handling)'
  BY <1>1 DEF Working
<1>3. ASSUME NEW P \in SUBSET Procs, Rest(P), \A q \in P : ReportOK(q)' PROVE ReportInv'
  BY <1>2, <1>3, ReportFrameTracer DEF ReportInv, Rest
<1>4. ReportOK(Root)
  BY DEF ReportInv
<1>5. CASE InitWait \/ InitSeize
  <2>1. Rest({Root}) /\ UNCHANGED <<ncalls, call, regs>> /\ Heard(Root)
    BY <1>1, <1>5 DEF InitWait, InitSeize, Rest, Quiet, Heard, TypeOK
  <2>2. \/ st'[Root] = st[Root] \/ st'[Root] = "gone"
        \/ st[Root] = "jobstop" /\ st'[Root] = "group"
    BY <1>5 DEF InitWait, InitSeize, TypeOK
  <2>3. CASE st'[Root] = st[Root]
    <3>1. Quiet(Root)
      BY <2>1, <2>3 DEF Quiet
    <3> QED BY <1>2, <1>3, <1>4, <2>1, <3>1, ReportFrameTracer
  <2>4. CASE st'[Root] = "gone"
    BY <1>2, <1>3, <2>1, <2>4
    DEF ReportOK, ReportAtEntry, ReportAtExit, ReportElsewhere, Working, Handling
  <2>5. CASE st[Root] = "jobstop" /\ st'[Root] = "group"
    <3>1. ncalls'[Root] = 0
      BY <2>1, <2>5 DEF CallInv, CallOK, Elsewhere
    <3>2. ReportOK(Root)'
      BY <1>2, <2>5, <3>1
      DEF ReportOK, ReportAtEntry, ReportAtExit, ReportElsewhere, Working, Handling
    <3> QED BY <1>3, <2>1, <3>2
  <2> QED BY <2>2, <2>3, <2>4, <2>5
<1>6. CASE InitInterrupt \/ InitCont
  <2>1. Rest({})
    BY <1>1, <1>6 DEF InitInterrupt, InitCont, Rest, Quiet, Heard
  <2> QED BY <1>3, <2>1
<1>7. CASE InitResume
  <2>1. CASE UNCHANGED procVars
    <3>1. Rest({})
      BY <1>1, <2>1 DEF procVars, Rest, Quiet, Heard
    <3> QED BY <1>3, <3>1
  <2>2. CASE PtraceSyscall(Root, NoSignal)
    <3>1. Rest({Root})
      BY <1>1, <2>2 DEF PtraceSyscall, StopAt, Rest, Quiet, Heard, TypeOK
    <3>2. st[Root] \notin SyscallStops
      BY <1>7 DEF InitResume, Handshake, Early, SyscallStops
    <3>3. ReportOK(Root)'
      BY <1>1, <1>4, <2>2, <3>2, ResumeReport
    <3> QED BY <1>3, <3>1, <3>3
  <2> QED BY <1>7, <2>1, <2>2 DEF InitResume
<1> QED BY <1>5, <1>6, <1>7 DEF TracerInit

\* Counting the callbacks in two steps is counting them at once, since the
\* syscall callback is none of the file callbacks.
LEMMA BumpTwice ==
  ASSUME NEW acc
  PROVE  Bump(Bump(Zero, Cbs \cap {"syscall"}), Asked(acc))
           = Bump(Zero, (Cbs \cap {"syscall"}) \cup Asked(acc))
<1>1. ASSUME NEW cb \in Callbacks
      PROVE  ~(cb \in Cbs \cap {"syscall"} /\ cb \in Asked(acc))
  BY DEF Asked
<1>2. ASSUME NEW cb \in Callbacks
      PROVE  (0 + (IF cb \in Cbs \cap {"syscall"} THEN 1 ELSE 0))
               + (IF cb \in Asked(acc) THEN 1 ELSE 0)
             = 0 + (IF cb \in (Cbs \cap {"syscall"}) \cup Asked(acc) THEN 1 ELSE 0)
  BY <1>1
<1> QED BY <1>2 DEF Bump, Zero

\* Counting no callback changes nothing.
LEMMA BumpNone == ASSUME NEW n \in [Callbacks -> Nat] PROVE Bump(n, {}) = n
BY DEF Bump

\* What is expected for a call that is an open, and for one that is not.
LEMMA ExpectedCounts ==
  ASSUME NEW c
  PROVE  /\ c.nr = SYS_openat =>
              Expected(c) = Bump(Bump(Zero, Cbs \cap {"syscall"}), Asked(c.acc))
         /\ c.nr # SYS_openat => Expected(c) = Bump(Zero, Cbs \cap {"syscall"})
<1>1. (Cbs \cap {"syscall"}) \cup {} = Cbs \cap {"syscall"}
  OBVIOUS
<1> QED BY <1>1, BumpTwice DEF Expected, Zero

\* The stop that is being handled is none that was left behind.
LEMMA HandledNotDropped ==
  ASSUME TypeOK, DropInv, pc \in Handling, st[cur] \in SyscallStops
  PROVE  ~obs[cur].dropped
BY DEF TypeOK, DropInv, LeftBehind, SyscallStops

\* What the handler of an entry or exit stop knows of the call when it reads
\* the registers: the invariants of Tracer say it, piece by piece.
LEMMA AtGetRegs ==
  ASSUME TypeOK, DropInv, CallInv, ReportInv, pc = "getregs"
  PROVE  /\ st[cur] \in {"entry", "exit", "exitev", "zombie"}
         /\ st[cur] = "entry" => /\ Untold(cur) /\ call[cur] \in Calls
                                 /\ regs[cur].nr = call[cur].nr
                                 /\ ~obs[cur].denied /\ obs[cur].ret = NotRun
         /\ st[cur] = "exit" => Owes(cur) /\ HalfTold(cur) /\ Numbered(cur)
<1>1. CallOK(cur) /\ ReportOK(cur)
  BY DEF CallInv, ReportInv, TypeOK
<1>2. st[cur] \in {"entry", "exit", "exitev", "zombie"}
  BY <1>1 DEF CallOK, Elsewhere, Working
<1>3. ASSUME st[cur] \in {"entry", "exit"} PROVE ~obs[cur].dropped
  BY <1>3, HandledNotDropped DEF Handling, SyscallStops
<1>4. ASSUME st[cur] = "entry" PROVE Untold(cur) /\ Fresh(cur)
  BY <1>1, <1>3, <1>4 DEF CallOK, AtEntry, ReportOK, ReportAtEntry, Working
<1>5. ASSUME st[cur] = "exit" PROVE Owes(cur) /\ HalfTold(cur) /\ Numbered(cur)
  BY <1>1, <1>3, <1>5 DEF ReportOK, ReportAtExit, ReportElsewhere, Working
<1> QED BY <1>2, <1>4, <1>5 DEF Fresh, Undecided

\* The registers are read, last_syscall is toggled, the syscall callback asked.
LEMMA ReportInvGetRegs == TypeOK /\ DropInv /\ CallInv /\ ReportInv /\ GetRegs => ReportInv'
<1> SUFFICES ASSUME TypeOK, DropInv, CallInv, ReportInv, GetRegs PROVE ReportInv'
  OBVIOUS
<1> USE TracerAssumption DEF TracerAssumption
<1> DEFINE told == IF last' # -1 THEN Cbs \cap {"syscall"} ELSE {}
<1>1. /\ pc = "getregs" /\ cur \in Procs /\ st[cur] \in Stops
      /\ UNCHANGED <<st, ncalls, call, regs, cur>>
      /\ last' = IF last = regs[cur].nr THEN -1 ELSE regs[cur].nr
      /\ pc' = IF last' # -1 /\ regs[cur].nr = SYS_openat THEN "openat" ELSE "setregs"
  BY DEF GetRegs, Toggle, procVars, TypeOK
<1>2. /\ obs'[cur].n = Bump(obs[cur].n, told)
      /\ obs'[cur].clean = (obs[cur].clean \/ st[cur] = "entry")
      /\ obs'[cur].stale = IF st[cur] = "entry" THEN last = regs[cur].nr ELSE obs[cur].stale
  BY <1>1, ZenonT(60) DEF GetRegs, TypeOK, Observations
<1>0. /\ obs'[cur].denied = obs[cur].denied /\ obs'[cur].ret = obs[cur].ret
      /\ obs'[cur].oom = obs[cur].oom /\ obs'[cur].dropped = obs[cur].dropped
  BY <1>1, ToldOnly
<1>3. ASSUME NEW q \in Procs \ {cur} PROVE ReportOK(q)'
  <2>1. Quiet(q)
    BY <1>1, ZenonT(60) DEF GetRegs, Quiet, Heard, TypeOK, Observations
  <2>2. ReportOK(q) /\ ~Working(q, Handling) /\ ~Working(q, Handling)'
    BY <1>1 DEF ReportInv, Working
  <2> QED BY <2>1, <2>2, ReportFrameTracer
<1> HIDE DEF told
<1>4. CASE st[cur] = "entry"
  <2>1. /\ Untold(cur) /\ call[cur] \in Calls /\ regs[cur].nr = call[cur].nr
        /\ ~obs[cur].denied /\ obs[cur].ret = NotRun /\ call[cur].nr \in Nat
    BY <1>1, <1>4, AtGetRegs, CallType
  <2>2. Numbered(cur)'
    BY <1>0, <1>1, <2>1 DEF Numbered
  <2>3. CASE last = regs[cur].nr
    <3>1. last' = -1 /\ pc' = "setregs" /\ told = {} /\ obs'[cur].stale
      BY <1>1, <1>2, <1>4, <2>3 DEF told
    <3>2. obs'[cur].n = Zero
      BY <1>1, <1>2, <2>1, <3>1, BumpNone DEF TypeOK, Observations, Untold
    <3>3. Owes(cur)' /\ HalfTold(cur)'
      BY <1>0, <1>1, <2>1, <3>1, <3>2 DEF Owes, HalfTold, Untold
    <3> QED BY <1>1, <1>3, <1>4, <2>2, <3>1, <3>3
            DEF ReportInv, ReportOK, ReportAtEntry, ReportAtExit, ReportElsewhere, Working
  <2>4. CASE last # regs[cur].nr
    <3>1. last' = call[cur].nr /\ ~obs'[cur].stale
      BY <1>1, <1>2, <1>4, <2>1, <2>4
    <3>2. told = Cbs \cap {"syscall"}
      BY <2>1, <3>1 DEF told
    <3>3. obs'[cur].n = Bump(Zero, Cbs \cap {"syscall"})
      BY <1>2, <2>1, <3>2 DEF Untold
    <3>4. CASE call[cur].nr = SYS_openat
      <4>1. AskedSyscall(cur)' /\ pc' = "openat"
        BY <1>1, <2>1, <3>1, <3>3, <3>4 DEF AskedSyscall
      <4> QED BY <1>1, <1>3, <1>4, <2>2, <3>1, <4>1
              DEF ReportInv, ReportOK, ReportAtEntry, ReportAtExit, ReportElsewhere, Working
    <3>5. CASE call[cur].nr # SYS_openat
      <4>1. obs'[cur].n = Expected(call'[cur]) /\ pc' = "setregs"
        BY <1>1, <2>1, <3>3, <3>5, ExpectedCounts
      <4>2. Owes(cur)' /\ HalfTold(cur)'
        BY <1>0, <1>1, <2>1, <3>1, <3>5, <4>1 DEF Owes, HalfTold, Told, Reported
      <4> QED BY <1>1, <1>3, <1>4, <2>2, <4>1, <4>2
              DEF ReportInv, ReportOK, ReportAtEntry, ReportAtExit, ReportElsewhere, Working
    <3> QED BY <3>4, <3>5
  <2> QED BY <2>3, <2>4
<1>5. CASE st[cur] = "exit"
  <2>1. Owes(cur) /\ HalfTold(cur) /\ Numbered(cur) /\ call[cur].nr \in Nat
    BY <1>1, <1>5, AtGetRegs, CallType DEF Numbered
  <2>2. obs'[cur].clean = obs[cur].clean /\ obs'[cur].stale = obs[cur].stale
    BY <1>2, <1>5 DEF TypeOK, Observations
  <2>3. Numbered(cur)'
    BY <1>0, <1>1, <2>1 DEF Numbered
  <2>4. CASE ~obs[cur].clean
    BY <1>1, <1>3, <1>5, <2>2, <2>3, <2>4
    DEF ReportInv, ReportOK, ReportAtEntry, ReportAtExit, ReportElsewhere, Working, Told
  <2>5. CASE obs[cur].clean /\ ~obs[cur].stale
    <3>1. last' = -1 /\ pc' = "setregs" /\ told = {}
      BY <1>1, <2>1, <2>5 DEF Owes, Numbered, told
    <3>2. obs'[cur].n = obs[cur].n
      BY <1>1, <1>2, <3>1, BumpNone DEF TypeOK, Observations
    <3>3. Told(cur)'
      BY <1>0, <1>1, <2>1, <2>2, <2>5, <3>2 DEF HalfTold, Told, Reported
    <3> QED BY <1>1, <1>3, <1>5, <2>3, <3>1, <3>3
            DEF ReportInv, ReportOK, ReportAtEntry, ReportAtExit, ReportElsewhere, Working
  <2>6. CASE obs[cur].clean /\ obs[cur].stale
    <3>1. last = -1 /\ Untold(cur) /\ ~obs[cur].denied /\ regs[cur].nr = call[cur].nr
      BY <2>1, <2>6 DEF Owes, HalfTold, Numbered
    <3>2. last' = call[cur].nr /\ told = Cbs \cap {"syscall"}
      BY <1>1, <2>1, <3>1 DEF told
    <3>3. obs'[cur].n = Bump(Zero, Cbs \cap {"syscall"})
      BY <1>2, <3>1, <3>2 DEF Untold
    <3>4. CASE call[cur].nr = SYS_openat
      <4>1. AskedSyscall(cur)' /\ pc' = "openat" /\ obs'[cur].stale /\ ~obs'[cur].denied
        BY <1>0, <1>1, <2>1, <2>2, <2>6, <3>1, <3>2, <3>3, <3>4 DEF AskedSyscall
      <4> QED BY <1>1, <1>3, <1>5, <2>3, <4>1
              DEF ReportInv, ReportOK, ReportAtEntry, ReportAtExit, ReportElsewhere, Working
    <3>5. CASE call[cur].nr # SYS_openat
      <4>1. obs'[cur].n = Expected(call'[cur]) /\ pc' = "setregs"
        BY <1>1, <3>1, <3>3, <3>5, ExpectedCounts
      <4>2. Told(cur)'
        BY <1>0, <1>1, <3>1, <3>5, <4>1 DEF Told, Reported
      <4> QED BY <1>1, <1>3, <1>5, <2>3, <4>1, <4>2
              DEF ReportInv, ReportOK, ReportAtEntry, ReportAtExit, ReportElsewhere, Working
    <3> QED BY <3>4, <3>5
  <2> QED BY <2>4, <2>5, <2>6
<1>6. CASE st[cur] \in {"exitev", "zombie"}
  <2>1. ReportOK(cur)'
    BY <1>1, <1>6 DEF ReportOK, ReportAtEntry, ReportAtExit, ReportElsewhere, Working
  <2> QED BY <1>1, <1>3, <2>1 DEF ReportInv
<1> QED BY <1>1, <1>4, <1>5, <1>6, AtGetRegs

\* The file callbacks are asked about the path.
LEMMA ReportInvOpenat ==
  TypeOK /\ DropInv /\ CallInv /\ ReportInv /\ SyscallOpenat => ReportInv'
<1> SUFFICES ASSUME TypeOK, DropInv, CallInv, ReportInv, SyscallOpenat PROVE ReportInv'
  OBVIOUS
<1> USE TracerAssumption DEF TracerAssumption
<1> DEFINE acc  == call[cur].acc
           path == IF st[cur] \in Stops THEN call[cur].path ELSE NoPath
<1>1. /\ pc = "openat" /\ pc' = "setregs" /\ cur \in Procs
      /\ UNCHANGED <<st, ncalls, call, regs, cur, last>>
  BY DEF SyscallOpenat, procVars, TypeOK
<1>2. /\ obs'[cur].n = Bump(obs[cur].n, Asked(acc))
      /\ obs'[cur].denied = (obs[cur].denied \/ Refuses(acc, path))
      /\ obs'[cur].clean = obs[cur].clean /\ obs'[cur].ret = obs[cur].ret
      /\ obs'[cur].oom = obs[cur].oom /\ obs'[cur].stale = obs[cur].stale
  BY DEF SyscallOpenat, TypeOK, Observations
<1> HIDE DEF acc
<1>3. ASSUME ReportOK(cur)' PROVE ReportInv'
  <2>1. ASSUME NEW q \in Procs \ {cur} PROVE ReportOK(q)'
    <3>1. Quiet(q)
      BY <1>1 DEF SyscallOpenat, Quiet, Heard, TypeOK
    <3>2. ReportOK(q) /\ ~Working(q, Handling) /\ ~Working(q, Handling)'
      BY <1>1 DEF ReportInv, Working
    <3> QED BY <3>1, <3>2, ReportFrameTracer
  <2> QED BY <1>1, <1>3, <2>1 DEF ReportInv
<1>4. CallOK(cur) /\ ReportOK(cur) /\ (st[cur] \in {"entry", "exit"} => ~obs[cur].dropped)
  <2>1. pc \in Handling
    BY <1>1 DEF Handling
  <2> QED BY <1>1, <2>1, HandledNotDropped DEF CallInv, ReportInv, SyscallStops
<1>5. st[cur] \in {"entry", "exit", "exitev", "zombie"}
  BY <1>1, <1>4 DEF CallOK, Elsewhere, Working
<1>6. CASE st[cur] = "entry"
  <2>1. /\ Fresh(cur) /\ Numbered(cur)
        /\ obs[cur].clean => AskedSyscall(cur) /\ ~obs[cur].stale
    BY <1>1, <1>4, <1>6
    DEF CallOK, AtEntry, ReportOK, ReportAtEntry, ReportElsewhere, Working
  <2>2. path = call[cur].path
    BY <1>6 DEF Stops, SyscallStops
  <2> HIDE DEF path
  <2>3. ASSUME obs[cur].clean PROVE Reported(cur)'
    <3>1. call[cur].nr = SYS_openat /\ obs[cur].n = Bump(Zero, Cbs \cap {"syscall"})
      BY <2>1, <2>3 DEF AskedSyscall
    <3>2. obs'[cur].n = Expected(call[cur])
      BY <1>2, <3>1, ExpectedCounts DEF acc
    <3>3. /\ obs'[cur].denied <=> Refuses(call[cur].acc, call[cur].path)
          /\ obs'[cur].ret = NotRun /\ ~obs'[cur].stale
      BY <1>2, <2>1, <2>2, <2>3 DEF acc, Fresh, Undecided
    <3> QED BY <1>1, <3>1, <3>2, <3>3 DEF Reported
  <2>4. HalfTold(cur)' /\ Owes(cur)' /\ Numbered(cur)'
    BY <1>1, <1>2, <2>1, <2>3 DEF HalfTold, Told, Owes, AskedSyscall, Numbered
  <2>5. ReportOK(cur)'
    BY <1>1, <1>6, <2>4 DEF ReportOK, ReportAtEntry, ReportAtExit, ReportElsewhere, Working
  <2> QED BY <1>3, <2>5
<1>7. CASE st[cur] = "exit"
  <2>1. /\ Numbered(cur) /\ Finished(cur)
        /\ obs[cur].clean => AskedSyscall(cur) /\ obs[cur].stale /\ ~obs[cur].denied
    BY <1>1, <1>4, <1>7
    DEF CallOK, AtExit, ReportOK, ReportAtExit, ReportElsewhere, Working
  <2>2. path = call[cur].path
    BY <1>7 DEF Stops, SyscallStops
  <2> HIDE DEF path
  <2>3. ASSUME obs[cur].clean PROVE Reported(cur)'
    <3>1. call[cur].nr = SYS_openat /\ obs[cur].n = Bump(Zero, Cbs \cap {"syscall"})
      BY <2>1, <2>3 DEF AskedSyscall
    <3>2. obs'[cur].n = Expected(call[cur])
      BY <1>2, <3>1, ExpectedCounts DEF acc
    <3>3. /\ obs'[cur].denied <=> Refuses(call[cur].acc, call[cur].path)
          /\ obs'[cur].ret # NotRun /\ obs'[cur].stale
      BY <1>2, <2>1, <2>2, <2>3 DEF acc, Finished
    <3> QED BY <1>1, <3>1, <3>2, <3>3 DEF Reported
  <2>4. Told(cur)' /\ Numbered(cur)'
    BY <1>1, <1>2, <2>1, <2>3 DEF Told, Numbered
  <2>5. ReportOK(cur)'
    BY <1>1, <1>7, <2>4
    DEF ReportOK, ReportAtEntry, ReportAtExit, ReportElsewhere, Working
  <2> QED BY <1>3, <2>5
<1>8. CASE st[cur] \in {"exitev", "zombie"}
  <2>1. ReportOK(cur)'
    BY <1>1, <1>8 DEF ReportOK, ReportAtEntry, ReportAtExit, ReportElsewhere, Working
  <2> QED BY <1>3, <2>1
<1> QED BY <1>5, <1>6, <1>7, <1>8

\* The error paths give the call up: it is not clean, was never to be told, or
\* never leaves its stop.
LEMMA ReportInvFails ==
  TypeOK /\ DropInv /\ CallInv /\ ReportInv
    /\ (GetRegsGone \/ GetRegsFails \/ ReadStringFails \/ SetRegsFails) => ReportInv'
<1> SUFFICES ASSUME TypeOK, DropInv, CallInv, ReportInv,
                    GetRegsGone \/ GetRegsFails \/ ReadStringFails \/ SetRegsFails
             PROVE  ReportInv'
  OBVIOUS
<1> USE TracerAssumption DEF TracerAssumption
<1>1. /\ cur \in Procs /\ pc \in Handling
      /\ UNCHANGED <<st, ncalls, call, regs, cur, last>>
  BY DEF GetRegsGone, GetRegsFails, ReadStringFails, SetRegsFails, procVars, TypeOK, Handling
<1>2. ASSUME ReportOK(cur)' PROVE ReportInv'
  <2>1. ASSUME NEW q \in Procs \ {cur} PROVE ReportOK(q)'
    <3>1. Quiet(q)
      BY <1>1 DEF GetRegsGone, GetRegsFails, ReadStringFails, SetRegsFails, Quiet, Heard, TypeOK
    <3>2. ReportOK(q) /\ ~Working(q, Handling) /\ ~Working(q, Handling)'
      BY <1>1 DEF ReportInv, Working
    <3> QED BY <3>1, <3>2, ReportFrameTracer
  <2> QED BY <1>1, <1>2, <2>1 DEF ReportInv
<1>3. CallOK(cur) /\ ReportOK(cur) /\ (st[cur] \in {"entry", "exit"} => ~obs[cur].dropped)
  BY <1>1, HandledNotDropped DEF CallInv, ReportInv, SyscallStops
<1>4. CASE GetRegsGone
  <2>1. pc = "getregs" /\ pc' = "wait" /\ st[cur] \notin Stops
    BY <1>4 DEF GetRegsGone
  <2>2. st[cur] = "zombie"
    BY <1>3, <2>1 DEF CallOK, Elsewhere, Working, Stops, SyscallStops, EventStops
  <2>3. ReportOK(cur)'
    BY <1>1, <2>1, <2>2 DEF ReportOK, ReportAtEntry, ReportAtExit, ReportElsewhere, Working
  <2> QED BY <1>2, <2>3
<1>5. CASE GetRegsFails
  <2>1. pc = "getregs" /\ pc' = "resume" /\ ~obs'[cur].clean
    BY <1>5 DEF GetRegsFails, TypeOK, Observations
  <2>2. st[cur] \in {"entry", "exit", "exitev", "zombie"}
    BY <2>1, AtGetRegs
  <2>3. Told(cur)' /\ Owes(cur)' /\ HalfTold(cur)'
    BY <1>1, <2>1 DEF Told, Owes, HalfTold
  <2>4. st[cur] \in {"entry", "exit"} => Numbered(cur)'
    <3>1. obs'[cur].denied = obs[cur].denied
      BY <1>5 DEF GetRegsFails, TypeOK, Observations
    <3> QED BY <1>1, <1>3, <3>1 DEF ReportOK, ReportElsewhere, Numbered
  <2>5. ReportOK(cur)'
    BY <1>1, <2>1, <2>2, <2>3, <2>4
    DEF ReportOK, ReportAtEntry, ReportAtExit, ReportElsewhere, Working, Stops, SyscallStops,
        EventStops
  <2> QED BY <1>2, <2>5
<1>6. CASE ReadStringFails
  <2>1. /\ pc = "openat" /\ pc' = "setregs" /\ obs'[cur].oom
        /\ obs'[cur].clean = obs[cur].clean /\ obs'[cur].stale = obs[cur].stale
        /\ obs'[cur].denied = obs[cur].denied
    BY <1>6 DEF ReadStringFails, TypeOK, Observations
  <2>2. st[cur] \in {"entry", "exit", "exitev", "zombie"}
    BY <1>3, <2>1 DEF CallOK, Elsewhere, Working
  <2>3. Told(cur)'
    BY <1>1, <2>1 DEF Told
  <2>4. st[cur] = "entry" => Owes(cur)' /\ HalfTold(cur)'
    BY <1>1, <1>3, <2>1, <2>3
    DEF ReportOK, ReportAtEntry, AskedSyscall, Owes, HalfTold, Working
  <2>5. st[cur] \in {"entry", "exit"} => Numbered(cur)'
    BY <1>1, <1>3, <2>1 DEF ReportOK, ReportElsewhere, Numbered
  <2>6. ReportOK(cur)'
    BY <1>1, <2>1, <2>2, <2>3, <2>4, <2>5
    DEF ReportOK, ReportAtEntry, ReportAtExit, ReportElsewhere, Working
  <2> QED BY <1>2, <2>6
<1>7. CASE SetRegsFails
  <2>1. pc = "setregs" /\ pc' = "wait" /\ (st[cur] \in Stops => obs'[cur].dropped)
    BY <1>7 DEF SetRegsFails, TypeOK, Observations
  <2>2. st[cur] \in {"entry", "exit", "exitev", "zombie"}
    BY <1>3, <2>1 DEF CallOK, Elsewhere, Working
  <2>3. st[cur] \in {"entry", "exit"} => Numbered(cur)' /\ obs'[cur].dropped
    <3>1. obs'[cur].denied = obs[cur].denied
      BY <1>7 DEF SetRegsFails, TypeOK, Observations
    <3> QED BY <1>1, <1>3, <2>1, <3>1
            DEF ReportOK, ReportElsewhere, Numbered, Stops, SyscallStops
  <2>4. ReportOK(cur)'
    BY <1>1, <2>1, <2>2, <2>3
    DEF ReportOK, ReportAtEntry, ReportAtExit, ReportElsewhere, Working
  <2> QED BY <1>2, <2>4
<1> QED BY <1>4, <1>5, <1>6, <1>7

\* Writing the registers back and resuming the process.
LEMMA ReportInvResume ==
  TypeOK /\ DropInv /\ CallInv /\ ReportInv /\ (SetRegs \/ Resume) => ReportInv'
<1> SUFFICES ASSUME TypeOK, DropInv, CallInv, ReportInv, SetRegs \/ Resume PROVE ReportInv'
  OBVIOUS
<1> USE TracerAssumption DEF TracerAssumption
<1>1. cur \in Procs /\ pc \in Handling /\ UNCHANGED <<cur, last, obs>>
  BY DEF SetRegs, Resume, TypeOK, Handling
<1>2. ASSUME ReportOK(cur)' PROVE ReportInv'
  <2>1. ASSUME NEW q \in Procs \ {cur} PROVE ReportOK(q)'
    <3>1. Quiet(q)
      BY <1>1 DEF SetRegs, Resume, PtraceSyscall, StopAt, procVars, Quiet, Heard, TypeOK
    <3>2. ReportOK(q) /\ ~Working(q, Handling) /\ ~Working(q, Handling)'
      BY <1>1 DEF ReportInv, Working
    <3> QED BY <3>1, <3>2, ReportFrameTracer
  <2> QED BY <1>1, <1>2, <2>1 DEF ReportInv
<1>3. CallOK(cur) /\ ReportOK(cur) /\ (st[cur] \in {"entry", "exit"} => ~obs[cur].dropped)
  BY <1>1, HandledNotDropped DEF CallInv, ReportInv, SyscallStops
<1>4. CASE SetRegs
  <2>1. pc = "setregs" /\ UNCHANGED <<st, ncalls, call>> /\ Heard(cur)
    BY <1>1, <1>4 DEF SetRegs, Heard
  <2>2. st[cur] \in {"entry", "exit", "exitev", "zombie"}
    BY <1>3, <2>1 DEF CallOK, Elsewhere, Working
  <2>3. CASE st[cur] \in {"entry", "exit"}
    <3>1. /\ pc' = "resume"
          /\ regs'[cur] = IF perm = -1 THEN Refusal(treg) ELSE treg
      BY <1>1, <1>4, <2>3 DEF SetRegs, Stops, SyscallStops, TypeOK
    <3>2. treg = regs[cur] /\ Numbered(cur) /\ (perm = -1 => obs[cur].denied)
      BY <1>3, <2>1, <2>3
      DEF CallOK, AtEntry, AtExit, ReportOK, ReportElsewhere, Working
    <3>3. IF perm = -1 THEN regs'[cur].nr = -1 ELSE regs'[cur] = regs[cur]
      BY <3>1, <3>2 DEF Refusal, EPERM
    <3>4. Numbered(cur)'
      BY <1>1, <2>1, <3>2, <3>3 DEF Numbered
    <3>5. /\ st[cur] = "entry" => Owes(cur) /\ HalfTold(cur)
          /\ st[cur] = "exit" => Told(cur)
      BY <1>3, <2>1, <2>3 DEF ReportOK, ReportAtEntry, ReportAtExit, Working
    <3>6. /\ st[cur] = "entry" => Owes(cur)' /\ HalfTold(cur)'
          /\ st[cur] = "exit" => Told(cur)'
      BY <1>1, <2>1, <3>5, StaysTold DEF Told, Owes, HalfTold, Reported, Untold
    <3>7. ReportOK(cur)'
      BY <1>1, <2>1, <2>3, <3>1, <3>4, <3>6
      DEF ReportOK, ReportAtEntry, ReportAtExit, ReportElsewhere, Working, Stops, SyscallStops
    <3> QED BY <1>2, <3>7
  <2>4. CASE st[cur] \in {"exitev", "zombie"}
    <3>1. ReportOK(cur)'
      BY <1>1, <2>1, <2>4
      DEF ReportOK, ReportAtEntry, ReportAtExit, ReportElsewhere, Working, Stops, EventStops
    <3> QED BY <1>2, <3>1
  <2> QED BY <2>2, <2>3, <2>4
<1>5. CASE Resume
  <2>1. pc = "resume" /\ pc' = "wait" /\ Working(cur, {"resume"})
    BY <1>5 DEF Resume, Working
  <2>2. CASE PtraceSyscall(cur, inj)
    <3>1. /\ pc' \notin Handling /\ inj \in SignalNumbers \cup {NoSignal}
          /\ st[cur] \in SyscallStops => ~obs[cur].dropped
      BY <1>3, <2>1 DEF Handling, TypeOK, SyscallStops
    <3>2. ReportOK(cur)'
      <4>1. ASSUME NEW p \in Procs, NEW s \in SignalNumbers \cup {NoSignal},
                   PtraceSyscall(p, s), p = cur
            PROVE  ReportOK(p)'
        BY <1>1, <1>3, <2>1, <3>1, <4>1, ResumeReport
      <4>2. \A p \in Procs : p = cur => ReportOK(p)'
        BY <2>2, <3>1, <4>1
      <4> QED BY <1>1, <4>2 DEF ReportOK, ReportAtEntry, ReportAtExit, ReportElsewhere
    <3> QED BY <1>2, <3>2
  <2>3. CASE st[cur] \notin Stops /\ UNCHANGED procVars
    <3>1. st[cur] = "zombie" /\ st'[cur'] = "zombie"
      BY <1>1, <1>3, <2>1, <2>3 DEF ReportOK, ReportElsewhere, procVars
    <3>2. ReportOK(cur)'
      BY <1>1, <3>1 DEF ReportOK, ReportAtEntry, ReportAtExit, ReportElsewhere
    <3> QED BY <1>2, <3>2
  <2> QED BY <1>5, <2>2, <2>3 DEF Resume
<1> QED BY <1>4, <1>5

\* The handlers keep the invariant.
LEMMA ReportInvTracerLoop ==
  TypeOK /\ DropInv /\ CallInv /\ ReportInv /\ TracerLoop => ReportInv'
<1> SUFFICES ASSUME TypeOK, DropInv, CallInv, ReportInv, TracerLoop PROVE ReportInv'
  OBVIOUS
<1> USE TracerAssumption DEF TracerAssumption
<1>1. ASSUME NEW p \in Procs, HandleStopped(p) PROVE ReportInv'
  <2>1. /\ pc = "wait" /\ cur' = p /\ st[p] \in Stops
        /\ pc' = IF st[p] \in SyscallStops THEN "getregs" ELSE "resume"
        /\ UNCHANGED <<st, ncalls, call, regs, last, obs>>
    BY <1>1, SyscallStopsKnown
  <2>2. \A q \in Procs : Quiet(q) /\ ReportOK(q) /\ ~Working(q, Handling)
    BY <2>1 DEF Quiet, Heard, ReportInv, Working, Handling
  <2>3. ASSUME NEW q \in Procs, q # p PROVE ReportOK(q)'
    <3>1. ~Working(q, Handling)'
      BY <2>1, <2>3 DEF Working
    <3> QED BY <2>2, <3>1, ReportFrameTracer
  <2>4. ReportOK(p)'
    <3>1. /\ st[p] = "entry" /\ ~obs[p].dropped => Untold(p)
          /\ st[p] = "exit" /\ ~obs[p].dropped => Owes(p) /\ HalfTold(p)
      BY <2>1, <2>2 DEF ReportOK, ReportAtEntry, ReportAtExit, Working
    <3>2. /\ Untold(p) => Untold(p)'
          /\ Owes(p) => Owes(p)'
          /\ Told(p) => Told(p)'
          /\ HalfTold(p) => HalfTold(p)'
      BY <2>2, StaysTold DEF Quiet
    <3>3. ReportElsewhere(p)
      BY <2>2 DEF ReportOK
    <3> QED BY <2>1, <3>1, <3>2, <3>3
            DEF ReportOK, ReportAtEntry, ReportAtExit, ReportElsewhere, Working, Numbered,
                SyscallStops
  <2> QED BY <2>3, <2>4 DEF ReportInv
<1>2. ASSUME NEW p \in Procs, ReapExited(p) PROVE ReportInv'
  <2>1. pc = "wait" /\ UNCHANGED <<pc, cur>> /\ st'[p] = "gone"
    BY <1>2 DEF ReapExited, loopVars, TypeOK
  <2>2. \A q \in Procs \ {p} : Quiet(q)
    BY <1>2 DEF ReapExited, Quiet, Heard, TypeOK, loopVars
  <2>3. \A q \in Procs \ {p} : ReportOK(q)'
    BY <2>1, <2>2, ReportFrame DEF ReportInv
  <2>4. ReportOK(p)'
    BY <2>1 DEF ReportOK, ReportAtEntry, ReportAtExit, ReportElsewhere, Working
  <2> QED BY <2>3, <2>4 DEF ReportInv
<1> QED BY <1>1, <1>2, ReportInvGetRegs, ReportInvOpenat, ReportInvFails, ReportInvResume
        DEF TracerLoop

\* The invariant about the reports, at every reachable state.
LEMMA ReportInvInvariant == Spec => []ReportInv
<1>1. TypeOK /\ DropInv /\ CallInv /\ Handshake /\ ReportInv /\ [Next]_vars => ReportInv'
  <2>1. CASE UNCHANGED vars
    BY <2>1 DEF vars, procVars, loopVars, ReportInv, ReportOK, ReportAtEntry, ReportAtExit,
                ReportElsewhere, Working, AskedSyscall, Untold, Told, HalfTold, Owes,
                Reported, Numbered
  <2> QED BY <2>1, ReportInvKernel, ReportInvTracerInit, ReportInvTracerLoop DEF Next
<1> QED BY <1>1, ReportInvInit, TypeCorrect, DropInvInvariant, CallInvInvariant,
           HandshakeInvariant, PTL DEF Spec

\* A call that has come to its end has been reported as it should.
LEMMA CallsTold == ReportInv => \A p \in Procs : Completed(p) => Told(p)
BY DEF ReportInv, ReportOK, ReportElsewhere, Completed

\* A call that no other tracee's stop interrupted was reported to each callback
\* as often as it should have been: the toggling of last_syscall in
\* handle_syscalls (tracer.c:106-127) tells its entry from its exit.
THEOREM CleanCallsReported == Spec => []CleanReportedOnce
<1>1. ReportInv => CleanReportedOnce
  BY CallsTold DEF CleanReportedOnce, Told, Reported
<1> QED BY <1>1, ReportInvInvariant, PTL

\* And it was refused exactly if a callback refused its path
\* (tracer.c:129-138), before it ran or, if last_syscall held its number when it
\* was entered, after (tracer.c:122).
THEOREM CleanDenialsAreDecided == Spec => []CleanDenialsDecided
<1>1. ReportInv => CleanDenialsDecided
  BY CallsTold DEF CleanDenialsDecided, Told, Reported
<1> QED BY <1>1, ReportInvInvariant, PTL
-----------------------------------------------------------------------------
(* With one tracee every call is clean: last_syscall is -1 whenever the      *)
(* process is outside a call, before its entry stop has been handled and     *)
(* once its exit stop has been.                                              *)

Alone == Procs = {Root} /\ Faults \cap {"getregs", "malloc"} = {}

Outside == st[Root] \in {"born", "jobstop", "user", "signal", "group", "trap"}

EntryAhead == /\ st[Root] = "entry" /\ ~obs[Root].dropped
              /\ ~Working(Root, {"openat", "setregs", "resume"})

ExitDone == st[Root] = "exit" /\ Working(Root, {"setregs", "resume"})

SingleInv == /\ obs[Root].clean /\ ~obs[Root].oom /\ ~obs[Root].stale
             /\ Outside \/ EntryAhead \/ ExitDone => last = -1

\* The kernel and tracer_init come to such a place only from another one.
LEMMA SingleKernel ==
  ASSUME Alone, TypeOK, CallInv, Handshake, ReportInv, SingleInv, Kernel \/ TracerInit
  PROVE  SingleInv'
<1> USE TracerAssumption DEF TracerAssumption
<1>1. Root \in Procs /\ \A p \in Procs : p = Root
  BY DEF Alone
<1>2. UNCHANGED <<cur, last>>
  BY DEF Kernel, TracerInit, TraceeInit, InterruptTrap, Kill, SendSignal, SignalStop,
         EnterCall, Exec, SkipCall, ExecOpen, ExecOther, CloneFails, ExecExit, ExecClone,
         Finish, InitWait, InitSeize, InitInterrupt, InitResume, InitCont, loopVars
<1>3. /\ obs'[Root].clean /\ ~obs'[Root].oom /\ ~obs'[Root].stale
      /\ obs[Root].dropped /\ st[Root] # "user" => obs'[Root].dropped
  <2>1. CASE UNCHANGED obs
    BY <2>1 DEF SingleInv
  <2>2. CASE \E r : obs' = [obs EXCEPT ![Root].ret = r]
    BY <2>2 DEF SingleInv, TypeOK, Observations
  <2>3. CASE obs' = [obs EXCEPT ![Root] = NewObs] /\ st[Root] = "user"
    BY <2>3 DEF NewObs, TypeOK
  <2>4. CASE Kernel
    <3>1. UNCHANGED obs \/ (\E r : obs' = [obs EXCEPT ![Root].ret = r])
            \/ (\E c \in Calls : EnterCall(Root, c))
      BY <1>1, <2>4 DEF Kernel, TraceeInit, InterruptTrap, Kill, SendSignal, SignalStop, Exec,
         SkipCall, ExecOpen, ExecOther, CloneFails, ExecExit, ExecClone, Finish
    <3> QED BY <2>1, <2>2, <2>3, <3>1 DEF EnterCall
  <2>5. CASE TracerInit
    BY <2>1, <2>5 DEF TracerInit, InitWait, InitSeize, InitInterrupt, InitResume, InitCont
  <2> QED BY <2>4, <2>5
<1>4. CASE Kernel
  <2>1. UNCHANGED pc
    BY <1>4 DEF Kernel, TraceeInit, InterruptTrap, Kill, SendSignal, SignalStop,
         EnterCall, Exec, SkipCall, ExecOpen, ExecOther, CloneFails, ExecExit, ExecClone,
         Finish, loopVars
  <2>2. \/ st'[Root] = st[Root]
        \/ st[Root] \in {"born", "user"}
        \/ st[Root] = "kernel" /\ st'[Root] \in {"exit", "fork", "exitev"}
        \/ st'[Root] \in {"zombie", "exitev"}
    BY <1>1, <1>4, ZenonT(60)
    DEF Kernel, TraceeInit, InterruptTrap, Kill, SendSignal, SignalStop, EnterCall, Exec,
        SkipCall, ExecOpen, ExecOther, CloneFails, ExecExit, ExecClone, Finish, StopAt, TypeOK
  <2>3. st[Root] = "kernel" => ~Working(Root, {"setregs", "resume"})
    <3>1. CallOK(Root) /\ ReportOK(Root)
      BY DEF CallInv, ReportInv
    <3> QED BY <3>1
            DEF CallOK, Elsewhere, ReportOK, ReportElsewhere, Working, Stops, SyscallStops,
                EventStops
  <2> QED BY <1>2, <1>3, <2>1, <2>2, <2>3
          DEF SingleInv, Outside, EntryAhead, ExitDone, Working
<1>5. CASE TracerInit
  <2>1. pc \notin Handling /\ pc' \notin Handling
    BY <1>5 DEF TracerInit, InitWait, InitSeize, InitInterrupt, InitResume, InitCont, Handling
  <2>2. \/ st'[Root] = st[Root]
        \/ st'[Root] \in {"gone", "zombie"}
        \/ st[Root] \in {"jobstop", "trap", "group", "signal"}
    <3>1. CASE InitResume
      BY <3>1 DEF InitResume, Handshake, Early, PtraceSyscall, StopAt, TypeOK, procVars
    <3>2. CASE ~InitResume
      BY <1>5, <3>2 DEF TracerInit, InitWait, InitSeize, InitInterrupt, InitCont, TypeOK
    <3> QED BY <3>1, <3>2
  <2>3. ~ExitDone' /\ ~Working(Root, {"openat", "setregs", "resume"})
    BY <2>1 DEF ExitDone, Working, Handling
  <2>4. st[Root] \in {"jobstop", "trap", "group", "signal"} => last = -1
    BY DEF SingleInv, Outside
  <2> QED BY <1>2, <1>3, <2>2, <2>3, <2>4 DEF SingleInv, Outside, EntryAhead
<1> QED BY <1>4, <1>5

\* The handler sets last_syscall at the entry stop and clears it at the exit.
LEMMA SingleLoop ==
  ASSUME Alone, TypeOK, DropInv, CallInv, ReportInv, SingleInv, TracerLoop
  PROVE  SingleInv'
<1> USE TracerAssumption DEF TracerAssumption
<1>1. Root \in Procs /\ (\A p \in Procs : p = Root) /\ cur = Root
  BY DEF Alone, TypeOK
<1>2. CallOK(Root) /\ ReportOK(Root)
  BY DEF CallInv, ReportInv
<1>3. ASSUME NEW p \in Procs, HandleStopped(p) PROVE SingleInv'
  <2>1. /\ p = Root /\ pc = "wait" /\ UNCHANGED <<st, last, obs>>
        /\ pc' = IF st[Root] \in SyscallStops THEN "getregs" ELSE "resume"
    BY <1>1, <1>3, SyscallStopsKnown
  <2>2. ~ExitDone'
    BY <2>1 DEF ExitDone, Working, SyscallStops
  <2>3. EntryAhead' => EntryAhead
    BY <2>1 DEF EntryAhead, Working
  <2> QED BY <2>1, <2>2, <2>3 DEF SingleInv, Outside
<1>4. ASSUME NEW p \in Procs, ReapExited(p) PROVE SingleInv'
  <2>1. st'[Root] = "gone" /\ UNCHANGED <<last, obs>>
    BY <1>1, <1>4 DEF ReapExited, TypeOK, loopVars
  <2> QED BY <2>1 DEF SingleInv, Outside, EntryAhead, ExitDone
<1>5. CASE GetRegs
  <2>1. /\ pc = "getregs" /\ pc' \in {"openat", "setregs"} /\ st[Root] \in Stops
        /\ UNCHANGED <<st, cur>>
        /\ last' = IF last = regs[Root].nr THEN -1 ELSE regs[Root].nr
    BY <1>1, <1>5 DEF GetRegs, Toggle, procVars
  <2>2. /\ obs[Root].clean => obs'[Root].clean
        /\ obs'[Root].oom = obs[Root].oom
        /\ obs'[Root].stale = IF st[Root] = "entry" THEN last = regs[Root].nr
                                                   ELSE obs[Root].stale
    BY <1>1, <1>5, ZenonT(60) DEF GetRegs, TypeOK, Observations
  <2>3. st[Root] = "entry" => last = -1 /\ regs[Root].nr \in Nat
    <3>1. st[Root] = "entry" => EntryAhead
      BY <1>1, <2>1, HandledNotDropped DEF EntryAhead, Working, Handling, SyscallStops
    <3> QED BY <1>1, <2>1, <3>1, AtGetRegs, CallType DEF SingleInv
  <2>4. st[Root] = "exit" => last' = -1
    BY <1>1, <2>1, AtGetRegs DEF SingleInv, Owes, Numbered
  <2>5. st[Root] \in {"entry", "exit", "exitev", "zombie"}
    BY <1>1, <2>1, AtGetRegs
  <2>6. obs'[Root].clean /\ ~obs'[Root].oom /\ ~obs'[Root].stale
    <3>1. CASE st[Root] = "entry"
      <4>1. last # regs[Root].nr
        BY <2>3, <3>1
      <4>2. obs'[Root].stale = (last = regs[Root].nr)
        BY <2>2, <3>1
      <4> QED BY <2>2, <4>1, <4>2 DEF SingleInv
    <3>2. CASE st[Root] # "entry"
      BY <2>2, <3>2 DEF SingleInv
    <3> QED BY <3>1, <3>2
  <2> QED BY <1>1, <2>1, <2>4, <2>5, <2>6 DEF SingleInv, Outside, EntryAhead, ExitDone, Working
<1>6. ~GetRegsFails /\ ~ReadStringFails
  BY DEF Alone, GetRegsFails, ReadStringFails
<1>7. CASE GetRegsGone
  <2>1. pc = "getregs" /\ pc' = "wait" /\ st[Root] \notin Stops /\ UNCHANGED <<st, cur, last, obs>>
    BY <1>1, <1>7 DEF GetRegsGone, procVars
  <2> QED BY <2>1 DEF SingleInv, Outside, EntryAhead, ExitDone, Working, Stops, SyscallStops
<1>8. CASE SyscallOpenat
  <2>1. pc = "openat" /\ pc' = "setregs" /\ UNCHANGED <<st, cur, last>>
    BY <1>8 DEF SyscallOpenat, procVars
  <2>2. /\ obs'[Root].clean = obs[Root].clean /\ obs'[Root].oom = obs[Root].oom
        /\ obs'[Root].stale = obs[Root].stale
    BY <1>1, <1>8 DEF SyscallOpenat, TypeOK, Observations
  <2>3. st[Root] # "exit"
    BY <1>1, <1>2, <2>1, HandledNotDropped
    DEF ReportOK, ReportAtExit, Working, SingleInv, Handling, SyscallStops
  <2> QED BY <1>1, <2>1, <2>2, <2>3 DEF SingleInv, Outside, EntryAhead, ExitDone, Working
<1>9. CASE SetRegs
  <2>1. pc = "setregs" /\ pc' = "resume" /\ UNCHANGED <<st, cur, last, obs>>
    BY <1>1, <1>9 DEF SetRegs
  <2> QED BY <1>1, <2>1
          DEF SingleInv, Outside, EntryAhead, ExitDone, Working, Stops, SyscallStops
<1>10. CASE Resume
  <2>1. pc = "resume" /\ pc' = "wait" /\ UNCHANGED <<cur, last, obs>> /\ ~ExitDone'
    BY <1>10 DEF Resume, ExitDone, Working
  <2>2. CASE PtraceSyscall(cur, inj)
    <3>1. \/ st'[Root] \in {"kernel", "exit", "zombie"}
          \/ st[Root] \in {"trap", "group", "signal"} /\ st'[Root] \in {"user", "group"}
          \/ st[Root] = "exit" /\ st'[Root] = "user"
      BY <1>1, <2>2 DEF PtraceSyscall, StopAt, TypeOK
    <3>2. st[Root] = "exit" => ExitDone
      BY <1>1, <2>1 DEF ExitDone, Working
    <3> QED BY <2>1, <3>1, <3>2 DEF SingleInv, Outside, EntryAhead
  <2>3. CASE st[cur] \notin Stops /\ UNCHANGED procVars
    <3>1. st[Root] \notin Stops /\ st'[Root] = st[Root]
      BY <1>1, <2>3 DEF procVars
    <3> QED BY <2>1, <3>1 DEF SingleInv, Outside, EntryAhead, Stops, SyscallStops
  <2> QED BY <1>10, <2>2, <2>3 DEF Resume
<1>11. CASE SetRegsFails
  <2>1. pc = "setregs" /\ pc' = "wait" /\ UNCHANGED <<st, cur, last>>
    BY <1>11 DEF SetRegsFails, procVars
  <2>2. /\ obs'[Root].clean = obs[Root].clean /\ obs'[Root].oom = obs[Root].oom
        /\ obs'[Root].stale = obs[Root].stale
    BY <1>1, <1>11 DEF SetRegsFails, TypeOK, Observations
  <2>3. ~ExitDone' /\ (Outside' => Outside)
    BY <2>1 DEF ExitDone, Outside, Working
  <2>4. st[Root] = "entry" => obs'[Root].dropped
    BY <1>1, <1>11 DEF SetRegsFails, Stops, SyscallStops, TypeOK, Observations
  <2> QED BY <2>1, <2>2, <2>3, <2>4 DEF SingleInv, EntryAhead
<1> QED BY <1>3, <1>4, <1>5, <1>6, <1>7, <1>8, <1>9, <1>10, <1>11 DEF TracerLoop

\* With a single tracee the toggle is never out of step, at every reachable state.
LEMMA SingleInvInvariant == Spec => [](Alone => SingleInv)
<1>1. Init => SingleInv
  BY TracerAssumption DEF Init, SingleInv, NewObs, TracerAssumption
<1>2. /\ TypeOK /\ DropInv /\ CallInv /\ Handshake /\ ReportInv
      /\ (Alone => SingleInv) /\ [Next]_vars
      => (Alone => SingleInv)'
  <2>1. CASE UNCHANGED vars
    BY <2>1 DEF vars, procVars, loopVars, SingleInv, Outside, EntryAhead, ExitDone, Working, Alone
  <2> QED BY <2>1, SingleKernel, SingleLoop DEF Next, Alone
<1> QED BY <1>1, <1>2, TypeCorrect, DropInvInvariant, CallInvInvariant,
           HandshakeInvariant, ReportInvInvariant, PTL DEF Spec

\* A single tracee has every call reported exactly as often as it should be
\* ("outputs all file reads that ls makes", libtracer/README.md:59).
THEOREM SingleCallsReported == Spec => []SingleReportedOnce
<1>1. ReportInv /\ (Alone => SingleInv) => SingleReportedOnce
  BY CallsTold, TracerAssumption
  DEF SingleInv, Alone, SingleReportedOnce, Told, Reported, TracerAssumption
<1> QED BY <1>1, ReportInvInvariant, SingleInvInvariant, PTL
=============================================================================
