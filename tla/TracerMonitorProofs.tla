----------------------- MODULE TracerMonitorProofs -----------------------
(***************************************************************************)
(* Machine-checked proofs of what the tracer does to a process: the signal *)
(* a process was stopped for is the one it is resumed with, and the tracer *)
(* of a single process implements OpenMonitor.                             *)
(***************************************************************************)
EXTENDS TracerReportProofs

(* The signal that PTRACE_SYSCALL will inject is chosen when the stop is    *)
(* collected, and belongs to the stop that is resumed.                      *)

Injected(s) == IF s \in {SIGTRAP, SIGCONT} THEN NoSignal ELSE s

SignalInv == pc = "resume" /\ st[cur] = "signal" => inj = Injected(sig[cur])

\* SignalInv survives whatever leaves the tracer where it is: a process that
\* the tracer is about to resume enters no stop.
LEMMA SignalFrame ==
  ASSUME ReportInv, SignalInv, TypeOK, UNCHANGED <<pc, cur, inj>>,
         \A p \in Procs : \/ st'[p] = st[p] /\ sig'[p] = sig[p]
                          \/ st'[p] # "signal"
                          \/ st[p] = "user"
  PROVE  SignalInv'
<1> SUFFICES ASSUME pc = "resume", st'[cur] = "signal" PROVE inj = Injected(sig'[cur])
  BY DEF SignalInv
<1>1. cur \in Procs
  BY DEF TypeOK
<1>2. st[cur] # "user"
  BY <1>1 DEF ReportInv, ReportOK, ReportElsewhere, Working, Stops, SyscallStops, EventStops
<1> QED BY <1>1, <1>2 DEF SignalInv

\* The signal that the tracer holds is the one that is due at every reachable state.
LEMMA SignalInvInvariant == Spec => []SignalInv
<1> USE TracerAssumption DEF TracerAssumption
<1>1. Init => SignalInv
  BY DEF Init, SignalInv
<1>2. TypeOK /\ CallInv /\ ReportInv /\ SignalInv /\ [Next]_vars => SignalInv'
  <2> SUFFICES ASSUME TypeOK, CallInv, ReportInv, SignalInv, [Next]_vars PROVE SignalInv'
    OBVIOUS
  <2>1. CASE Kernel
    <3>1. UNCHANGED <<pc, cur, inj>>
      BY <2>1 DEF Kernel, TraceeInit, InterruptTrap, Kill, SendSignal, SignalStop, EnterCall,
                  Exec, SkipCall, ExecOpen, ExecOther, CloneFails, ExecExit, ExecClone, Finish,
                  loopVars
    <3>2. ASSUME NEW p \in Procs
          PROVE  \/ st'[p] = st[p] /\ sig'[p] = sig[p]
                 \/ st'[p] # "signal"
                 \/ st[p] = "user"
      BY <2>1 DEF Kernel, TraceeInit, InterruptTrap, Kill, SendSignal, SignalStop, EnterCall,
                  Exec, SkipCall, ExecOpen, ExecOther, CloneFails, ExecExit, ExecClone, Finish,
                  StopAt, TypeOK
    <3> QED BY <3>1, <3>2, SignalFrame
  <2>2. CASE TracerInit
    <3>1. pc' # "resume"
      BY <2>2 DEF TracerInit, InitWait, InitSeize, InitInterrupt, InitResume, InitCont
    <3> QED BY <3>1 DEF SignalInv
  <2>3. ASSUME NEW p \in Procs, HandleStopped(p) PROVE SignalInv'
    <3> SUFFICES ASSUME st[p] = "signal" PROVE inj' = Injected(sig[p])
      BY <2>3 DEF SignalInv, HandleStopped
    <3>1. inj' = PassOn(sig[p])
      BY <2>3 DEF HandleStopped, WStopSig, SyscallStops, EventStops
    <3>2. sig[p] # SIGTRAP + 128
      BY DEF TypeOK, SignalNumbers, NoSignal, SIGTRAP
    <3> QED BY <3>1, <3>2 DEF PassOn, Injected
  <2>4. ASSUME NEW p \in Procs, ReapExited(p) PROVE SignalInv'
    BY <2>4 DEF ReapExited, SignalInv, loopVars
  <2>5. CASE GetRegs \/ GetRegsGone \/ SyscallOpenat \/ ReadStringFails \/ SetRegsFails
             \/ Resume
    <3>1. pc' # "resume"
      BY <2>5 DEF GetRegs, GetRegsGone, SyscallOpenat, ReadStringFails, SetRegsFails, Resume
    <3> QED BY <3>1 DEF SignalInv
  <2>6. CASE GetRegsFails \/ SetRegs
    <3>1. Working(cur, {"getregs", "openat", "setregs"}) /\ UNCHANGED <<st, cur>> /\ cur \in Procs
      BY <2>6 DEF GetRegsFails, SetRegs, Working, procVars, TypeOK
    <3>2. st[cur] # "signal"
      BY <3>1 DEF CallInv, CallOK, Elsewhere
    <3> QED BY <3>1, <3>2 DEF SignalInv
  <2>7. CASE UNCHANGED vars
    BY <2>7 DEF SignalInv, vars, procVars, loopVars
  <2> QED BY <2>1, <2>2, <2>3, <2>4, <2>5, <2>6, <2>7 DEF Next, TracerLoop
<1> QED BY <1>1, <1>2, TypeCorrect, CallInvInvariant, ReportInvInvariant, PTL DEF Spec

\* Every signal but SIGTRAP, SIGCONT and the start-up stop reaches the process
\* it was sent to: handle_stopped resumes the process with the signal it was
\* stopped for (tracer.c:76-83), whatever happened since waitpid returned.
THEOREM SignalsPassedOn == Spec => SignalsReinjected
<1> USE TracerAssumption DEF TracerAssumption
<1>1. TypeOK /\ SignalInv /\ [Next]_vars =>
        [\A p \in Procs :
           st[p] = "signal" /\ st'[p] \in {"user", "group"} /\ pc # "init_resume" =>
             /\ cur = p
             /\ inj = IF sig[p] \in {SIGTRAP, SIGCONT} THEN NoSignal ELSE sig[p]
             /\ st'[p] = "group" <=> sig[p] \in StopSignals]_vars
  <2> SUFFICES ASSUME TypeOK, SignalInv, Next, NEW p \in Procs,
                      st[p] = "signal", st'[p] \in {"user", "group"}, pc # "init_resume"
               PROVE  /\ cur = p /\ inj = Injected(sig[p])
                      /\ st'[p] = "group" <=> sig[p] \in StopSignals
    BY DEF Injected
  <2>1. ~Kernel
    BY DEF Kernel, TraceeInit, InterruptTrap, Kill, SendSignal, SignalStop, EnterCall,
           Exec, SkipCall, ExecOpen, ExecOther, CloneFails, ExecExit, ExecClone, Finish,
           StopAt, TypeOK
  <2>2. ~TracerInit
    BY DEF TracerInit, InitWait, InitSeize, InitInterrupt, InitResume, InitCont, TypeOK
  <2>3. Resume
    BY <2>1, <2>2
    DEF Next, TracerLoop, HandleStopped, ReapExited, GetRegs, GetRegsGone, GetRegsFails,
        SyscallOpenat, ReadStringFails, SetRegs, SetRegsFails, procVars, TypeOK
  <2>4. PtraceSyscall(cur, inj) /\ pc = "resume" /\ cur = p
    BY <2>3 DEF Resume, PtraceSyscall, StopAt, procVars, TypeOK
  <2>5. inj = Injected(sig[p])
    BY <2>4 DEF SignalInv
  <2>6. st'[p] = "group" <=> inj \in StopSignals
    BY <2>4 DEF PtraceSyscall, StopAt, TypeOK
  <2>7. inj \in StopSignals <=> sig[p] \in StopSignals
    BY <2>5 DEF Injected, StopSignals, SIGTRAP, SIGCONT, SIGSTOP, SIGTSTP, NoSignal
  <2> QED BY <2>4, <2>5, <2>6, <2>7
<1> QED BY <1>1, TypeCorrect, SignalInvInvariant, PTL DEF Spec, SignalsReinjected
-----------------------------------------------------------------------------
(* The tracer of a single process implements OpenMonitor. Besides the        *)
(* invariants of the call, this needs that no file callback is asked at the  *)
(* exit stop, where SetRegs would change the result a second time.           *)

PermInv == Working(Root, {"setregs"}) /\ st[Root] = "exit" => perm = 0

\* ... which is so at every reachable state.
LEMMA PermInvInvariant == ASSUME Alone PROVE Spec => []PermInv
<1> USE TracerAssumption DEF TracerAssumption
<1>1. Init => PermInv
  BY DEF Init, PermInv, Working
<1>2. TypeOK /\ DropInv /\ CallInv /\ ReportInv /\ (Alone => SingleInv) /\ PermInv
        /\ [Next]_vars => PermInv'
  <2> SUFFICES ASSUME TypeOK, DropInv, CallInv, ReportInv, SingleInv, PermInv, [Next]_vars
               PROVE  PermInv'
    OBVIOUS
  <2>1. CASE Kernel
    <3>1. UNCHANGED <<pc, cur, perm>>
      BY <2>1 DEF Kernel, TraceeInit, InterruptTrap, Kill, SendSignal, SignalStop, EnterCall,
                  Exec, SkipCall, ExecOpen, ExecOther, CloneFails, ExecExit, ExecClone, Finish,
                  loopVars
    <3>2. st'[Root] # "exit" \/ st'[Root] = st[Root] \/ st[Root] = "kernel"
      BY <2>1 DEF Kernel, TraceeInit, InterruptTrap, Kill, SendSignal, SignalStop, EnterCall,
                  Exec, SkipCall, ExecOpen, ExecOther, CloneFails, ExecExit, ExecClone, Finish,
                  StopAt, TypeOK
    <3>3. st[Root] = "kernel" => ~Working(Root, {"setregs"})
      BY DEF CallInv, CallOK, Elsewhere, Working
    <3> QED BY <3>1, <3>2, <3>3 DEF PermInv, Working
  <2>2. CASE TracerInit
    <3>1. pc' # "setregs"
      BY <2>2 DEF TracerInit, InitWait, InitSeize, InitInterrupt, InitResume, InitCont
    <3> QED BY <3>1 DEF PermInv, Working
  <2>3. ASSUME NEW p \in Procs, HandleStopped(p) \/ ReapExited(p) PROVE PermInv'
    <3>1. pc' # "setregs"
      BY <2>3 DEF HandleStopped, ReapExited, Dispatch, loopVars
    <3> QED BY <3>1 DEF PermInv, Working
  <2>4. CASE GetRegs \/ ReadStringFails
    <3>1. perm' = 0
      BY <2>4 DEF GetRegs, ReadStringFails, InitialPerm
    <3> QED BY <3>1 DEF PermInv
  <2>5. CASE GetRegsGone \/ GetRegsFails \/ SetRegs \/ SetRegsFails \/ Resume
    <3>1. pc' # "setregs"
      BY <2>5 DEF GetRegsGone, GetRegsFails, SetRegs, SetRegsFails, Resume
    <3> QED BY <3>1 DEF PermInv, Working
  <2>6. CASE SyscallOpenat
    <3>1. pc = "openat" /\ UNCHANGED <<st, cur>>
      BY <2>6 DEF SyscallOpenat, procVars
    <3>2. ~(Working(Root, {"openat"}) /\ st[Root] = "exit")
      BY <3>1, HandledNotDropped
      DEF ReportInv, ReportOK, ReportAtExit, SingleInv, Working, Handling, SyscallStops
    <3> QED BY <3>1, <3>2 DEF PermInv, Working
  <2>7. CASE UNCHANGED vars
    BY <2>7 DEF vars, loopVars, procVars, PermInv, Working
  <2> QED BY <2>1, <2>2, <2>3, <2>4, <2>5, <2>6, <2>7 DEF Next, TracerLoop
<1> QED BY <1>1, <1>2, TypeCorrect, DropInvInvariant, CallInvInvariant, ReportInvInvariant,
           SingleInvInvariant, PTL DEF Spec

\* Phases by where the process is, and the results that go with them.
PhaseByPlace ==
  /\ st[Root] \in Dead \cup {"exitev"} => Phase = "dead"
  /\ st[Root] = "entry" => Phase = "issued"
  /\ st[Root] = "kernel" => Phase = IF regs[Root].nr < 0 THEN "refused" ELSE "granted"
  /\ st[Root] \in {"exit", "fork"} =>
       Phase = IF obs[Root].ret = NotRun THEN "refused" ELSE "performed"
  /\ st[Root] \notin Dead \cup {"exitev", "entry", "kernel", "exit", "fork"} => Phase = "run"

ResultByPhase ==
  /\ Phase = "dead" => Result = 0
  /\ Phase = "issued" => Result = -ENOSYS
  /\ Phase \notin {"dead", "issued"} => Result = regs[Root].ax

\* They hold in every state, so before and after a step.
LEMMA Phases == PhaseByPlace /\ ResultByPhase
<1>1. PhaseByPlace
  <2>1. CASE st[Root] \in Dead \cup {"exitev"}
    BY <2>1 DEF Phase, Dead, PhaseByPlace
  <2>2. CASE st[Root] = "entry"
    BY <2>2 DEF Phase, Dead, PhaseByPlace
  <2>3. CASE st[Root] = "kernel"
    BY <2>3 DEF Phase, Dead, PhaseByPlace
  <2>4. CASE st[Root] \in {"exit", "fork"}
    BY <2>4 DEF Phase, Dead, PhaseByPlace
  <2>5. CASE st[Root] \notin Dead \cup {"exitev", "entry", "kernel", "exit", "fork"}
    BY <2>5 DEF Phase, Dead, PhaseByPlace
  <2> QED BY <2>1, <2>2, <2>3, <2>4, <2>5
<1>2. ResultByPhase
  BY DEF Result, ResultByPhase
<1> QED BY <1>1, <1>2

\* The same after a step.
LEMMA PhasesNext == (PhaseByPlace /\ ResultByPhase)'
BY Phases, PTL

\* A step that changes none of what the phase and the result are read off is
\* no step of the monitor; nor is one within the end of the process, or of the
\* result registers before the call runs.
LEMMA Stutters ==
  ASSUME call'[Root] = call[Root], obs'[Root].ret = obs[Root].ret,
         \/ /\ st'[Root] = st[Root]
            /\ regs'[Root] = regs[Root] \/ st[Root] = "entry"
         \/ st[Root] \in Dead \cup {"exitev"} /\ st'[Root] \in Dead \cup {"exitev"}
         \/ /\ st[Root] \notin Dead \cup {"exitev", "entry", "kernel", "exit", "fork"}
            /\ st'[Root] \notin Dead \cup {"exitev", "entry", "kernel", "exit", "fork"}
            /\ regs'[Root] = regs[Root]
         \/ st[Root] = "fork" /\ st'[Root] = "exit" /\ regs'[Root] = regs[Root]
  PROVE  UNCHANGED Monitor!vars
<1>1. CASE st'[Root] = st[Root] /\ regs'[Root] = regs[Root]
  <2>1. Phase' = Phase
    BY <1>1 DEF Phase
  <2> QED BY <1>1, <2>1 DEF Monitor!vars, Result
<1>2. CASE st'[Root] = "entry" /\ st[Root] = "entry"
  BY <1>2, Phases, PhasesNext DEF Monitor!vars, PhaseByPlace, ResultByPhase
<1>3. CASE st[Root] \in Dead \cup {"exitev"} /\ st'[Root] \in Dead \cup {"exitev"}
  BY <1>3, Phases, PhasesNext DEF Monitor!vars, PhaseByPlace, ResultByPhase
<1>4. CASE /\ st[Root] \notin Dead \cup {"exitev", "entry", "kernel", "exit", "fork"}
           /\ st'[Root] \notin Dead \cup {"exitev", "entry", "kernel", "exit", "fork"}
           /\ regs'[Root] = regs[Root]
  BY <1>4, Phases, PhasesNext DEF Monitor!vars, PhaseByPlace, ResultByPhase
<1>5. CASE st[Root] = "fork" /\ st'[Root] = "exit" /\ regs'[Root] = regs[Root]
  BY <1>5, Phases, PhasesNext DEF Monitor!vars, PhaseByPlace, ResultByPhase
<1> QED BY <1>1, <1>2, <1>3, <1>4, <1>5

\* An end of the process is the monitor's Die.
LEMMA Dies ==
  ASSUME call'[Root] = call[Root], st[Root] \notin Dead \cup {"exitev"},
         st'[Root] \in Dead \cup {"exitev"}
  PROVE  Monitor!Die
BY Phases, PhasesNext DEF Monitor!Die, PhaseByPlace, ResultByPhase

\* The kernel's steps: a call is issued, performed or skipped, or the process
\* dies.
LEMMA MonitorKernel ==
  ASSUME Alone, TypeOK, CallInv, Kernel
  PROVE  [Monitor!Next]_Monitor!vars
<1> USE TracerAssumption DEF TracerAssumption
<1>1. Root \in Procs /\ \A p \in Procs : p = Root
  BY DEF Alone
<1>2. CASE TraceeInit \/ InterruptTrap \/ (\E s \in Signals : SendSignal(Root, s))
             \/ (\E s \in pend[Root] : SignalStop(Root, s))
  <2>1. UNCHANGED <<call, obs, regs>>
    BY <1>2 DEF TraceeInit, InterruptTrap, SendSignal, SignalStop
  <2>2. \/ st'[Root] = st[Root]
        \/ st[Root] \in {"born", "user"} /\ st'[Root] \in {"user", "jobstop", "trap", "signal"}
    BY <1>2 DEF TraceeInit, InterruptTrap, SendSignal, SignalStop, StopAt, TypeOK
  <2>3. UNCHANGED Monitor!vars
    BY <2>1, <2>2, Stutters DEF Dead
  <2> QED BY <2>3
<1>3. CASE Kill(Root) \/ ExecExit(Root)
  <2>1. UNCHANGED <<call, obs, regs>> /\ st'[Root] \in Dead \cup {"exitev"}
    BY <1>1, <1>3 DEF Kill, ExecExit, StopAt, TypeOK, Dead
  <2> QED BY <2>1, Dies, Stutters DEF Monitor!Next
<1>4. ASSUME NEW c \in Calls, EnterCall(Root, c) PROVE Monitor!Issue(c)
  <2>1. st[Root] = "user" /\ st'[Root] = "entry" /\ call'[Root] = c
    BY <1>1, <1>4 DEF EnterCall, StopAt, TypeOK
  <2> QED BY <2>1, Phases, PhasesNext
          DEF Monitor!Issue, Monitor!Pending, ENOSYS, PhaseByPlace, ResultByPhase, Dead
<1>5. ASSUME st[Root] = "kernel" PROVE Decided(Root) /\ (~obs[Root].denied => regs[Root].nr \in Nat)
  <2>1. Decided(Root)
    BY <1>1, <1>5 DEF CallInv, CallOK, Elsewhere
  <2>2. ~obs[Root].denied => regs[Root].nr \in Nat
    BY <2>1, CallType DEF Decided, Undecided
  <2> QED BY <2>1, <2>2
<1>6. CASE SkipCall(Root)
  <2>1. /\ st[Root] = "kernel" /\ regs[Root].nr < 0 /\ st'[Root] = "exit"
        /\ UNCHANGED <<call, regs, obs>>
    BY <1>1, <1>6 DEF SkipCall, StopAt, TypeOK
  <2>2. obs[Root].ret = NotRun
    BY <1>5, <2>1 DEF Decided
  <2>3. Phase = "refused" /\ Phase' = "refused"
    BY <2>1, <2>2, Phases, PhasesNext DEF PhaseByPlace
  <2>4. UNCHANGED Monitor!vars
    BY <2>1, <2>3 DEF Monitor!vars, Result
  <2> QED BY <2>4
<1>7. ASSUME NEW r \in {-ENOENT, 0, -EAGAIN}, st[Root] = "kernel", regs[Root].nr \in Nat,
             Finish(Root, r)
      PROVE  Monitor!Perform
  <2>1. st'[Root] = "exit" /\ call' = call /\ regs'[Root].ax = r /\ obs'[Root].ret = r
    BY <1>1, <1>7 DEF Finish, StopAt, TypeOK, Regs, Observations
  <2>2. r # NotRun /\ r \in Int \ {Monitor!Pending}
    BY DEF ENOENT, EAGAIN, NotRun, Monitor!Pending
  <2>3. Phase = "granted" /\ Phase' = "performed"
    BY <1>7, <2>1, <2>2, Phases, PhasesNext DEF PhaseByPlace
  <2>4. Result' = r
    BY <2>1, <2>3, PhasesNext DEF ResultByPhase
  <2> QED BY <2>1, <2>2, <2>3, <2>4 DEF Monitor!Perform
<1>8. CASE ExecOpen(Root) \/ ExecOther(Root) \/ CloneFails(Root)
  <2>1. /\ st[Root] = "kernel"
        /\ Finish(Root, -ENOENT) \/ Finish(Root, 0) \/ Finish(Root, -EAGAIN)
    BY <1>8 DEF ExecOpen, ExecOther, CloneFails
  <2>2. regs[Root].nr \in OtherCalls \cup {SYS_openat, SYS_clone}
    BY <1>8 DEF ExecOpen, ExecOther, CloneFails
  <2>3. regs[Root].nr \in Nat
    BY <2>2, NumberTypes
  <2> QED BY <1>7, <2>1, <2>3 DEF Monitor!Next
<1>9. ASSUME NEW c \in Procs PROVE ~ExecClone(Root, c)
  BY <1>1, <1>9 DEF ExecClone
<1> QED
  <2>1. \/ TraceeInit \/ InterruptTrap \/ (\E s \in Signals : SendSignal(Root, s))
        \/ (\E s \in pend[Root] : SignalStop(Root, s))
        \/ Kill(Root) \/ ExecExit(Root)
        \/ (\E c \in Calls : EnterCall(Root, c))
        \/ SkipCall(Root)
        \/ ExecOpen(Root) \/ ExecOther(Root) \/ CloneFails(Root)
        \/ (\E c \in Procs : ExecClone(Root, c))
    BY <1>1 DEF Kernel, Exec
  <2> QED BY <1>2, <1>3, <1>4, <1>6, <1>8, <1>9, <2>1 DEF Monitor!Next

\* tracer_init does nothing that the monitor sees but reap a dead child: the
\* child has made no call when it is resumed.
LEMMA MonitorTracerInit ==
  ASSUME Alone, TypeOK, Handshake, TracerInit
  PROVE  UNCHANGED Monitor!vars
<1> USE TracerAssumption DEF TracerAssumption
<1>1. UNCHANGED <<call, obs, regs>>
  BY DEF TracerInit, InitWait, InitSeize, InitInterrupt, InitResume, InitCont, PtraceSyscall,
         procVars
<1>2. \/ st'[Root] = st[Root]
      \/ st[Root] = "zombie" /\ st'[Root] = "gone"
      \/ st[Root] = "exitev" /\ st'[Root] = "zombie"
      \/ /\ st[Root] \in {"jobstop", "trap", "group", "signal"}
         /\ st'[Root] \in {"user", "group"}
  <2>1. CASE InitResume
    BY <2>1 DEF InitResume, Handshake, Early, PtraceSyscall, StopAt, TypeOK, procVars
  <2>2. CASE ~InitResume
    BY <2>2 DEF TracerInit, InitWait, InitSeize, InitInterrupt, InitCont, TypeOK
  <2> QED BY <2>1, <2>2
<1> QED BY <1>1, <1>2, Stutters DEF Dead

\* PTRACE_SYSCALL at the entry stop lets the call run or skip it, as the
\* callbacks decided; at the exit stop it returns to the program.
LEMMA MonitorResume ==
  ASSUME Alone, TypeOK, DropInv, CallInv, ReportInv, SingleInv, Resume
  PROVE  [Monitor!Next]_Monitor!vars
<1> USE TracerAssumption DEF TracerAssumption
<1>1. Root \in Procs /\ cur = Root /\ pc = "resume" /\ UNCHANGED <<call, obs, regs>>
  BY DEF Alone, TypeOK, Resume, PtraceSyscall, procVars
<1>2. CASE UNCHANGED procVars
  <2>1. UNCHANGED Monitor!vars
    BY <1>1, <1>2, Stutters DEF procVars
  <2> QED BY <2>1
<1>3. CASE PtraceSyscall(Root, inj)
  <2>1. CASE st[Root] = "entry"
    <3>0. ~obs[Root].dropped
      BY <1>1, <2>1, HandledNotDropped DEF Handling, SyscallStops
    <3>1. Decided(Root) /\ Told(Root) /\ call[Root] \in Calls
      BY <1>1, <2>1, <3>0 DEF CallInv, CallOK, AtEntry, ReportInv, ReportOK, ReportAtEntry,
                              ReportElsewhere, Numbered, Working, HalfTold, SingleInv
    <3>2. obs[Root].denied <=> call[Root] \in RefusedCalls
      BY <3>1 DEF Told, Reported, SingleInv, RefusedCalls
    <3>3. st'[Root] = "kernel"
      BY <1>1, <1>3, <2>1 DEF PtraceSyscall, TypeOK
    <3>4. Phase = "issued" /\ Result = -ENOSYS
      BY <2>1, Phases DEF PhaseByPlace, ResultByPhase
    <3>5. CASE obs[Root].denied
      <4>1. regs'[Root].nr = -EPERM /\ regs'[Root].ax = -EPERM
        BY <1>1, <3>1, <3>5 DEF Decided
      <4>2. Phase' = "refused"
        BY <3>3, <4>1, PhasesNext DEF PhaseByPlace, EPERM
      <4>3. Result' = -EPERM
        BY <4>1, <4>2, PhasesNext DEF ResultByPhase
      <4>4. Monitor!Refuse
        BY <1>1, <3>2, <3>4, <3>5, <4>2, <4>3 DEF Monitor!Refuse, Monitor!EPERM, EPERM
      <4> QED BY <4>4 DEF Monitor!Next
    <3>6. CASE ~obs[Root].denied
      <4>1. regs'[Root].nr \in Nat /\ regs'[Root].ax = -ENOSYS
        BY <1>1, <3>1, <3>6, CallType DEF Decided, Undecided
      <4>2. Phase' = "granted"
        BY <3>3, <4>1, PhasesNext DEF PhaseByPlace
      <4>3. Result' = -ENOSYS
        BY <4>1, <4>2, PhasesNext DEF ResultByPhase
      <4>4. Monitor!Grant
        BY <1>1, <3>2, <3>4, <3>6, <4>2, <4>3 DEF Monitor!Grant
      <4> QED BY <4>4 DEF Monitor!Next
    <3> QED BY <3>5, <3>6
  <2>2. CASE st[Root] = "exit"
    <3>1. st'[Root] = "user"
      BY <1>1, <1>3, <2>2 DEF PtraceSyscall, TypeOK
    <3>2. Phase \in {"refused", "performed"} /\ Phase' = "run"
      BY <2>2, <3>1, Phases, PhasesNext DEF PhaseByPlace, Dead
    <3>3. Result' = Result
      BY <1>1, <3>2 DEF Result
    <3>4. Monitor!Return
      BY <1>1, <3>2, <3>3 DEF Monitor!Return
    <3> QED BY <3>4 DEF Monitor!Next
  <2>3. CASE st[Root] \notin {"entry", "exit"}
    <3>1. \/ st[Root] = "fork" /\ st'[Root] = "exit"
          \/ st[Root] = "exitev" /\ st'[Root] = "zombie"
          \/ /\ st[Root] \in {"trap", "group", "signal"}
             /\ st'[Root] \in {"user", "group"}
      BY <1>1, <1>3, <2>3 DEF PtraceSyscall, StopAt, TypeOK
    <3>2. UNCHANGED Monitor!vars
      BY <1>1, <3>1, Stutters DEF Dead
    <3> QED BY <3>2
  <2> QED BY <2>1, <2>2, <2>3
<1> QED BY <1>1, <1>2, <1>3 DEF Resume

\* The rest of the loop decides within the entry stop and changes nothing at
\* the exit stop.
LEMMA MonitorLoop ==
  ASSUME Alone, TypeOK, DropInv, CallInv, ReportInv, SingleInv, PermInv, TracerLoop
  PROVE  [Monitor!Next]_Monitor!vars
<1> USE TracerAssumption DEF TracerAssumption
<1>1. Root \in Procs /\ (\A p \in Procs : p = Root) /\ cur = Root
  BY DEF Alone, TypeOK
<1>2. CASE HandleStopped(Root) \/ GetRegsGone
  BY <1>2, Stutters DEF HandleStopped, GetRegsGone, procVars
<1>3. CASE ReapExited(Root)
  <2>1. UNCHANGED <<call, obs, regs>> /\ st[Root] = "zombie" /\ st'[Root] = "gone"
    BY <1>1, <1>3 DEF ReapExited, TypeOK
  <2> QED BY <2>1, Stutters DEF Dead
<1>4. CASE GetRegs \/ SyscallOpenat
  <2>1. UNCHANGED <<st, call, regs>>
    BY <1>4 DEF GetRegs, SyscallOpenat, procVars
  <2>2. obs'[Root].ret = obs[Root].ret
    <3>1. CASE GetRegs
      BY <1>1, <3>1, ZenonT(60) DEF GetRegs, TypeOK, Observations
    <3>2. CASE SyscallOpenat
      BY <1>1, <3>2 DEF SyscallOpenat, TypeOK, Observations
    <3> QED BY <1>4, <3>1, <3>2
  <2> QED BY <2>1, <2>2, Stutters
<1>5. ~GetRegsFails /\ ~ReadStringFails
  BY DEF Alone, GetRegsFails, ReadStringFails
<1>6. CASE SetRegs
  <2>1. pc = "setregs" /\ UNCHANGED <<st, call, obs>>
    BY <1>6 DEF SetRegs
  <2>2. CallOK(Root)
    BY <1>1 DEF CallInv
  <2>3. st[Root] \in {"entry", "exit", "exitev", "zombie"}
    BY <1>1, <2>1, <2>2 DEF CallOK, Elsewhere, Working
  <2>4. ASSUME st[Root] = "exit" PROVE regs'[Root] = regs[Root]
    <3>1. treg = regs[Root] /\ perm = 0
      BY <1>1, <2>1, <2>2, <2>4, HandledNotDropped
      DEF CallOK, AtExit, Working, PermInv, Handling, SyscallStops
    <3> QED BY <1>1, <1>6, <3>1 DEF SetRegs, TypeOK
  <2> QED BY <2>1, <2>3, <2>4, Stutters DEF Dead
<1>7. CASE SetRegsFails
  <2>1. UNCHANGED <<st, call, regs>> /\ obs'[Root].ret = obs[Root].ret
    BY <1>1, <1>7 DEF SetRegsFails, procVars, TypeOK, Observations
  <2> QED BY <2>1, Stutters
<1>8. \/ HandleStopped(Root) \/ ReapExited(Root) \/ GetRegs \/ GetRegsGone \/ GetRegsFails
      \/ SyscallOpenat \/ ReadStringFails \/ SetRegs \/ SetRegsFails \/ Resume
  BY <1>1 DEF TracerLoop
<1> QED BY <1>2, <1>3, <1>4, <1>5, <1>6, <1>7, <1>8, MonitorResume

\* When a single process is traced and neither malloc nor PTRACE_GETREGS fails,
\* libtracer implements the monitor: every call is decided once, between the
\* two stops that handle_syscalls toggles through (tracer.c:104-144), a refused
\* one never runs, and the exit stop changes nothing.
THEOREM SingleImplementsMonitor == ASSUME Alone PROVE Spec => ImplementsMonitor
<1> USE TracerAssumption DEF TracerAssumption
<1>1. Init => Monitor!Init
  <2> SUFFICES ASSUME Init PROVE Monitor!Init
    OBVIOUS
  <2>1. st[Root] = "born" /\ call[Root] = NoCall /\ regs[Root].ax = 0
    BY DEF Init, NoRegs
  <2>2. Phase = "run"
    BY <2>1, Phases DEF PhaseByPlace, Dead
  <2> QED BY <2>1, <2>2, Phases DEF Monitor!Init, ResultByPhase
<1>2. /\ TypeOK /\ DropInv /\ CallInv /\ Handshake /\ ReportInv /\ (Alone => SingleInv) /\ PermInv
      /\ [Next]_vars
      => [Monitor!Next]_Monitor!vars
  <2>1. CASE UNCHANGED vars
    BY <2>1, Stutters DEF vars, procVars
  <2> QED BY <2>1, MonitorKernel, MonitorTracerInit, MonitorLoop DEF Next
<1> QED BY <1>1, <1>2, TypeCorrect, DropInvInvariant, CallInvInvariant, HandshakeInvariant,
           ReportInvInvariant, SingleInvInvariant, PermInvInvariant, PTL DEF Spec, ImplementsMonitor, Monitor!Spec
=============================================================================
