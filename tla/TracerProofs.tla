---------------------------- MODULE TracerProofs ----------------------------
(***************************************************************************)
(* Machine-checked proofs about Tracer, for any set of processes, calls,   *)
(* signals, callbacks and faults.                                          *)
(***************************************************************************)
EXTENDS Tracer, TLAPS

\* Call numbers, signal numbers and results are in their types; the proofs
\* below use these facts and never the numbers.
LEMMA NumberTypes ==
  /\ {SYS_openat, SYS_clone, SYS_exit_group} \subseteq Nat
  /\ {SIGSTOP, SIGTSTP, SIGCONT, SIGTRAP} \subseteq SignalNumbers
  /\ {-EPERM, -ENOENT, -EAGAIN, -ENOSYS, NotRun} \subseteq Int
BY DEF SYS_openat, SYS_clone, SYS_exit_group, SIGSTOP, SIGTSTP, SIGCONT, SIGTRAP,
       SignalNumbers, EPERM, ENOENT, EAGAIN, ENOSYS, NotRun

\* The calls a program can make have numbers.
LEMMA CallType == \A c \in Calls : c.nr \in Nat
<1> SUFFICES ASSUME NEW c \in Calls PROVE c.nr \in Nat
  OBVIOUS
<1>1. c.nr \in OtherCalls \cup {SYS_openat, SYS_clone, SYS_exit_group}
  BY DEF Calls
<1>2. OtherCalls \subseteq Nat
  BY TracerAssumption DEF TracerAssumption
<1> QED BY <1>1, <1>2, NumberTypes

\* The types of the record-valued variables' initial values.
LEMMA InitialTypes == NoRegs \in Regs /\ NewObs \in Observations
BY DEF NoRegs, Regs, NewObs, Observations, NotRun

\* Counting a callback keeps the counts natural numbers.
LEMMA BumpType ==
  ASSUME NEW n \in [Callbacks -> Nat], NEW cbs PROVE Bump(n, cbs) \in [Callbacks -> Nat]
BY DEF Bump

\* Recording a result keeps the record in its type.
LEMMA ResultType ==
  ASSUME NEW o \in Observations, NEW r \in Int PROVE [o EXCEPT !.ret = r] \in Observations
BY DEF Observations

\* Where a process can be.
LEMMA PlaceTypes ==
  /\ "born" \in Places /\ "jobstop" \in Places /\ "user" \in Places /\ "kernel" \in Places
  /\ "absent" \in Places /\ "zombie" \in Places /\ "gone" \in Places
  /\ "entry" \in Places /\ "exit" \in Places /\ "fork" \in Places /\ "exitev" \in Places
  /\ "trap" \in Places /\ "group" \in Places /\ "signal" \in Places
BY DEF Places, Stops, Dead, SyscallStops, EventStops

\* Posting a signal keeps the pending sets sets of signals.
LEMMA PostType ==
  ASSUME NEW p \in Procs, NEW s \in SignalNumbers, pend \in [Procs -> SUBSET SignalNumbers]
  PROVE  Post(p, s) \in [Procs -> SUBSET SignalNumbers]
BY DEF Post

\* The type invariant: no handler of tracer.c and no kernel step takes a
\* variable out of its type.
THEOREM TypeCorrect == Spec => []TypeOK
<1> USE TracerAssumption DEF TracerAssumption
<1>1. Init => TypeOK
  <2> SUFFICES ASSUME Init PROVE TypeOK
    OBVIOUS
  <2>1. st \in [Procs -> Places]
    BY PlaceTypes DEF Init
  <2>2. call \in [Procs -> Calls \cup {NoCall}] /\ regs \in [Procs -> Regs]
        /\ obs \in [Procs -> Observations] /\ treg \in Regs
    BY InitialTypes DEF Init
  <2>3. ncalls \in [Procs -> 0..MaxCalls] /\ last \in Int /\ perm \in {-1, 0}
        /\ inj \in SignalNumbers \cup {NoSignal}
    BY NumberTypes DEF Init
  <2> QED BY <2>1, <2>2, <2>3, NumberTypes DEF Init, TypeOK
<1>2. TypeOK /\ [Next]_vars => TypeOK'
  <2> SUFFICES ASSUME TypeOK, [Next]_vars PROVE TypeOK'
    OBVIOUS
  <2>1. CASE TraceeInit
    BY <2>1, PostType, PlaceTypes, NumberTypes DEF TypeOK, TraceeInit, loopVars
  <2>2. CASE InterruptTrap
    BY <2>2, PostType, PlaceTypes, NumberTypes DEF TypeOK, InterruptTrap, StopAt, loopVars
  <2>3. ASSUME NEW p \in Procs, Kill(p) PROVE TypeOK'
    <3>1. StopAt(p, "zombie") \/ StopAt(p, "exitev")
      BY <2>3 DEF Kill
    <3>2. st' \in [Procs -> Places] /\ seen' \in [Procs -> BOOLEAN]
      BY <3>1, PlaceTypes, ZenonT(60) DEF TypeOK, StopAt
    <3> QED BY <2>3, <3>2 DEF TypeOK, Kill, loopVars
  <2>4. ASSUME NEW p \in Procs, NEW s \in Signals, SendSignal(p, s) PROVE TypeOK'
    BY <2>4, PostType DEF TypeOK, SendSignal, loopVars
  <2>5. ASSUME NEW p \in Procs, NEW s \in pend[p], SignalStop(p, s) PROVE TypeOK'
    BY <2>5, PlaceTypes DEF TypeOK, SignalStop, StopAt, loopVars
  <2>6. ASSUME NEW p \in Procs, NEW c \in Calls, EnterCall(p, c) PROVE TypeOK'
    <3>1. [nr |-> c.nr, ax |-> -ENOSYS] \in Regs
      BY CallType, NumberTypes DEF Regs
    <3> QED BY <2>6, <3>1, InitialTypes, PlaceTypes DEF TypeOK, EnterCall, StopAt, loopVars
  <2>7. ASSUME NEW p \in Procs, SkipCall(p) PROVE TypeOK'
    BY <2>7, PlaceTypes DEF TypeOK, SkipCall, StopAt, loopVars
  <2>8. ASSUME NEW p \in Procs, NEW r \in Int, Finish(p, r) PROVE TypeOK'
    <3>1. [regs[p] EXCEPT !.ax = r] \in Regs
      BY DEF TypeOK, Regs
    <3>2. [obs[p] EXCEPT !.ret = r] \in Observations
      BY ResultType DEF TypeOK
    <3> QED BY <2>8, <3>1, <3>2, PlaceTypes DEF TypeOK, Finish, StopAt, loopVars
  <2>9. ASSUME NEW p \in Procs, ExecOpen(p) \/ ExecOther(p) \/ CloneFails(p) PROVE TypeOK'
    <3>1. Finish(p, -ENOENT) \/ Finish(p, 0) \/ Finish(p, -EAGAIN)
      BY <2>9 DEF ExecOpen, ExecOther, CloneFails
    <3> QED BY <3>1, <2>8, NumberTypes
  <2>10. ASSUME NEW p \in Procs, ExecExit(p) PROVE TypeOK'
    BY <2>10, PlaceTypes DEF TypeOK, ExecExit, StopAt, loopVars
  <2>11. ASSUME NEW p \in Procs, NEW c \in Procs, ExecClone(p, c) PROVE TypeOK'
    <3>1. [regs[p] EXCEPT !.ax = 0] \in Regs
      BY DEF TypeOK, Regs
    <3>2. [obs[p] EXCEPT !.ret = 0] \in Observations
      <4>1. obs[p] \in Observations /\ 0 \in Int
        BY DEF TypeOK
      <4> QED BY <4>1, ResultType, Zenon
    <3> QED BY <2>11, <3>1, <3>2, PlaceTypes DEF TypeOK, ExecClone, loopVars
  <2>12. ASSUME NEW p \in Procs, NEW s \in SignalNumbers \cup {NoSignal}, PtraceSyscall(p, s)
         PROVE  /\ st' \in [Procs -> Places]
                /\ sig' \in [Procs -> SignalNumbers \cup {NoSignal}]
                /\ seen' \in [Procs -> BOOLEAN]
                /\ UNCHANGED <<pend, intr, seized, ncalls, call, regs>>
    <3>1. \E w \in Places : st' = [st EXCEPT ![p] = w]
      BY <2>12, PlaceTypes DEF PtraceSyscall, StopAt
    <3>2. sig' = sig \/ sig' = [sig EXCEPT ![p] = s]
      BY <2>12 DEF PtraceSyscall
    <3>3. seen' = seen \/ seen' = [seen EXCEPT ![p] = FALSE]
      BY <2>12 DEF PtraceSyscall, StopAt
    <3> QED BY <2>12, <3>1, <3>2, <3>3, ZenonT(60) DEF TypeOK, PtraceSyscall
  <2>13. CASE TracerInit
    <3>1. CASE InitWait
      BY <3>1, PlaceTypes DEF TypeOK, InitWait
    <3>2. CASE InitSeize
      <4>1. st' \in [Procs -> Places] /\ sig' \in [Procs -> SignalNumbers \cup {NoSignal}]
        BY <3>2, PlaceTypes, NumberTypes DEF TypeOK, InitSeize
      <4>2. seized' \in BOOLEAN /\ pc' \in {"wait", "init_interrupt"}
        BY <3>2 DEF TypeOK, InitSeize
      <4> QED BY <3>2, <4>1, <4>2 DEF TypeOK, InitSeize
    <3>3. CASE InitInterrupt
      BY <3>3 DEF TypeOK, InitInterrupt
    <3>4. CASE InitResume
      <4>1. CASE PtraceSyscall(Root, NoSignal)
        BY <2>12, <3>4, <4>1, NumberTypes DEF TypeOK, InitResume
      <4>2. CASE UNCHANGED procVars
        BY <3>4, <4>2 DEF TypeOK, InitResume, procVars
      <4> QED BY <3>4, <4>1, <4>2 DEF InitResume
    <3>5. CASE InitCont
      BY <3>5, PostType, NumberTypes DEF TypeOK, InitCont
    <3> QED BY <2>13, <3>1, <3>2, <3>3, <3>4, <3>5 DEF TracerInit
  <2>14. ASSUME NEW p \in Procs, HandleStopped(p) PROVE TypeOK'
    <3>1. PassOn(WStopSig(p)) \in SignalNumbers \cup {NoSignal}
      BY DEF TypeOK, PassOn, WStopSig, SIGTRAP, SignalNumbers
    <3>2. Dispatch(WStopSig(p)) \in Handling
      BY DEF Dispatch, Handling
    <3> QED BY <2>14, <3>1, <3>2 DEF TypeOK, HandleStopped
  <2>15. ASSUME NEW p \in Procs, ReapExited(p) PROVE TypeOK'
    BY <2>15, PlaceTypes DEF TypeOK, ReapExited, loopVars
  <2>16. CASE GetRegs
    <3>1. regs[cur].nr \in Int /\ regs[cur] \in Regs
      BY DEF TypeOK, Regs
    <3>2. last' \in Int
      <4>1. CASE last = regs[cur].nr
        <5>1. Toggle(regs[cur].nr) = -1
          BY <4>1 DEF Toggle
        <5>2. last' = -1
          BY <2>16, <5>1 DEF GetRegs
        <5> QED BY <5>2
      <4>2. CASE last # regs[cur].nr
        BY <2>16, <3>1, <4>2 DEF GetRegs, Toggle
      <4> QED BY <4>1, <4>2
    <3>3. perm' = 0 /\ treg' \in Regs
      BY <2>16, <3>1 DEF GetRegs, InitialPerm
    <3>4. pc' \in Handling
      BY <2>16 DEF GetRegs, Handling
    <3>5. obs' \in [Procs -> Observations]
      <4>1. ASSUME NEW p \in Procs PROVE obs'[p] \in Observations
        <5>1. obs[p] \in Observations /\ obs[p].n \in [Callbacks -> Nat]
          BY DEF TypeOK, Observations
        <5>2. CASE p # cur
          BY <2>16, <5>1, <5>2 DEF GetRegs, Observations
        <5>3. CASE p = cur
          <6> DEFINE n == Bump(obs[p].n, IF last' # -1 THEN Cbs \cap {"syscall"} ELSE {})
                     e == obs[p].clean \/ st[p] = "entry"
                     f == IF st[p] = "entry" THEN last = regs[p].nr ELSE obs[p].stale
          <6>1. n \in [Callbacks -> Nat] /\ e \in BOOLEAN /\ f \in BOOLEAN
            BY <5>1, BumpType DEF Observations
          <6>2. obs'[p] = [obs[p] EXCEPT !.n = n, !.clean = e, !.stale = f]
            BY <2>16, <5>3 DEF GetRegs
          <6> HIDE DEF n, e, f
          <6> QED BY <5>1, <6>1, <6>2 DEF Observations
        <5> QED BY <5>2, <5>3
      <4>2. obs' = [p \in Procs |-> obs'[p]]
        BY <2>16 DEF GetRegs
      <4> QED BY <4>1, <4>2
    <3> QED BY <2>16, <3>2, <3>3, <3>4, <3>5 DEF TypeOK, GetRegs, procVars
  <2>17. CASE GetRegsGone
    BY <2>17 DEF TypeOK, GetRegsGone, procVars
  <2>18. CASE GetRegsFails
    <3>1. [obs[cur] EXCEPT !.clean = FALSE] \in Observations
      BY ZenonT(60) DEF TypeOK, Observations
    <3> QED BY <2>18, <3>1 DEF TypeOK, GetRegsFails, procVars, Handling
  <2>19. CASE SyscallOpenat
    <3> DEFINE acc  == call[cur].acc
               path == IF st[cur] \in Stops THEN call[cur].path ELSE NoPath
               n    == Bump(obs[cur].n, Asked(acc))
               d    == obs[cur].denied \/ Refuses(acc, path)
    <3>1. n \in [Callbacks -> Nat] /\ d \in BOOLEAN /\ obs[cur] \in Observations
      BY BumpType DEF TypeOK, Observations, Refuses
    <3>2. /\ obs' = [obs EXCEPT ![cur] = [@ EXCEPT !.n = n, !.denied = d]]
          /\ perm' = Verdict(acc, path) /\ pc' = "setregs"
          /\ UNCHANGED <<procVars, cur, last, treg, inj>>
      BY <2>19 DEF SyscallOpenat
    <3>3. Verdict(acc, path) \in {-1, 0}
      BY DEF Verdict
    <3> HIDE DEF n, d
    <3>4. [obs[cur] EXCEPT !.n = n, !.denied = d] \in Observations
      BY <3>1 DEF Observations
    <3> QED BY <3>2, <3>3, <3>4 DEF TypeOK, procVars, Handling
  <2>20. CASE ReadStringFails
    <3>1. [obs[cur] EXCEPT !.oom = TRUE] \in Observations
      BY ZenonT(60) DEF TypeOK, Observations
    <3> QED BY <2>20, <3>1 DEF TypeOK, ReadStringFails, procVars, Handling
  <2>21. CASE SetRegs
    <3>1. (IF perm = -1 THEN Refusal(treg) ELSE treg) \in Regs
      BY NumberTypes DEF TypeOK, Refusal, Regs
    <3> QED BY <2>21, <3>1, InitialTypes DEF TypeOK, SetRegs, Handling
  <2>24. CASE SetRegsFails
    <3>1. [obs[cur] EXCEPT !.dropped = TRUE] \in Observations
      BY ZenonT(60) DEF TypeOK, Observations
    <3> QED BY <2>24, <3>1, InitialTypes DEF TypeOK, SetRegsFails, procVars
  <2>22. CASE Resume
    <3>1. CASE PtraceSyscall(cur, inj)
      BY <2>12, <2>22, <3>1 DEF TypeOK, Resume
    <3>2. CASE UNCHANGED procVars
      BY <2>22, <3>2 DEF TypeOK, Resume, procVars
    <3> QED BY <2>22, <3>1, <3>2 DEF Resume
  <2>23. CASE UNCHANGED vars
    BY <2>23 DEF TypeOK, vars, procVars, loopVars
  <2> QED
    BY <2>1, <2>2, <2>3, <2>4, <2>5, <2>6, <2>7, <2>9, <2>10, <2>11, <2>13, <2>14,
       <2>15, <2>16, <2>17, <2>18, <2>19, <2>20, <2>21, <2>22, <2>23, <2>24
    DEF Next, TracerLoop, Kernel, Exec
<1> QED BY <1>1, <1>2, PTL DEF Spec
-----------------------------------------------------------------------------
(* No stop is forgotten. A stop is marked seen when waitpid returns it, and  *)
(* each way out of a handler resumes the process or finds it gone, but for a *)
(* failing PTRACE_SETREGS, which leaves it in its syscall-stop; the stop     *)
(* that tracer_init makes of the child's own was not seen before.            *)

\* handle_syscalls works on a syscall-stop it was told of, or on a process that
\* was killed meanwhile.
InHand(p) ==
  cur = p /\ pc \in {"getregs", "openat", "setregs"} =>
    \/ st[p] \in SyscallStops /\ seen[p]
    \/ st[p] \in {"exitev", "zombie"} /\ ~seen[p]

\* A process left in its syscall-stop stays there, out of the tracer's hands,
\* until it is killed.
LeftBehind(p) ==
  obs[p].dropped =>
    /\ pc \in Handling \cup {"wait"}
    /\ \/ st[p] \in SyscallStops /\ seen[p] /\ ~(cur = p /\ pc \in Handling)
       \/ st[p] \in {"exitev", "zombie", "gone"}

DropInv == \A p \in Procs : InHand(p) /\ LeftBehind(p)

\* handle_stopped knows syscall-stops from all others by the signal.
LEMMA SyscallStopsKnown ==
  ASSUME NEW p \in Procs, TypeOK, HandleStopped(p)
  PROVE  /\ pc = "wait" /\ cur' = p /\ st[p] \in Stops /\ ~seen[p]
         /\ seen' = [seen EXCEPT ![p] = TRUE]
         /\ pc' = IF st[p] \in SyscallStops THEN "getregs" ELSE "resume"
         /\ UNCHANGED <<st, ncalls, call, regs, last, obs>>
<1>1. sig[p] # SIGTRAP + 128
  BY TracerAssumption DEF TypeOK, SignalNumbers, NoSignal, SIGTRAP
<1> QED BY <1>1 DEF HandleStopped, Dispatch, WStopSig, SIGTRAP

\* What handle_syscalls does before the file callbacks are asked changes no
\* verdict and no result, and leaves nobody behind.
LEMMA ToldOnly ==
  ASSUME TypeOK, GetRegs, NEW p \in Procs
  PROVE  /\ obs'[p].denied = obs[p].denied /\ obs'[p].ret = obs[p].ret
         /\ obs'[p].oom = obs[p].oom /\ obs'[p].dropped = obs[p].dropped
<1>1. obs[p] \in Observations
  BY DEF TypeOK
<1>2. CASE p = cur
  <2> DEFINE n == Bump(obs[p].n, IF last' # -1 THEN Cbs \cap {"syscall"} ELSE {})
             e == obs[p].clean \/ st[p] = "entry"
             f == IF st[p] = "entry" THEN last = regs[p].nr ELSE obs[p].stale
  <2>1. obs'[p] = [obs[p] EXCEPT !.n = n, !.clean = e, !.stale = f]
    BY <1>2 DEF GetRegs
  <2> HIDE DEF n, e, f
  <2> QED BY <1>1, <2>1 DEF Observations
<1>3. CASE p # cur
  BY <1>1, <1>3 DEF GetRegs, Observations
<1> QED BY <1>2, <1>3

\* Who is in hand and who was left behind, at every reachable state.
LEMMA DropInvInvariant == Spec => []DropInv
<1> USE TracerAssumption DEF TracerAssumption
<1>1. Init => DropInv
  <2> SUFFICES ASSUME Init, NEW p \in Procs PROVE InHand(p) /\ LeftBehind(p)
    BY DEF DropInv
  <2>1. pc = "init_wait" /\ obs[p] = NewObs
    BY DEF Init
  <2>2. obs[p].dropped = FALSE
    BY <2>1 DEF NewObs
  <2> QED BY <2>1, <2>2 DEF InHand, LeftBehind
<1>2. TypeOK /\ DropInv /\ [Next]_vars => DropInv'
  <2> SUFFICES ASSUME TypeOK, DropInv, [Next]_vars, NEW q \in Procs
               PROVE  (InHand(q) /\ LeftBehind(q))'
    BY DEF DropInv
  <2>1. InHand(q) /\ LeftBehind(q)
    BY DEF DropInv
  <2>2. ASSUME UNCHANGED <<cur, pc>>, obs'[q].dropped = obs[q].dropped,
               \/ st'[q] = st[q] /\ seen'[q] = seen[q]
               \/ st'[q] \in {"exitev", "zombie"} /\ ~seen'[q]
               \/ st[q] \in {"born", "jobstop", "user", "kernel", "absent"}
        PROVE  (InHand(q) /\ LeftBehind(q))'
    BY <2>1, <2>2 DEF InHand, LeftBehind, SyscallStops
  <2>3. CASE TraceeInit \/ InterruptTrap
    BY <2>2, <2>3 DEF TraceeInit, InterruptTrap, StopAt, TypeOK, loopVars
  <2>4. ASSUME NEW p \in Procs, Kill(p) PROVE (InHand(q) /\ LeftBehind(q))'
    BY <2>2, <2>4 DEF Kill, StopAt, TypeOK, loopVars
  <2>5. ASSUME NEW p \in Procs, NEW s, SendSignal(p, s) \/ SignalStop(p, s)
        PROVE  (InHand(q) /\ LeftBehind(q))'
    BY <2>2, <2>5 DEF SendSignal, SignalStop, StopAt, TypeOK, loopVars
  <2>6. ASSUME NEW p \in Procs, NEW c \in Calls, EnterCall(p, c)
        PROVE  (InHand(q) /\ LeftBehind(q))'
    <3>1. UNCHANGED <<cur, pc>> /\ st[p] = "user"
      BY <2>6 DEF EnterCall, loopVars
    <3>2. CASE q # p
      BY <2>2, <2>6, <3>1, <3>2 DEF EnterCall, StopAt, TypeOK
    <3>3. CASE q = p
      <4>1. ~obs'[q].dropped
        BY <2>6, <3>3 DEF EnterCall, NewObs, TypeOK
      <4> QED BY <2>1, <3>1, <3>3, <4>1 DEF InHand, LeftBehind, SyscallStops
    <3> QED BY <3>2, <3>3
  <2>7. ASSUME NEW p \in Procs, Exec(p) PROVE (InHand(q) /\ LeftBehind(q))'
    <3>1. UNCHANGED <<cur, pc>>
      BY <2>7 DEF Exec, SkipCall, ExecOpen, ExecOther, CloneFails, ExecExit, ExecClone,
                  Finish, loopVars
    <3>2. obs'[q].dropped = obs[q].dropped
      BY <2>7 DEF Exec, SkipCall, ExecOpen, ExecOther, CloneFails, ExecExit, ExecClone,
                  Finish, TypeOK, Observations
    <3>3. \/ st'[q] = st[q] /\ seen'[q] = seen[q]
          \/ st[q] \in {"kernel", "absent"}
      BY <2>7 DEF Exec, SkipCall, ExecOpen, ExecOther, CloneFails, ExecExit, ExecClone,
                  Finish, StopAt, TypeOK
    <3> QED BY <2>2, <3>1, <3>2, <3>3
  <2>8. CASE TracerInit
    <3>1. pc \notin Handling \cup {"wait"} /\ pc' \notin Handling /\ UNCHANGED obs
      BY <2>8 DEF TracerInit, InitWait, InitSeize, InitInterrupt, InitResume, InitCont, Handling
    <3> QED BY <2>1, <3>1 DEF InHand, LeftBehind, Handling
  <2>9. ASSUME NEW p \in Procs, HandleStopped(p) PROVE (InHand(q) /\ LeftBehind(q))'
    BY <2>1, <2>9, SyscallStopsKnown DEF InHand, LeftBehind, TypeOK, Handling
  <2>10. ASSUME NEW p \in Procs, ReapExited(p) PROVE (InHand(q) /\ LeftBehind(q))'
    BY <2>1, <2>10 DEF ReapExited, InHand, LeftBehind, loopVars, TypeOK, SyscallStops
  <2>11. CASE GetRegs \/ GetRegsGone \/ GetRegsFails \/ SyscallOpenat \/ ReadStringFails \/ SetRegs
    <3>1. UNCHANGED <<cur, st, seen>> /\ pc \in {"getregs", "openat", "setregs"}
          /\ pc' \in Handling \cup {"wait"}
      BY <2>11 DEF GetRegs, GetRegsGone, GetRegsFails, SyscallOpenat, ReadStringFails, SetRegs,
                   procVars, Handling
    <3>2. obs'[q].dropped = obs[q].dropped
      <4>1. CASE GetRegs
        BY <4>1, ToldOnly
      <4>2. CASE GetRegsGone \/ SetRegs
        BY <4>2 DEF GetRegsGone, SetRegs
      <4>3. CASE GetRegsFails \/ ReadStringFails
        <5>1. obs[q] \in Observations
          BY DEF TypeOK
        <5>2. \/ obs'[q] = obs[q]
              \/ obs'[q] = [obs[q] EXCEPT !.clean = FALSE]
              \/ obs'[q] = [obs[q] EXCEPT !.oom = TRUE]
          BY <4>3 DEF GetRegsFails, ReadStringFails, TypeOK
        <5> QED BY <5>1, <5>2 DEF Observations
      <4>4. CASE SyscallOpenat
        <5> DEFINE acc  == call[cur].acc
                   path == IF st[cur] \in Stops THEN call[cur].path ELSE NoPath
                   n    == Bump(obs[cur].n, Asked(acc))
                   d    == obs[cur].denied \/ Refuses(acc, path)
        <5>1. obs' = [obs EXCEPT ![cur] = [@ EXCEPT !.n = n, !.denied = d]]
          BY <4>4 DEF SyscallOpenat
        <5> HIDE DEF n, d
        <5> QED BY <5>1 DEF TypeOK, Observations
      <4> QED BY <2>11, <4>1, <4>2, <4>3, <4>4
    <3> QED BY <2>1, <3>1, <3>2 DEF InHand, LeftBehind, Handling
  <2>12. CASE SetRegsFails
    <3>1. UNCHANGED <<cur, st, seen>> /\ pc = "setregs" /\ pc' = "wait"
      BY <2>12 DEF SetRegsFails, procVars
    <3>2. q # cur => obs'[q].dropped = obs[q].dropped
      BY <2>12 DEF SetRegsFails, TypeOK, Observations
    <3> QED BY <2>1, <3>1, <3>2 DEF InHand, LeftBehind, Handling
  <2>13. CASE Resume
    <3>1. UNCHANGED <<cur, obs>> /\ pc = "resume" /\ pc' = "wait"
      BY <2>13 DEF Resume
    <3>2. CASE q = cur
      <4>1. obs[q].dropped => st[q] \in {"exitev", "zombie", "gone"}
        BY <2>1, <3>1, <3>2 DEF LeftBehind, Handling
      <4>2. st[q] \in {"exitev", "zombie", "gone"} => st'[q] \in {"exitev", "zombie", "gone"}
        BY <2>13, <3>2 DEF Resume, PtraceSyscall, TypeOK, procVars
      <4> QED BY <3>1, <4>1, <4>2 DEF InHand, LeftBehind
    <3>3. CASE q # cur
      <4>1. st'[q] = st[q] /\ seen'[q] = seen[q]
        BY <2>13, <3>3 DEF Resume, PtraceSyscall, StopAt, TypeOK, procVars
      <4> QED BY <2>1, <3>1, <3>3, <4>1 DEF InHand, LeftBehind
    <3> QED BY <3>2, <3>3
  <2>14. CASE UNCHANGED vars
    BY <2>2, <2>14 DEF vars, procVars, loopVars
  <2> QED BY <2>3, <2>4, <2>5, <2>6, <2>7, <2>8, <2>9, <2>10, <2>11, <2>12, <2>13, <2>14
          DEF Next, TracerLoop, Kernel
<1> QED BY <1>1, <1>2, TypeCorrect, PTL DEF Spec

NotSeenBefore == \A p \in Procs : st[p] \in {"born", "jobstop", "absent"} => ~seen[p]

StopInv == TypeOK /\ DropInv /\ NoForgottenStop /\ NotSeenBefore

\* PTRACE_SYSCALL leaves the other processes alone, and takes p out of its stop.
LEMMA PtraceSyscallLeaves ==
  ASSUME NEW p \in Procs, NEW s \in SignalNumbers \cup {NoSignal}, TypeOK, PtraceSyscall(p, s)
  PROVE  /\ \A q \in Procs \ {p} : st'[q] = st[q] /\ seen'[q] = seen[q]
         /\ st'[p] \in Stops => ~seen'[p]
         /\ st'[p] \notin {"born", "jobstop", "absent"}
BY DEF PtraceSyscall, StopAt, TypeOK, Stops, SyscallStops, EventStops

\* Every tracee whose stop waitpid returned is resumed or gone when tracer_loop
\* returns, or was left behind by a failing PTRACE_SETREGS: no other error path
\* of tracer.c leaves one stopped.
THEOREM NoStopForgotten == Spec => []NoForgottenStop
<1> USE TracerAssumption DEF TracerAssumption
<1>1. Init => NoForgottenStop /\ NotSeenBefore
  BY DEF Init, NoForgottenStop, NotSeenBefore
<1>2. StopInv /\ TypeOK' /\ [Next]_vars => (NoForgottenStop /\ NotSeenBefore)'
  <2> SUFFICES ASSUME StopInv, TypeOK', [Next]_vars
               PROVE  (NoForgottenStop /\ NotSeenBefore)'
    OBVIOUS
  <2> USE DEF StopInv, NoForgottenStop, NotSeenBefore
  <2> DEFINE Moves(P) == /\ \A q \in Procs \ P : /\ st'[q] = st[q] /\ seen'[q] = seen[q]
                                                /\ obs'[q] = obs[q]
                         /\ \A q \in P : /\ st'[q] \in Stops => ~seen'[q]
                                         /\ st'[q] \notin {"born", "jobstop", "absent"}
                                              \/ ~seen'[q]
  <2>1. ASSUME NEW P \in SUBSET Procs, Moves(P), UNCHANGED <<cur, pc>>
        PROVE  (NoForgottenStop /\ NotSeenBefore)'
    BY <2>1 DEF TypeOK, Dropped
  <2> HIDE DEF Moves
  <2>2. CASE TraceeInit \/ InterruptTrap
    <3>1. Moves({Root}) /\ UNCHANGED <<cur, pc>>
      BY <2>2 DEF TraceeInit, InterruptTrap, StopAt, loopVars, TypeOK, Stops, Moves,
                  SyscallStops, EventStops
    <3> QED BY <2>1, <3>1
  <2>3. ASSUME NEW p \in Procs, NEW c \in Procs, ExecClone(p, c)
        PROVE  (NoForgottenStop /\ NotSeenBefore)'
    <3>1. \A q \in Procs \ {p, c} : st'[q] = st[q] /\ seen'[q] = seen[q] /\ obs'[q] = obs[q]
      BY <2>3 DEF ExecClone, TypeOK
    <3>2. ~seen'[p] /\ ~seen'[c]
      BY <2>3 DEF ExecClone, TypeOK
    <3>3. UNCHANGED <<cur, pc>>
      BY <2>3 DEF ExecClone, loopVars
    <3>4. Moves({p, c})
      BY <3>1, <3>2 DEF Moves
    <3> QED BY <2>1, <3>3, <3>4
  <2>4. ASSUME NEW p \in Procs, NEW w \in Places, StopAt(p, w), UNCHANGED loopVars,
               \A q \in Procs \ {p} : obs'[q] = obs[q]
        PROVE  (NoForgottenStop /\ NotSeenBefore)'
    <3>1. Moves({p}) /\ UNCHANGED <<cur, pc>>
      BY <2>4 DEF StopAt, loopVars, TypeOK, Moves
    <3> QED BY <2>1, <3>1
  <2>5. ASSUME NEW p \in Procs, Kill(p) PROVE (NoForgottenStop /\ NotSeenBefore)'
    BY <2>4, <2>5, PlaceTypes DEF Kill
  <2>6. ASSUME NEW p \in Procs, NEW s \in Signals, SendSignal(p, s)
        PROVE  (NoForgottenStop /\ NotSeenBefore)'
    BY <2>6 DEF SendSignal, loopVars, Dropped
  <2>7. ASSUME NEW p \in Procs, NEW s \in pend[p], SignalStop(p, s)
        PROVE  (NoForgottenStop /\ NotSeenBefore)'
    BY <2>4, <2>7, PlaceTypes DEF SignalStop
  <2>8. ASSUME NEW p \in Procs, NEW c \in Calls, EnterCall(p, c)
        PROVE  (NoForgottenStop /\ NotSeenBefore)'
    BY <2>4, <2>8, PlaceTypes DEF EnterCall, TypeOK
  <2>9. ASSUME NEW p \in Procs,
               SkipCall(p) \/ ExecOpen(p) \/ ExecOther(p) \/ CloneFails(p) \/ ExecExit(p)
        PROVE  (NoForgottenStop /\ NotSeenBefore)'
    <3>1. /\ UNCHANGED loopVars /\ (StopAt(p, "exit") \/ StopAt(p, "exitev"))
          /\ \A q \in Procs \ {p} : obs'[q] = obs[q]
      BY <2>9 DEF SkipCall, ExecOpen, ExecOther, CloneFails, ExecExit, Finish, TypeOK
    <3> QED BY <2>4, <3>1, PlaceTypes
  <2>10. CASE TracerInit
    <3>1. CASE InitWait
      BY <3>1 DEF InitWait, TypeOK, Handling, Stops, SyscallStops, EventStops, Dropped
    <3>2. CASE InitSeize
      BY <3>2 DEF InitSeize, TypeOK, Handling, Stops, SyscallStops, EventStops, Dropped
    <3>3. CASE InitInterrupt \/ InitCont
      BY <3>3 DEF InitInterrupt, InitCont, Handling, Dropped
    <3>4. CASE InitResume
      <4>1. CASE PtraceSyscall(Root, NoSignal)
        BY <3>4, <4>1, PtraceSyscallLeaves, NumberTypes DEF InitResume, Handling, Dropped
      <4>2. CASE UNCHANGED procVars
        BY <3>4, <4>2 DEF InitResume, procVars, Handling, Dropped
      <4> QED BY <3>4, <4>1, <4>2 DEF InitResume
    <3> QED BY <2>10, <3>1, <3>2, <3>3, <3>4 DEF TracerInit
  <2>11. ASSUME NEW p \in Procs, HandleStopped(p) PROVE (NoForgottenStop /\ NotSeenBefore)'
    BY <2>11 DEF HandleStopped, Dispatch, TypeOK, Handling, Stops, SyscallStops, EventStops,
                 Dropped
  <2>12. ASSUME NEW p \in Procs, ReapExited(p) PROVE (NoForgottenStop /\ NotSeenBefore)'
    BY <2>12 DEF ReapExited, loopVars, TypeOK, Stops, SyscallStops, EventStops, Dropped
  <2>13. CASE GetRegs \/ GetRegsFails \/ SyscallOpenat \/ ReadStringFails \/ SetRegs
    <3>1. pc' \in Handling /\ cur' = cur /\ st' = st /\ seen' = seen /\ pc \in Handling
      BY <2>13 DEF GetRegs, GetRegsFails, SyscallOpenat, ReadStringFails, SetRegs, procVars,
                   Handling
    <3>2. ASSUME NEW p \in Procs, Dropped(p), p # cur PROVE Dropped(p)'
      <4>1. obs'[p].dropped = obs[p].dropped
        <5>1. CASE GetRegs
          BY <5>1, ToldOnly
        <5>2. CASE ~GetRegs
          BY <2>13, <3>2, <5>2 DEF GetRegsFails, SyscallOpenat, ReadStringFails, SetRegs,
                                   TypeOK, Observations
        <5> QED BY <5>1, <5>2
      <4> QED BY <3>1, <3>2, <4>1 DEF Dropped
    <3> QED BY <3>1, <3>2
  <2>14. CASE GetRegsGone
    BY <2>14 DEF GetRegsGone, procVars, Dropped
  <2>15. CASE SetRegsFails
    <3>1. UNCHANGED <<cur, st, seen>> /\ pc = "setregs" /\ pc' = "wait"
      BY <2>15 DEF SetRegsFails, procVars
    <3>2. ASSUME NEW p \in Procs, Dropped(p), p # cur PROVE Dropped(p)'
      BY <2>15, <3>1, <3>2 DEF Dropped, SetRegsFails, TypeOK, Observations
    <3>3. st[cur] \in Stops /\ seen[cur] => st[cur] \in SyscallStops /\ obs'[cur].dropped
      BY <2>15, <3>1
      DEF SetRegsFails, DropInv, InHand, TypeOK, Observations, Stops, SyscallStops, EventStops
    <3> QED BY <3>1, <3>2, <3>3 DEF Dropped
  <2>16. CASE Resume
    <3>1. CASE PtraceSyscall(cur, inj)
      BY <2>16, <3>1, PtraceSyscallLeaves DEF Resume, TypeOK, Dropped
    <3>2. CASE st[cur] \notin Stops /\ UNCHANGED procVars
      BY <2>16, <3>2 DEF Resume, procVars, Dropped
    <3> QED BY <2>16, <3>1, <3>2 DEF Resume
  <2>17. CASE UNCHANGED vars
    BY <2>17 DEF vars, procVars, loopVars, Dropped
  <2> QED
    BY <2>2, <2>3, <2>5, <2>6, <2>7, <2>8, <2>9, <2>10, <2>11, <2>12, <2>13, <2>14,
       <2>15, <2>16, <2>17
    DEF Next, TracerLoop, Kernel, Exec
<1> QED BY <1>1, <1>2, TypeCorrect, DropInvInvariant, PTL DEF Spec, StopInv
-----------------------------------------------------------------------------
(* Every call ends with the result it should have. The invariant follows a  *)
(* call from its entry stop to its return; what the handler has in hand (its *)
(* copy of the registers, perm) is tied to the stop it works on.             *)

Working(p, steps) == cur = p /\ pc \in steps

Undecided(p) == /\ call[p] \in Calls
                /\ regs[p] = [nr |-> call[p].nr, ax |-> -ENOSYS]
                /\ obs[p].ret = NotRun

Fresh(p) == Undecided(p) /\ ~obs[p].denied

Decided(p) == IF obs[p].denied THEN /\ obs[p].ret = NotRun
                                    /\ regs[p] = [nr |-> -EPERM, ax |-> -EPERM]
                               ELSE Undecided(p)

Finished(p) == IF obs[p].denied THEN regs[p].ax = -EPERM
                                ELSE obs[p].ret # NotRun /\ regs[p].ax = obs[p].ret

AtEntry(p) ==
  st[p] = "entry" /\ ~obs[p].dropped =>
    /\ ~Working(p, {"openat", "setregs", "resume"}) => Fresh(p)
    /\ Working(p, {"openat"}) => Fresh(p) /\ treg = regs[p] /\ perm = 0
    /\ Working(p, {"setregs"}) =>
         Undecided(p) /\ treg = regs[p] /\ (perm = -1 <=> obs[p].denied)
    /\ Working(p, {"resume"}) => Decided(p)

AtExit(p) ==
  /\ st[p] = "exit" /\ ~obs[p].dropped =>
       /\ ~Working(p, {"openat", "setregs"}) => Finished(p)
       /\ Working(p, {"openat"}) => Finished(p) /\ treg = regs[p] /\ perm = 0
       /\ Working(p, {"setregs"}) =>
            /\ treg = regs[p]
            /\ IF perm = -1 THEN obs[p].denied ELSE Finished(p)
  /\ st[p] = "fork" => Finished(p)

Elsewhere(p) ==
  /\ st[p] = "kernel" => Decided(p)
  /\ st[p] \in {"user", "signal", "group", "trap"} /\ ncalls[p] > 0 => Finished(p)
  /\ st[p] \in {"born", "jobstop", "absent"} => ncalls[p] = 0
  /\ Working(p, {"getregs", "openat", "setregs"}) =>
       st[p] \in {"entry", "exit", "exitev", "zombie"}

CallOK(p) == AtEntry(p) /\ AtExit(p) /\ Elsewhere(p)

CallInv == \A p \in Procs : CallOK(p)

Untouched(p) == /\ st'[p] = st[p] /\ regs'[p] = regs[p] /\ call'[p] = call[p]
                /\ ncalls'[p] = ncalls[p]
                /\ obs'[p].denied = obs[p].denied /\ obs'[p].ret = obs[p].ret
                /\ obs'[p].dropped = obs[p].dropped

\* A process that a kernel step leaves alone keeps its part of the invariant,
LEMMA KernelFrame ==
  ASSUME NEW p \in Procs, CallOK(p), Untouched(p), UNCHANGED <<cur, pc, treg, perm>>
  PROVE  CallOK(p)'
BY DEF CallOK, AtEntry, AtExit, Elsewhere, Untouched, Working, Fresh, Undecided,
       Decided, Finished

\* and so does one that the tracer is not working on.
LEMMA TracerFrame ==
  ASSUME NEW p \in Procs, CallOK(p), Untouched(p),
         ~Working(p, Handling), ~Working(p, Handling)'
  PROVE  CallOK(p)'
BY DEF CallOK, AtEntry, AtExit, Elsewhere, Untouched, Working, Fresh, Undecided,
       Decided, Finished, Handling

\* PTRACE_SYSCALL moves a call on from its entry stop only once it is decided,
\* and from its exit stop only once it is finished.
LEMMA ResumeCall ==
  ASSUME NEW p \in Procs, NEW s \in SignalNumbers \cup {NoSignal}, TypeOK, CallOK(p), PtraceSyscall(p, s),
         ~Working(p, {"getregs", "openat", "setregs"}), pc' \notin Handling,
         st[p] \in SyscallStops => ~obs[p].dropped, UNCHANGED obs
  PROVE  CallOK(p)'
<1>1. UNCHANGED <<ncalls, call, regs, obs>>
  BY DEF PtraceSyscall
<1>2. CASE st[p] = "entry"
  <2>1. Decided(p)
    BY <1>2 DEF CallOK, AtEntry, Working, Fresh, Decided, SyscallStops
  <2>2. st'[p] = "kernel"
    BY <1>2 DEF PtraceSyscall, TypeOK
  <2> QED BY <1>1, <2>1, <2>2
          DEF CallOK, AtEntry, AtExit, Elsewhere, Working, Decided, Undecided, Handling
<1>3. CASE st[p] \in {"exit", "fork"}
  <2>1. Finished(p)
    BY <1>3 DEF CallOK, AtExit, Working, SyscallStops
  <2>2. st'[p] \in {"user", "exit"}
    BY <1>3 DEF PtraceSyscall, StopAt, TypeOK
  <2> QED BY <1>1, <2>1, <2>2
          DEF CallOK, AtEntry, AtExit, Elsewhere, Working, Finished, Handling
<1>4. CASE st[p] \in {"trap", "group", "signal"}
  <2>1. ncalls[p] > 0 => Finished(p)
    BY <1>4 DEF CallOK, Elsewhere
  <2>2. st'[p] \in {"user", "group"}
    BY <1>4 DEF PtraceSyscall, StopAt, TypeOK
  <2> QED BY <1>1, <2>1, <2>2
          DEF CallOK, AtEntry, AtExit, Elsewhere, Working, Finished, Handling
<1>5. CASE st[p] = "exitev"
  <2>1. st'[p] = "zombie"
    BY <1>5 DEF PtraceSyscall, TypeOK
  <2> QED BY <2>1 DEF CallOK, AtEntry, AtExit, Elsewhere, Working, Handling
<1> QED BY <1>2, <1>3, <1>4, <1>5 DEF PtraceSyscall, Stops, SyscallStops, EventStops

\* All processes but those of P are left alone.
Others(P) == \A q \in Procs \ P : Untouched(q)

\* The start: no process has made a call.
LEMMA CallInvInit == Init => CallInv
<1> SUFFICES ASSUME Init, NEW p \in Procs PROVE CallOK(p)
  BY DEF CallInv
<1> QED BY DEF Init, CallOK, AtEntry, AtExit, Elsewhere, Working, Finished

\* The kernel's steps keep the invariant.
LEMMA CallInvKernel == TypeOK /\ CallInv /\ Kernel => CallInv'
<1> SUFFICES ASSUME TypeOK, CallInv, Kernel PROVE CallInv'
  OBVIOUS
<1> USE TracerAssumption DEF TracerAssumption
<1>1. ASSUME NEW P \in SUBSET Procs, Others(P), UNCHANGED <<cur, pc, treg, perm>>,
             \A q \in P : CallOK(q)'
      PROVE  CallInv'
  BY <1>1, KernelFrame DEF CallInv, Others
<1>2. CASE TraceeInit \/ InterruptTrap
  <2>1. Others({Root}) /\ UNCHANGED <<cur, pc, treg, perm>>
    BY <1>2 DEF TraceeInit, InterruptTrap, StopAt, loopVars, TypeOK, Untouched, Others
  <2>2. CallOK(Root)'
    <3>1. CallOK(Root)
      BY DEF CallInv
    <3>2. st'[Root] \in {"user", "jobstop", "trap"} /\ st[Root] \in {"born", "user"}
      BY <1>2 DEF TraceeInit, InterruptTrap, StopAt, TypeOK
    <3>3. UNCHANGED <<ncalls, call, regs, obs>>
      BY <1>2 DEF TraceeInit, InterruptTrap
    <3>4. st[Root] # "born" => st'[Root] = "trap"
      BY <1>2 DEF TraceeInit, InterruptTrap, StopAt, TypeOK
    <3> QED BY <2>1, <3>1, <3>2, <3>3, <3>4
            DEF CallOK, AtEntry, AtExit, Elsewhere, Working, Finished, TypeOK
  <2> QED BY <1>1, <2>1, <2>2
<1>3. ASSUME NEW p \in Procs, Kill(p) PROVE CallInv'
  <2>1. Others({p}) /\ UNCHANGED <<cur, pc, treg, perm>>
    BY <1>3 DEF Kill, StopAt, loopVars, TypeOK, Untouched, Others
  <2>2. st'[p] \in {"zombie", "exitev"}
    BY <1>3 DEF Kill, StopAt, TypeOK
  <2>3. CallOK(p)'
    BY <2>2 DEF CallOK, AtEntry, AtExit, Elsewhere
  <2> QED BY <1>1, <2>1, <2>3
<1>4. ASSUME NEW p \in Procs, NEW s \in Signals, SendSignal(p, s) PROVE CallInv'
  <2>1. Others({}) /\ UNCHANGED <<cur, pc, treg, perm>>
    BY <1>4 DEF SendSignal, loopVars, Untouched, Others
  <2> QED BY <1>1, <2>1
<1>5. ASSUME NEW p \in Procs, NEW s \in pend[p], SignalStop(p, s) PROVE CallInv'
  <2>1. Others({p}) /\ UNCHANGED <<cur, pc, treg, perm>>
    BY <1>5 DEF SignalStop, StopAt, loopVars, TypeOK, Untouched, Others
  <2>2. st[p] = "user" /\ st'[p] = "signal" /\ UNCHANGED <<ncalls, call, regs, obs>>
    BY <1>5 DEF SignalStop, StopAt, TypeOK
  <2>3. CallOK(p)'
    BY <2>1, <2>2
    DEF CallInv, CallOK, AtEntry, AtExit, Elsewhere, Working, Finished
  <2> QED BY <1>1, <2>1, <2>3
<1>6. ASSUME NEW p \in Procs, NEW c \in Calls, EnterCall(p, c) PROVE CallInv'
  <2>1. Others({p}) /\ UNCHANGED <<cur, pc, treg, perm>>
    BY <1>6 DEF EnterCall, StopAt, loopVars, TypeOK, Untouched, Others
  <2>2. st[p] = "user" /\ st'[p] = "entry"
    BY <1>6 DEF EnterCall, StopAt, TypeOK
  <2>3. /\ call'[p] = c /\ regs'[p] = [nr |-> c.nr, ax |-> -ENOSYS]
        /\ ~obs'[p].denied /\ obs'[p].ret = NotRun
    BY <1>6 DEF EnterCall, TypeOK, NewObs
  <2>4. Fresh(p)'
    BY <2>3 DEF Fresh, Undecided
  <2>5. ~Working(p, {"getregs", "openat", "setregs"})
    BY <2>2 DEF CallInv, CallOK, Elsewhere
  <2>6. CallOK(p)'
    BY <2>1, <2>2, <2>4, <2>5
    DEF CallOK, AtEntry, AtExit, Elsewhere, Working, Decided, Fresh
  <2> QED BY <1>1, <2>1, <2>6
<1>7. ASSUME NEW p \in Procs, SkipCall(p) PROVE CallInv'
  <2>1. Others({p}) /\ UNCHANGED <<cur, pc, treg, perm>>
    BY <1>7 DEF SkipCall, StopAt, loopVars, TypeOK, Untouched, Others
  <2>2. st[p] = "kernel" /\ st'[p] = "exit" /\ UNCHANGED <<ncalls, call, regs, obs>>
    BY <1>7 DEF SkipCall, StopAt, TypeOK
  <2>3. Decided(p) /\ ~Working(p, {"getregs", "openat", "setregs"})
    BY <2>2 DEF CallInv, CallOK, Elsewhere
  <2>4. obs[p].denied
    <3> SUFFICES ASSUME ~obs[p].denied PROVE FALSE
      OBVIOUS
    <3>1. regs[p].nr = call[p].nr /\ call[p] \in Calls
      BY <2>3 DEF Decided, Undecided
    <3> QED BY <1>7, <3>1, CallType DEF SkipCall
  <2>5. Finished(p)'
    BY <2>2, <2>3, <2>4 DEF Decided, Finished
  <2>6. CallOK(p)'
    BY <2>1, <2>2, <2>3, <2>5 DEF CallOK, AtEntry, AtExit, Elsewhere, Working
  <2> QED BY <1>1, <2>1, <2>6
<1>8. ASSUME NEW p \in Procs, NEW r \in {-ENOENT, 0, -EAGAIN}, st[p] = "kernel",
             regs[p].nr \in Nat, Finish(p, r)
      PROVE  CallInv'
  <2>1. Others({p}) /\ UNCHANGED <<cur, pc, treg, perm>>
    BY <1>8 DEF Finish, StopAt, loopVars, TypeOK, Untouched, Others
  <2>2. st'[p] = "exit" /\ UNCHANGED <<ncalls, call>>
    BY <1>8 DEF Finish, StopAt, TypeOK
  <2>3. Decided(p) /\ ~Working(p, {"getregs", "openat", "setregs"})
    BY <1>8 DEF CallInv, CallOK, Elsewhere
  <2>4. ~obs[p].denied
    BY <1>8, <2>3 DEF Decided, EPERM
  <2>5. regs'[p].ax = r /\ obs'[p].ret = r /\ obs'[p].denied = obs[p].denied
    BY <1>8 DEF Finish, TypeOK, Regs, Observations
  <2>6. Finished(p)'
    BY <2>4, <2>5 DEF Finished, NotRun, ENOENT, EAGAIN
  <2>7. CallOK(p)'
    BY <2>1, <2>2, <2>3, <2>6 DEF CallOK, AtEntry, AtExit, Elsewhere, Working
  <2> QED BY <1>1, <2>1, <2>7
<1>9. ASSUME NEW p \in Procs, ExecOpen(p) \/ ExecOther(p) \/ CloneFails(p) PROVE CallInv'
  <2>1. st[p] = "kernel" /\ (Finish(p, -ENOENT) \/ Finish(p, 0) \/ Finish(p, -EAGAIN))
    BY <1>9 DEF ExecOpen, ExecOther, CloneFails
  <2>2. regs[p].nr \in OtherCalls \cup {SYS_openat, SYS_clone}
    BY <1>9 DEF ExecOpen, ExecOther, CloneFails
  <2>3. regs[p].nr \in Nat
    BY <2>2, NumberTypes
  <2> QED BY <1>8, <2>1, <2>3
<1>10. ASSUME NEW p \in Procs, ExecExit(p) PROVE CallInv'
  <2>1. Others({p}) /\ UNCHANGED <<cur, pc, treg, perm>>
    BY <1>10 DEF ExecExit, StopAt, loopVars, TypeOK, Untouched, Others
  <2>2. st'[p] = "exitev"
    BY <1>10 DEF ExecExit, StopAt, TypeOK
  <2>3. CallOK(p)'
    BY <2>2 DEF CallOK, AtEntry, AtExit, Elsewhere
  <2> QED BY <1>1, <2>1, <2>3
<1>11. ASSUME NEW p \in Procs, NEW c \in Procs, ExecClone(p, c) PROVE CallInv'
  <2>1. Others({p, c})
    BY <1>11 DEF ExecClone, TypeOK, Untouched, Others
  <2>2. UNCHANGED <<cur, pc, treg, perm, ncalls, call>>
    BY <1>11 DEF ExecClone, loopVars
  <2>3. /\ st[p] = "kernel" /\ st[c] = "absent" /\ p # c
        /\ st'[p] = "fork" /\ st'[c] = "trap"
    BY <1>11 DEF ExecClone, TypeOK
  <2>4. Decided(p) /\ ~Working(p, {"getregs", "openat", "setregs"})
    BY <2>3 DEF CallInv, CallOK, Elsewhere
  <2>5. ~obs[p].denied
    BY <1>11, <2>4, NumberTypes DEF Decided, ExecClone, EPERM
  <2>6. regs'[p].ax = 0 /\ obs'[p].ret = 0 /\ obs'[p].denied = obs[p].denied
    BY <1>11 DEF ExecClone, TypeOK, Regs, Observations
  <2>7. Finished(p)'
    BY <2>5, <2>6 DEF Finished, NotRun
  <2>8. CallOK(p)'
    BY <2>2, <2>3, <2>4, <2>7 DEF CallOK, AtEntry, AtExit, Elsewhere, Working
  <2>9. ncalls[c] = 0 /\ ~Working(c, {"getregs", "openat", "setregs"})
    BY <2>3 DEF CallInv, CallOK, Elsewhere
  <2>10. CallOK(c)'
    BY <2>2, <2>3, <2>9 DEF CallOK, AtEntry, AtExit, Elsewhere, Working
  <2> QED BY <1>1, <2>1, <2>2, <2>8, <2>10
<1> QED BY <1>2, <1>3, <1>4, <1>5, <1>6, <1>7, <1>9, <1>10, <1>11 DEF Kernel, Exec

\* tracer_init decides no call and finishes none.
LEMMA CallInvTracerInit == TypeOK /\ DropInv /\ CallInv /\ TracerInit => CallInv'
<1> SUFFICES ASSUME TypeOK, DropInv, CallInv, TracerInit PROVE CallInv'
  OBVIOUS
<1> USE TracerAssumption DEF TracerAssumption
<1>1. pc \notin Handling /\ pc' \notin Handling /\ UNCHANGED <<cur, treg, perm, obs>>
  BY DEF TracerInit, InitWait, InitSeize, InitInterrupt, InitResume, InitCont, Handling
<1>2. ASSUME NEW P \in SUBSET Procs, Others(P), \A q \in P : CallOK(q)' PROVE CallInv'
  BY <1>1, <1>2, TracerFrame DEF CallInv, Others, Working
<1>3. CASE InitWait
  <2>1. Others({Root}) /\ UNCHANGED <<ncalls, call, regs>>
    BY <1>3 DEF InitWait, Others, Untouched, TypeOK
  <2>2. st'[Root] = st[Root] \/ st'[Root] = "gone"
    BY <1>3 DEF InitWait, TypeOK
  <2>3. CallOK(Root)'
    <3>1. CASE st'[Root] = st[Root]
      BY <1>1, <2>1, <3>1, TracerFrame DEF CallInv, Untouched, Working
    <3>2. CASE st'[Root] = "gone"
      BY <1>1, <3>2 DEF CallOK, AtEntry, AtExit, Elsewhere, Working, Handling
    <3> QED BY <2>2, <3>1, <3>2
  <2> QED BY <1>2, <2>1, <2>3
<1>4. CASE InitSeize
  <2>1. Others({Root}) /\ UNCHANGED <<ncalls, call, regs>>
    BY <1>4 DEF InitSeize, Others, Untouched, TypeOK
  <2>2. st'[Root] = st[Root] \/ (st[Root] = "jobstop" /\ st'[Root] = "group")
    BY <1>4 DEF InitSeize, TypeOK
  <2>3. CallOK(Root)'
    <3>1. CASE st'[Root] = st[Root]
      BY <1>1, <2>1, <3>1, TracerFrame DEF CallInv, Untouched, Working
    <3>2. CASE st[Root] = "jobstop" /\ st'[Root] = "group"
      BY <1>1, <2>1, <3>2
      DEF CallInv, CallOK, AtEntry, AtExit, Elsewhere, Working, Handling, TypeOK
    <3> QED BY <2>2, <3>1, <3>2
  <2> QED BY <1>2, <2>1, <2>3
<1>5. CASE InitInterrupt \/ InitCont
  <2>1. Others({})
    BY <1>5 DEF InitInterrupt, InitCont, Others, Untouched
  <2> QED BY <1>2, <2>1
<1>6. CASE InitResume
  <2>1. CASE UNCHANGED procVars
    <3>1. Others({})
      BY <1>1, <2>1 DEF procVars, Others, Untouched
    <3> QED BY <1>2, <3>1
  <2>2. CASE PtraceSyscall(Root, NoSignal)
    <3>1. Others({Root})
      BY <1>1, <2>2 DEF PtraceSyscall, StopAt, Others, Untouched, TypeOK
    <3>2. ~obs[Root].dropped
      BY <1>6 DEF InitResume, DropInv, LeftBehind, Handling
    <3>3. CallOK(Root)'
      BY <1>1, <2>2, <3>2, ResumeCall, NumberTypes DEF CallInv, Working, Handling
    <3> QED BY <1>2, <3>1, <3>3
  <2> QED BY <1>6, <2>1, <2>2 DEF InitResume
<1> QED BY <1>3, <1>4, <1>5, <1>6 DEF TracerInit

\* The handlers keep the invariant.
LEMMA CallInvTracerLoop == TypeOK /\ DropInv /\ CallInv /\ TracerLoop => CallInv'
<1> SUFFICES ASSUME TypeOK, DropInv, CallInv, TracerLoop PROVE CallInv'
  OBVIOUS
<1> USE TracerAssumption DEF TracerAssumption
<1>0. pc \in Handling /\ st[cur] \in {"entry", "exit"} => ~obs[cur].dropped
  BY DEF DropInv, LeftBehind, TypeOK
<1>1. ASSUME Others({cur}), cur' = cur, CallOK(cur)' PROVE CallInv'
  BY <1>1, TracerFrame DEF CallInv, Others, Working, TypeOK
<1>2. ASSUME NEW p \in Procs, HandleStopped(p) PROVE CallInv'
  <2>1. /\ pc = "wait" /\ pc' \in {"getregs", "resume"} /\ cur' = p
        /\ UNCHANGED <<st, regs, call, ncalls, obs, treg, perm>>
    BY <1>2 DEF HandleStopped, Dispatch
  <2>2. \A q \in Procs : Untouched(q)
    BY <2>1 DEF Untouched
  <2>3. ASSUME NEW q \in Procs, q # p PROVE CallOK(q)'
    BY <2>1, <2>2, <2>3, TracerFrame DEF CallInv, Working, Handling
  <2>4. CallOK(p)'
    <3>1. CallOK(p) /\ ~Working(p, Handling)
      BY <2>1 DEF CallInv, Working, Handling
    <3>2. /\ pc' = "getregs" => st[p] \in SyscallStops
          /\ st[p] \in SyscallStops => ~obs[p].dropped
      BY <1>2, SyscallStopsKnown DEF DropInv, LeftBehind, SyscallStops
    <3>3. st[p] = "entry" => Fresh(p) /\ Decided(p)
      BY <2>1, <3>1, <3>2 DEF CallOK, AtEntry, Working, Fresh, Decided, SyscallStops
    <3>4. st[p] = "exit" => Finished(p)
      BY <2>1, <3>1, <3>2 DEF CallOK, AtExit, Working, SyscallStops
    <3> QED BY <2>1, <3>1, <3>2, <3>3, <3>4
            DEF CallOK, AtEntry, AtExit, Elsewhere, Working, Fresh, Undecided, Decided,
                Finished, SyscallStops, Handling
  <2> QED BY <2>3, <2>4 DEF CallInv
<1>3. ASSUME NEW p \in Procs, ReapExited(p) PROVE CallInv'
  <2>1. pc = "wait" /\ pc' = "wait"
    BY <1>3 DEF ReapExited, loopVars
  <2>2. \A q \in Procs \ {p} : Untouched(q)
    BY <1>3 DEF ReapExited, Untouched, TypeOK
  <2>3. ASSUME NEW q \in Procs \ {p} PROVE CallOK(q)'
    BY <2>1, <2>2, TracerFrame DEF CallInv, Working, Handling
  <2>4. st'[p] = "gone"
    BY <1>3 DEF ReapExited, TypeOK
  <2>5. CallOK(p)'
    BY <2>1, <2>4 DEF CallOK, AtEntry, AtExit, Elsewhere, Working
  <2> QED BY <2>3, <2>5 DEF CallInv
<1>4. CASE GetRegs
  <2>1. \A q \in Procs : Untouched(q)
    BY <1>4 DEF GetRegs, procVars, Untouched, TypeOK, Observations
  <2>2. /\ cur' = cur /\ pc = "getregs" /\ pc' \in {"openat", "setregs"}
        /\ treg' = regs[cur] /\ perm' = 0
    BY <1>4 DEF GetRegs, InitialPerm
  <2>3. CallOK(cur)'
    <3>1. CallOK(cur) /\ Untouched(cur) /\ cur \in Procs
      BY <2>1 DEF CallInv, TypeOK
    <3>2. st[cur] = "entry" => Fresh(cur)
      BY <1>0, <2>2, <3>1 DEF CallOK, AtEntry, Working, Handling
    <3>3. st[cur] = "exit" \/ st[cur] = "fork" => Finished(cur)
      BY <1>0, <2>2, <3>1 DEF CallOK, AtExit, Working, Handling
    <3>4. Elsewhere(cur)
      BY <3>1 DEF CallOK
    <3> QED BY <2>2, <3>1, <3>2, <3>3, <3>4
            DEF CallOK, AtEntry, AtExit, Elsewhere, Working, Fresh, Undecided, Decided,
                Finished, Untouched
  <2>4. Others({cur})
    BY <2>1 DEF Others
  <2> QED BY <1>1, <2>2, <2>3, <2>4
<1>5. CASE GetRegsGone \/ GetRegsFails
  <2>1. \A q \in Procs : Untouched(q)
    <3>1. CASE GetRegsGone
      BY <3>1 DEF GetRegsGone, procVars, Untouched
    <3>2. CASE GetRegsFails
      BY <3>2 DEF GetRegsFails, procVars, Untouched, TypeOK, Observations
    <3> QED BY <1>5, <3>1, <3>2
  <2>2. cur' = cur /\ pc = "getregs" /\ pc' \in {"wait", "resume"} /\ UNCHANGED <<treg, perm>>
    BY <1>5 DEF GetRegsGone, GetRegsFails
  <2>3. CallOK(cur)'
    <3>1. CallOK(cur) /\ Untouched(cur)
      BY <2>1 DEF CallInv, TypeOK
    <3>2. st[cur] = "entry" => Fresh(cur)
      BY <1>0, <2>2, <3>1 DEF CallOK, AtEntry, Working, Handling
    <3>3. st[cur] = "exit" \/ st[cur] = "fork" => Finished(cur)
      BY <1>0, <2>2, <3>1 DEF CallOK, AtExit, Working, Handling
    <3>4. Elsewhere(cur)
      BY <3>1 DEF CallOK
    <3> QED BY <2>2, <3>1, <3>2, <3>3, <3>4
            DEF CallOK, AtEntry, AtExit, Elsewhere, Working, Fresh, Undecided, Decided,
                Finished, Untouched
  <2>4. Others({cur})
    BY <2>1 DEF Others
  <2> QED BY <1>1, <2>2, <2>3, <2>4
<1>6. CASE SyscallOpenat
  <2> DEFINE acc  == call[cur].acc
             path == IF st[cur] \in Stops THEN call[cur].path ELSE NoPath
  <2>1. Others({cur})
    BY <1>6 DEF SyscallOpenat, procVars, Others, Untouched, TypeOK
  <2>2. /\ cur' = cur /\ pc = "openat" /\ pc' = "setregs" /\ treg' = treg
        /\ UNCHANGED <<st, regs, call, ncalls>>
        /\ perm' = Verdict(acc, path)
    BY <1>6 DEF SyscallOpenat, procVars
  <2>3. /\ obs'[cur].ret = obs[cur].ret
        /\ obs'[cur].denied = (obs[cur].denied \/ Refuses(acc, path))
    BY <1>6 DEF SyscallOpenat, TypeOK, Observations
  <2>4. perm' = -1 <=> Refuses(acc, path)
    BY <2>2 DEF Verdict
  <2> HIDE DEF acc, path
  <2>5. CallOK(cur)'
    <3>1. AtEntry(cur) /\ AtExit(cur) /\ Elsewhere(cur)
      BY DEF CallInv, CallOK, TypeOK
    <3>2. st[cur] = "entry" => Fresh(cur) /\ treg = regs[cur]
      BY <1>0, <2>2, <3>1 DEF AtEntry, Working, Handling
    <3>3. st[cur] = "exit" => Finished(cur) /\ treg = regs[cur]
      BY <1>0, <2>2, <3>1 DEF AtExit, Working, Handling
    <3>4. AtEntry(cur)'
      BY <2>2, <2>3, <2>4, <3>2 DEF AtEntry, Working, Fresh, Undecided
    <3>5. st[cur] \in {"entry", "exit", "exitev", "zombie"}
      BY <2>2, <3>1 DEF Elsewhere, Working
    <3>6. AtExit(cur)'
      BY <2>2, <2>3, <2>4, <3>3, <3>5 DEF AtExit, Working, Finished
    <3>7. Elsewhere(cur)'
      BY <2>2, <3>5 DEF Elsewhere, Working
    <3> QED BY <3>4, <3>6, <3>7 DEF CallOK
  <2> QED BY <1>1, <2>1, <2>2, <2>5
<1>7. CASE ReadStringFails
  <2>1. \A q \in Procs : Untouched(q)
    BY <1>7 DEF ReadStringFails, procVars, Untouched, TypeOK, Observations
  <2>2. cur' = cur /\ pc = "openat" /\ pc' = "setregs" /\ treg' = treg /\ perm' = 0
    BY <1>7 DEF ReadStringFails
  <2>3. CallOK(cur)'
    <3>1. AtEntry(cur) /\ AtExit(cur) /\ Elsewhere(cur) /\ Untouched(cur)
      BY <2>1 DEF CallInv, CallOK, TypeOK
    <3>2. st[cur] = "entry" => Fresh(cur) /\ treg = regs[cur]
      BY <1>0, <2>2, <3>1 DEF AtEntry, Working, Handling
    <3>3. st[cur] = "exit" => Finished(cur) /\ treg = regs[cur]
      BY <1>0, <2>2, <3>1 DEF AtExit, Working, Handling
    <3>4. st[cur] \in {"entry", "exit", "exitev", "zombie"}
      BY <2>2, <3>1 DEF Elsewhere, Working
    <3> QED BY <2>2, <3>1, <3>2, <3>3, <3>4
            DEF CallOK, AtEntry, AtExit, Elsewhere, Working, Fresh, Undecided, Finished,
                Untouched
  <2>4. Others({cur})
    BY <2>1 DEF Others
  <2> QED BY <1>1, <2>2, <2>3, <2>4
<1>8. CASE SetRegs
  <2>1. Others({cur}) /\ cur' = cur /\ UNCHANGED <<st, call, ncalls, obs>> /\ pc = "setregs"
    BY <1>8 DEF SetRegs, Others, Untouched, TypeOK
  <2>2. AtEntry(cur) /\ AtExit(cur) /\ Elsewhere(cur)
    BY DEF CallInv, CallOK, TypeOK
  <2>3. st[cur] \in {"entry", "exit", "exitev", "zombie"}
    BY <2>1, <2>2 DEF Elsewhere, Working
  <2>4. CASE st[cur] \in {"exitev", "zombie"}
    <3>1. pc' = "resume"
      BY <1>8 DEF SetRegs
    <3>2. CallOK(cur)'
      BY <2>1, <2>4, <3>1 DEF CallOK, AtEntry, AtExit, Elsewhere, Working
    <3> QED BY <1>1, <2>1, <3>2
  <2>5. CASE st[cur] \in {"entry", "exit"}
    <3>1. pc' = "resume" /\ regs'[cur] = IF perm = -1 THEN Refusal(treg) ELSE treg
      BY <1>8, <2>5 DEF SetRegs, Stops, SyscallStops, TypeOK
    <3>2. CASE st[cur] = "entry"
      <4>1. Undecided(cur) /\ treg = regs[cur] /\ (perm = -1 <=> obs[cur].denied)
        BY <1>0, <2>1, <2>2, <3>2 DEF AtEntry, Working, Handling
      <4>2. Decided(cur)'
        BY <2>1, <3>1, <4>1 DEF Decided, Undecided, Refusal
      <4>3. CallOK(cur)'
        BY <2>1, <3>1, <3>2, <4>2 DEF CallOK, AtEntry, AtExit, Elsewhere, Working
      <4> QED BY <1>1, <2>1, <4>3
    <3>3. CASE st[cur] = "exit"
      <4>1. treg = regs[cur] /\ IF perm = -1 THEN obs[cur].denied ELSE Finished(cur)
        BY <1>0, <2>1, <2>2, <3>3 DEF AtExit, Working, Handling
      <4>2. Finished(cur)'
        BY <2>1, <3>1, <4>1 DEF Finished, Refusal
      <4>3. CallOK(cur)'
        BY <2>1, <3>1, <3>3, <4>2 DEF CallOK, AtEntry, AtExit, Elsewhere, Working
      <4> QED BY <1>1, <2>1, <4>3
    <3> QED BY <2>5, <3>2, <3>3
  <2> QED BY <2>3, <2>4, <2>5
<1>10. CASE SetRegsFails
  <2>1. Others({cur}) /\ cur' = cur /\ UNCHANGED <<st, call, ncalls>>
        /\ pc = "setregs" /\ pc' = "wait"
    BY <1>10 DEF SetRegsFails, procVars, Others, Untouched, TypeOK
  <2>2. st[cur] \in {"entry", "exit", "exitev", "zombie"}
    BY <2>1 DEF CallInv, CallOK, Elsewhere, Working, TypeOK
  <2>3. st[cur] \in {"entry", "exit"} => obs'[cur].dropped
    BY <1>10 DEF SetRegsFails, Stops, SyscallStops, TypeOK, Observations
  <2>4. CallOK(cur)'
    BY <2>1, <2>2, <2>3 DEF CallOK, AtEntry, AtExit, Elsewhere, Working
  <2> QED BY <1>1, <2>1, <2>4
<1>9. CASE Resume
  <2>1. cur' = cur /\ pc = "resume" /\ pc' = "wait" /\ UNCHANGED obs
    BY <1>9 DEF Resume
  <2>2. CASE PtraceSyscall(cur, inj)
    <3>1. Others({cur})
      BY <2>1, <2>2 DEF PtraceSyscall, StopAt, Others, Untouched, TypeOK
    <3>2. CallOK(cur)'
      BY <1>0, <2>1, <2>2, ResumeCall DEF CallInv, Working, Handling, TypeOK, SyscallStops
    <3> QED BY <1>1, <2>1, <3>1, <3>2
  <2>3. CASE st[cur] \notin Stops /\ UNCHANGED procVars
    <3>1. Others({cur}) /\ Untouched(cur)
      BY <2>1, <2>3 DEF procVars, Others, Untouched
    <3>2. CallOK(cur)'
      BY <2>1, <2>3, <3>1
      DEF CallInv, CallOK, AtEntry, AtExit, Elsewhere, Working, Untouched, Finished,
          Decided, Undecided, TypeOK, Stops, SyscallStops, EventStops
    <3> QED BY <1>1, <2>1, <3>1, <3>2
  <2> QED BY <1>9, <2>2, <2>3 DEF Resume
<1> QED BY <1>2, <1>3, <1>4, <1>5, <1>6, <1>7, <1>8, <1>9, <1>10 DEF TracerLoop

\* The invariant about the calls in progress, at every reachable state.
LEMMA CallInvInvariant == Spec => []CallInv
<1>1. TypeOK /\ DropInv /\ CallInv /\ [Next]_vars => CallInv'
  <2>1. CASE UNCHANGED vars
    BY <2>1 DEF vars, procVars, loopVars, CallInv, CallOK, AtEntry, AtExit, Elsewhere, Working,
                Fresh, Undecided, Decided, Finished
  <2> QED BY <2>1, CallInvKernel, CallInvTracerInit, CallInvTracerLoop DEF Next
<1> QED BY <1>1, CallInvInit, TypeCorrect, DropInvInvariant, PTL DEF Spec

\* A call that has come to its end is one whose result is settled.
LEMMA CallsFinish == TypeOK /\ CallInv => \A p \in Procs : Completed(p) => Finished(p)
BY DEF CallInv, CallOK, Elsewhere, Completed

\* Whatever processes interleave, die or fail between the tracer's ptrace
\* calls, a callback's -1 ends as -EPERM in the calling program
\* (syscall_openat and handle_syscalls, tracer.c:129-143).
THEOREM DenialReachesProgram == Spec => []DeniedSeesEPERM
<1>1. TypeOK /\ CallInv => DeniedSeesEPERM
  BY CallsFinish DEF DeniedSeesEPERM, Finished
<1> QED BY <1>1, CallInvInvariant, TypeCorrect, PTL

\* And a call no callback refused is executed and keeps its result
\* (handle_syscalls writes back the registers it read, tracer.c:138).
THEOREM ResultReachesProgram == Spec => []UndeniedUntouched
<1>1. TypeOK /\ CallInv => UndeniedUntouched
  BY CallsFinish DEF UndeniedUntouched, Finished
<1> QED BY <1>1, CallInvInvariant, TypeCorrect, PTL
=============================================================================
