-------------------------------- MODULE Errm --------------------------------
(***************************************************************************)
(* errm: the error code and the defer stack of one thread (errm/errm.c),   *)
(* with the wrapper that the edf_ macros put around a function             *)
(* (errm/errm.h): clear the error, push a frame, run the body, run the     *)
(* frame's static and then its dynamic defers, pop the frame.              *)
(*                                                                         *)
(* The client is any program that calls edf functions, registers defers    *)
(* and sets errors, from function bodies and from handlers. It keeps the   *)
(* two rules that the code relies on and does not check: defers are        *)
(* registered only inside an edf function, and static ones not from a      *)
(* dynamic handler.                                                        *)
(***************************************************************************)
EXTENDS Integers, SequencesExt

CONSTANTS
  StackSize,  \* STACK_SIZE
  MaxDyn,     \* MAX_DYN_DEFERS
  MaxStatic,  \* MAX_STATIC_DEFERS
  PoolSize,   \* POOL_SIZE
  Sizes,      \* sizes of static arguments
  Errors,     \* codes that the program passes to errm_error
  Errnos,     \* values of errno that it passes to errm_error_from_errno
  MaxDefers   \* bound on the registrations

ASSUME ErrmAssumption ==
  /\ StackSize \in Nat \ {0}
  /\ MaxDyn \in Nat /\ MaxStatic \in Nat /\ PoolSize \in Nat
  /\ Sizes \subseteq Nat
  /\ Errors \subseteq Nat \ {0}
  /\ MaxDefers \in Nat

VARIABLES
  err,      \* errm.err_code, 0 for none
  curr,     \* defer_stack.curr
  frame,    \* defer_stack.stack
  phase,    \* how far each function on the stack has come
  aborted,  \* abort() has been called
  count,    \* defers registered so far; the number of one is its order
  ran,      \* history: the defers that have been run
  said      \* history: an error was set since the function at this depth was entered

vars == <<err, curr, frame, phase, aborted, count, ran, said>>

Depths == 0 .. StackSize - 1
Empty  == [stat |-> <<>>, dyn |-> <<>>, used |-> 0, busy |-> {}]

Running(d, where) == ~aborted /\ curr = d /\ phase[d] \in where

\* Code of the client: outside of every edf function, in the body of the
\* innermost one, or in a handler that it runs.
InClient ==
  \/ ~aborted /\ curr = -1
  \/ \E d \in Depths : Running(d, {"body", "in_static", "in_dyn"})

Init ==
  /\ err = 0
  /\ curr = -1
  /\ frame = [d \in Depths |-> Empty]
  /\ phase = [d \in Depths |-> "body"]
  /\ aborted = FALSE
  /\ count = 0
  /\ ran = {}
  /\ said = [d \in Depths |-> FALSE]
-----------------------------------------------------------------------------
(* What the client does.                                                   *)

Abort == aborted' = TRUE /\ UNCHANGED <<curr, frame, phase, count, ran, said>>

Push ==
  IF curr >= StackSize - 1
    THEN Abort
    ELSE /\ curr' = curr + 1
         /\ phase' = [phase EXCEPT ![curr + 1] = "body"]
         /\ said' = [said EXCEPT ![curr + 1] = FALSE]
         /\ UNCHANGED <<frame, aborted, count, ran>>

\* Faulty variant: a function starts with the error of an earlier call.
EnterKeepsError == InClient /\ UNCHANGED err /\ Push

\* The call of an edf function.
Enter == InClient /\ err' = 0 /\ Push

Says(e) ==
  /\ err' = e
  /\ said' = [d \in Depths |-> said[d] \/ d <= curr]
  /\ UNCHANGED <<curr, frame, phase, aborted, count, ran>>

SetError(e) == InClient /\ Says(e)

\* Every other errno leaves the error code as it is: no error at all when
\* none was set before.
Codes == [EACCES |-> 1, ENOMEM |-> 2, ENOTDIR |-> 3, ENOENT |-> 4, ENFILE |-> 5]

SetFromErrno(e) == InClient /\ e \in DOMAIN Codes /\ Says(Codes[e])

StaticFull(f, s) == Len(f.stat) >= MaxStatic \/ f.used + s > PoolSize

\* The argument is copied into the pool, behind those copied before.
AddStatic(f, s) ==
  [stat |-> Append(f.stat, [num |-> count, at |-> f.used, size |-> s]),
   dyn  |-> f.dyn, used |-> f.used + s, busy |-> f.busy]

StaticDefer(d, s) ==
  /\ Running(d, {"body", "in_static"})
  /\ count < MaxDefers
  /\ IF StaticFull(frame[d], s)
       THEN Abort
       ELSE /\ frame' = [frame EXCEPT ![d] = AddStatic(@, s)]
            /\ count' = count + 1
            /\ UNCHANGED <<curr, phase, aborted, ran, said>>
  /\ UNCHANGED err

\* Faulty variant: one defer more than the array holds.
DynFullLate(f) == Len(f.dyn) > MaxDyn

DynFull(f) == Len(f.dyn) >= MaxDyn

AddDyn(f) == [f EXCEPT !.dyn = Append(@, count)]

Defer(d) ==
  /\ Running(d, {"body", "in_static", "in_dyn"})
  /\ count < MaxDefers
  /\ IF DynFull(frame[d])
       THEN Abort
       ELSE /\ frame' = [frame EXCEPT ![d] = AddDyn(@)]
            /\ count' = count + 1
            /\ UNCHANGED <<curr, phase, aborted, ran, said>>
  /\ UNCHANGED err

Return(d) ==
  /\ Running(d, {"body"})
  /\ phase' = [phase EXCEPT ![d] = "static"]
  /\ UNCHANGED <<err, curr, frame, aborted, count, ran, said>>

Rest(f) == [f EXCEPT !.busy = {}]

HandlerReturns(d) ==
  /\ Running(d, {"in_static", "in_dyn"})
  /\ phase' = [phase EXCEPT ![d] = IF @ = "in_static" THEN "static" ELSE "dyn"]
  /\ frame' = [frame EXCEPT ![d] = Rest(@)]
  /\ UNCHANGED <<err, curr, aborted, count, ran, said>>
-----------------------------------------------------------------------------
(* run_defers and defer_pop.                                               *)

\* Faulty variant: the argument's place is given back before the handler runs.
TakeStaticFreed(f) ==
  [stat |-> Front(f.stat), dyn |-> f.dyn, used |-> Last(f.stat).at, busy |-> {Last(f.stat)}]

TakeStatic(f) ==
  [stat |-> Front(f.stat), dyn |-> f.dyn, used |-> f.used, busy |-> {Last(f.stat)}]

RunStatic(d) ==
  /\ Running(d, {"static"})
  /\ frame[d].stat # <<>>
  /\ frame' = [frame EXCEPT ![d] = TakeStatic(@)]
  /\ ran' = ran \cup {Last(frame[d].stat).num}
  /\ phase' = [phase EXCEPT ![d] = "in_static"]
  /\ UNCHANGED <<err, curr, aborted, count, said>>

\* Faulty variant: what a static handler registers is left behind.
StaticOverAtOnce(f) == Len(f.stat) <= 1

StaticOver(f) == f.stat = <<>>

FreePool(f) == [f EXCEPT !.used = 0]

StaticDone(d) ==
  /\ Running(d, {"static"})
  /\ StaticOver(frame[d])
  /\ frame' = [frame EXCEPT ![d] = FreePool(@)]
  /\ phase' = [phase EXCEPT ![d] = "dyn"]
  /\ UNCHANGED <<err, curr, aborted, count, ran, said>>

\* Faulty variant: the dynamic defers run in the order of their registration.
RunDynamicOldest(d) ==
  /\ Running(d, {"dyn"})
  /\ frame[d].dyn # <<>>
  /\ frame' = [frame EXCEPT ![d].dyn = Tail(@)]
  /\ ran' = ran \cup {Head(frame[d].dyn)}
  /\ phase' = [phase EXCEPT ![d] = "in_dyn"]
  /\ UNCHANGED <<err, curr, aborted, count, said>>

TakeDyn(f) == [f EXCEPT !.dyn = Front(@)]

RunDynamic(d) ==
  /\ Running(d, {"dyn"})
  /\ frame[d].dyn # <<>>
  /\ frame' = [frame EXCEPT ![d] = TakeDyn(@)]
  /\ ran' = ran \cup {Last(frame[d].dyn)}
  /\ phase' = [phase EXCEPT ![d] = "in_dyn"]
  /\ UNCHANGED <<err, curr, aborted, count, said>>

Pop(d) ==
  /\ Running(d, {"dyn"})
  /\ frame[d].dyn = <<>>
  /\ curr' = d - 1
  /\ UNCHANGED <<err, frame, phase, aborted, count, ran, said>>

Client ==
  \/ Enter
  \/ \E e \in Errors : SetError(e)
  \/ \E e \in Errnos : SetFromErrno(e)
  \/ \E d \in Depths :
       \/ \E s \in Sizes : StaticDefer(d, s)
       \/ Defer(d) \/ Return(d) \/ HandlerReturns(d)

RunDefers == \E d \in Depths :
  RunStatic(d) \/ StaticDone(d) \/ RunDynamic(d) \/ Pop(d)

Next == Client \/ RunDefers

Spec == Init /\ [][Next]_vars
-----------------------------------------------------------------------------
Entries == [num : Nat, at : Nat, size : Sizes]
Frames  == [stat : Seq(Entries), dyn : Seq(Nat), used : Nat, busy : SUBSET Entries]
Phases  == {"body", "static", "in_static", "dyn", "in_dyn"}

\* Types, with the bounds of the arrays that errm.c writes to (errm.c:103-106,
\* 116-119): a frame never holds more defers than its arrays have room for,
\* and the stack never more frames.
TypeOK ==
  /\ err \in Nat
  /\ curr \in Depths \cup {-1}
  /\ phase \in [Depths -> Phases]
  /\ aborted \in BOOLEAN
  /\ count \in Nat
  /\ ran \subseteq Nat
  /\ said \in [Depths -> BOOLEAN]
  /\ frame \in [Depths -> Frames]
  /\ \A d \in Depths : Len(frame[d].stat) <= MaxStatic /\ Len(frame[d].dyn) <= MaxDyn

StaticNums(f) == {f.stat[i].num : i \in DOMAIN f.stat}
DynNums(f)    == {f.dyn[i] : i \in DOMAIN f.dyn}
Waiting(f)    == StaticNums(f) \cup DynNums(f)

\* No defer is lost and none runs twice (run_defers, errm.c:122-146): each has
\* run, or waits in a frame of a function that has not returned yet.
EachOnce ==
  /\ \A n \in 0 .. count - 1 : n \in ran \/ \E d \in 0 .. curr : n \in Waiting(frame[d])
  /\ \A d \in 0 .. curr : Waiting(frame[d]) \cap ran = {}

\* A defer is run after all those that the same function registered later and
\* in the same way; no dynamic one before the static ones (the two loops of
\* run_defers count down, errm.c:125-145).
LatestFirst ==
  [][\A n \in ran' \ ran, d \in Depths :
       /\ n \in StaticNums(frame[d]) => \A m \in StaticNums(frame'[d]) : m < n
       /\ n \in DynNums(frame[d]) =>
            /\ StaticNums(frame[d]) = {}
            /\ \A m \in DynNums(frame'[d]) : m < n]_vars

Apart(e, f) == e.at + e.size <= f.at \/ f.at + f.size <= e.at

\* The copies of the arguments of the static defers that wait, and of the one
\* that runs, do not overlap and stay inside the frame's pool (static_defer,
\* errm.c:94-101): no handler sees another's argument.
ArgsDisjoint == \A d \in Depths :
  LET stat == frame[d].stat IN
  /\ \A i \in DOMAIN stat :
       /\ stat[i].at + stat[i].size <= PoolSize
       /\ \A j \in DOMAIN stat : i # j => Apart(stat[i], stat[j])
       /\ \A e \in frame[d].busy : Apart(stat[i], e)

\* An error that a function sees, and that its caller reads when it returns,
\* was set in it or in a function that it called (the wrapper clears the code
\* first, errm.h:87): never a leftover of an earlier call.
ErrorIsOwn == err # 0 => \A d \in 0 .. curr : said[d]
=============================================================================
