----------------------------- MODULE ErrmProofs -----------------------------
(***************************************************************************)
(* Proofs about Errm, for any sizes of the stack, its arrays and its pool. *)
(***************************************************************************)
EXTENDS Errm, SequenceTheorems, TLAPS

(***************************************************************************)
(* What every frame is like at any time. Numbers and places grow with the  *)
(* index, and everything registered fits below the pool's fill.            *)
(***************************************************************************)
StaticOrdered(f) == \A i, j \in 1 .. Len(f.stat) :
  i < j => /\ f.stat[i].num < f.stat[j].num
           /\ f.stat[i].at + f.stat[i].size <= f.stat[j].at

DynOrdered(f) == \A i, j \in 1 .. Len(f.dyn) : i < j => f.dyn[i] < f.dyn[j]

Fits(f) ==
  /\ f.used <= PoolSize
  /\ \A i \in 1 .. Len(f.stat) : f.stat[i].at + f.stat[i].size <= f.used
  /\ \A e \in f.busy :
       /\ e.at + e.size <= f.used
       /\ \A i \in 1 .. Len(f.stat) : Apart(f.stat[i], e)

PhaseOK(f, ph) ==
  /\ ph # "in_static" => f.busy = {}
  /\ ph \in {"dyn", "in_dyn"} => f.stat = <<>> /\ f.used = 0

FrameOK(f) ==
  /\ StaticOrdered(f)
  /\ DynOrdered(f)
  /\ Fits(f)
  /\ StaticNums(f) \cap DynNums(f) = {}

(***************************************************************************)
(* The inductive invariant. The frames above the current one are empty, so *)
(* a function starts with nothing that an earlier one left; what waits is  *)
(* new, has not run, and waits in one frame only.                          *)
(***************************************************************************)
NewOnes     == ran \subseteq 0 .. count - 1
WaitOnes    == \A d \in Depths : Waiting(frame[d]) \subseteq (0 .. count - 1) \ ran
OneFrame    == \A d, e \in Depths : d # e => Waiting(frame[d]) \cap Waiting(frame[e]) = {}
Nowhere     == \A n \in 0 .. count - 1 : n \in ran \/ \E d \in Depths : n \in Waiting(frame[d])
EmptyAbove  == \A d \in Depths : d > curr => frame[d] = Empty
PhasesOK    == \A d \in Depths : d <= curr => PhaseOK(frame[d], phase[d])
FramesOK    == \A d \in Depths : FrameOK(frame[d])

Inv ==
  /\ TypeOK
  /\ EmptyAbove /\ PhasesOK /\ FramesOK
  /\ NewOnes /\ WaitOnes /\ OneFrame /\ Nowhere
-----------------------------------------------------------------------------
(* The operations on one frame.                                            *)

\* What a frame of the right type consists of.
LEMMA FrameFields ==
  ASSUME NEW f \in Frames
  PROVE  /\ f.stat \in Seq(Entries) /\ f.dyn \in Seq(Nat)
         /\ f.used \in Nat /\ f.busy \subseteq Entries
         /\ f.stat \in [1 .. Len(f.stat) -> Entries] /\ f.dyn \in [1 .. Len(f.dyn) -> Nat]
         /\ Len(f.stat) \in Nat /\ Len(f.dyn) \in Nat
<1>1. f.stat \in Seq(Entries) /\ f.dyn \in Seq(Nat) /\ f.used \in Nat /\ f.busy \subseteq Entries
  BY DEF Frames
<1> QED
  BY <1>1

\* A frame with one field replaced.
LEMMA FrameExcept ==
  ASSUME NEW f \in Frames, NEW x
  PROVE  /\ [f EXCEPT !.dyn = x] = [stat |-> f.stat, dyn |-> x, used |-> f.used, busy |-> f.busy]
         /\ [f EXCEPT !.used = x] = [stat |-> f.stat, dyn |-> f.dyn, used |-> x, busy |-> f.busy]
         /\ [f EXCEPT !.busy = x] = [stat |-> f.stat, dyn |-> f.dyn, used |-> f.used, busy |-> x]
BY DEF Frames

\* What Front leaves of a sequence.
LEMMA FrontFacts ==
  ASSUME NEW S, NEW s \in Seq(S), s # <<>>
  PROVE  /\ Front(s) \in Seq(S)
         /\ Len(s) \in Nat \ {0}
         /\ Len(Front(s)) = Len(s) - 1
         /\ \A i \in 1 .. Len(s) - 1 : Front(s)[i] = s[i]
         /\ Last(s) = s[Len(s)] /\ Last(s) \in S
<1>1. Len(s) \in Nat \ {0}
  BY EmptySeq
<1>2. Front(s) \in Seq(S) /\ Len(Front(s)) = Len(s) - 1
  <2>1. 1 \in Int /\ Len(s) - 1 \in Int /\ Len(s) - 1 - 1 + 1 = Len(s) - 1
    BY <1>1
  <2>2. \A i \in 1 .. Len(s) - 1 : s[i] \in S
    BY <1>1
  <2>3. /\ SubSeq(s, 1, Len(s) - 1) \in Seq(S)
        /\ Len(SubSeq(s, 1, Len(s) - 1)) =
             IF 1 <= Len(s) - 1 THEN Len(s) - 1 - 1 + 1 ELSE 0
    BY <2>1, <2>2, SubSeqProperties
  <2>4. Front(s) = SubSeq(s, 1, Len(s) - 1)
    BY DEF Front
  <2>5. (IF 1 <= Len(s) - 1 THEN Len(s) - 1 - 1 + 1 ELSE 0) = Len(s) - 1
    <3>1. \A n \in Nat \ {0} : (IF 1 <= n - 1 THEN n - 1 - 1 + 1 ELSE 0) = n - 1
      OBVIOUS
    <3> QED
      BY <1>1, <3>1, Zenon
  <2> QED
    BY <2>3, <2>4, <2>5, Zenon
<1>3. \A i \in 1 .. Len(s) - 1 : Front(s)[i] = s[i]
  BY <1>1 DEF Front
<1>4. Last(s) = s[Len(s)] /\ Last(s) \in S
  BY <1>1 DEF Last
<1> QED
  BY <1>1, <1>2, <1>3, <1>4

\* The operations of a client keep a frame a frame, with one entry more.
LEMMA AddStaticType ==
  ASSUME NEW f \in Frames, NEW s \in Sizes, count \in Nat
  PROVE  LET e == [num |-> count, at |-> f.used, size |-> s] IN
         /\ e \in Entries /\ s \in Nat
         /\ AddStatic(f, s) \in Frames /\ AddStatic(f, s).stat = Append(f.stat, e)
         /\ Len(AddStatic(f, s).stat) = Len(f.stat) + 1
         /\ AddStatic(f, s).dyn = f.dyn /\ AddStatic(f, s).busy = f.busy
         /\ AddStatic(f, s).used = f.used + s
<1> DEFINE e == [num |-> count, at |-> f.used, size |-> s]
<1>1. f.stat \in Seq(Entries) /\ f.dyn \in Seq(Nat) /\ f.used \in Nat /\ f.busy \subseteq Entries
  BY FrameFields
<1>2. s \in Nat
  BY ErrmAssumption DEF ErrmAssumption
<1>3. e \in Entries
  BY <1>1 DEF Entries
<1>4. AddStatic(f, s) = [stat |-> Append(f.stat, e), dyn |-> f.dyn, used |-> f.used + s, busy |-> f.busy]
  BY DEF AddStatic
<1> HIDE DEF e
<1>5. Append(f.stat, e) \in Seq(Entries) /\ Len(Append(f.stat, e)) = Len(f.stat) + 1
  BY <1>1, <1>3
<1>6. f.used + s \in Nat
  BY <1>1, <1>2
<1>7. AddStatic(f, s) \in Frames
  BY <1>1, <1>4, <1>5, <1>6 DEF Frames
<1>8. /\ AddStatic(f, s).stat = Append(f.stat, e)
      /\ AddStatic(f, s).dyn = f.dyn /\ AddStatic(f, s).busy = f.busy
      /\ AddStatic(f, s).used = f.used + s
  BY <1>4
<1> QED
  BY <1>2, <1>3, <1>5, <1>7, <1>8 DEF e

\* A dynamic defer adds its number to the list and leaves the static ones alone.
LEMMA AddDynType ==
  ASSUME NEW f \in Frames, count \in Nat
  PROVE  /\ AddDyn(f) \in Frames /\ AddDyn(f).dyn = Append(f.dyn, count)
         /\ Len(AddDyn(f).dyn) = Len(f.dyn) + 1
         /\ AddDyn(f).stat = f.stat /\ AddDyn(f).used = f.used /\ AddDyn(f).busy = f.busy
<1>1. f.stat \in Seq(Entries) /\ f.dyn \in Seq(Nat) /\ f.used \in Nat /\ f.busy \subseteq Entries
  BY FrameFields
<1>2. Append(f.dyn, count) \in Seq(Nat) /\ Len(Append(f.dyn, count)) = Len(f.dyn) + 1
  BY <1>1
<1>3. AddDyn(f) = [stat |-> f.stat, dyn |-> Append(f.dyn, count), used |-> f.used, busy |-> f.busy]
  BY FrameExcept DEF AddDyn
<1> QED
  BY <1>1, <1>2, <1>3 DEF Frames

\* The same of the operations of run_defers.
LEMMA RunTypes ==
  ASSUME NEW f \in Frames
  PROVE  /\ f.stat # <<>> =>
              /\ TakeStatic(f) \in Frames /\ TakeStatic(f).stat = Front(f.stat)
              /\ TakeStatic(f).dyn = f.dyn /\ TakeStatic(f).used = f.used
              /\ TakeStatic(f).busy = {Last(f.stat)} /\ Len(TakeStatic(f).stat) = Len(f.stat) - 1
         /\ f.dyn # <<>> =>
              /\ TakeDyn(f) \in Frames /\ TakeDyn(f).stat = f.stat
              /\ TakeDyn(f).dyn = Front(f.dyn) /\ TakeDyn(f).used = f.used
              /\ TakeDyn(f).busy = f.busy /\ Len(TakeDyn(f).dyn) = Len(f.dyn) - 1
         /\ Rest(f) \in Frames /\ Rest(f).stat = f.stat /\ Rest(f).dyn = f.dyn
         /\ Rest(f).used = f.used /\ Rest(f).busy = {}
         /\ FreePool(f) \in Frames /\ FreePool(f).stat = f.stat /\ FreePool(f).dyn = f.dyn
         /\ FreePool(f).used = 0 /\ FreePool(f).busy = f.busy
<1>1. f.stat \in Seq(Entries) /\ f.dyn \in Seq(Nat) /\ f.used \in Nat /\ f.busy \subseteq Entries
  BY FrameFields
<1>2. ASSUME f.stat # <<>>
      PROVE  /\ TakeStatic(f) \in Frames /\ TakeStatic(f).stat = Front(f.stat)
             /\ TakeStatic(f).dyn = f.dyn /\ TakeStatic(f).used = f.used
             /\ TakeStatic(f).busy = {Last(f.stat)} /\ Len(TakeStatic(f).stat) = Len(f.stat) - 1
  <2>1. Front(f.stat) \in Seq(Entries) /\ Last(f.stat) \in Entries
        /\ Len(Front(f.stat)) = Len(f.stat) - 1
    BY <1>1, <1>2, FrontFacts
  <2>2. TakeStatic(f) = [stat |-> Front(f.stat), dyn |-> f.dyn,
                         used |-> f.used, busy |-> {Last(f.stat)}]
    BY DEF TakeStatic
  <2> QED
    BY <1>1, <2>1, <2>2 DEF Frames
<1>3. ASSUME f.dyn # <<>>
      PROVE  /\ TakeDyn(f) \in Frames /\ TakeDyn(f).stat = f.stat
             /\ TakeDyn(f).dyn = Front(f.dyn) /\ TakeDyn(f).used = f.used
             /\ TakeDyn(f).busy = f.busy /\ Len(TakeDyn(f).dyn) = Len(f.dyn) - 1
  <2>1. Front(f.dyn) \in Seq(Nat) /\ Len(Front(f.dyn)) = Len(f.dyn) - 1
    BY <1>1, <1>3, FrontFacts
  <2>2. TakeDyn(f) = [stat |-> f.stat, dyn |-> Front(f.dyn), used |-> f.used, busy |-> f.busy]
    BY FrameExcept DEF TakeDyn
  <2> QED
    BY <1>1, <2>1, <2>2 DEF Frames
<1>4. Rest(f) = [stat |-> f.stat, dyn |-> f.dyn, used |-> f.used, busy |-> {}]
  BY FrameExcept DEF Rest
<1>5. FreePool(f) = [stat |-> f.stat, dyn |-> f.dyn, used |-> 0, busy |-> f.busy]
  BY FrameExcept DEF FreePool
<1>6. Rest(f) \in Frames /\ FreePool(f) \in Frames
  BY <1>1, <1>4, <1>5 DEF Frames
<1> QED
  BY <1>2, <1>3, <1>4, <1>5, <1>6
-----------------------------------------------------------------------------
(* Types.                                                                  *)

\* The frame that errm_wrap_begin starts with (an unused element of defer_stack, errm.c:64-69).
LEMMA EmptyFrame == Empty \in Frames /\ Len(Empty.stat) = 0 /\ Len(Empty.dyn) = 0
BY DEF Empty, Frames

\* A step that replaces the current frame by one within the bounds.
LEMMA FrameUpdate ==
  ASSUME TypeOK, NEW d \in Depths, NEW g \in Frames,
         Len(g.stat) <= MaxStatic, Len(g.dyn) <= MaxDyn,
         frame' = [frame EXCEPT ![d] = g]
  PROVE  /\ frame' \in [Depths -> Frames]
         /\ frame'[d] = g
         /\ \A e \in Depths : e # d => frame'[e] = frame[e]
         /\ \A e \in Depths : Len(frame'[e].stat) <= MaxStatic /\ Len(frame'[e].dyn) <= MaxDyn
BY DEF TypeOK

\* Type correctness at the start.
LEMMA TypeInit == Init => TypeOK
<1> SUFFICES ASSUME Init PROVE TypeOK
  OBVIOUS
<1> USE ErrmAssumption DEF ErrmAssumption
<1>1. frame \in [Depths -> Frames]
  BY EmptyFrame DEF Init
<1>2. \A d \in Depths : Len(frame[d].stat) <= MaxStatic /\ Len(frame[d].dyn) <= MaxDyn
  BY EmptyFrame DEF Init
<1> QED
  BY <1>1, <1>2 DEF Init, TypeOK, Phases, Depths

\* Type correctness is kept by every step.
LEMMA TypeNext == TypeOK /\ [Next]_vars => TypeOK'
<1> SUFFICES ASSUME TypeOK, [Next]_vars PROVE TypeOK'
  OBVIOUS
<1> USE ErrmAssumption DEF ErrmAssumption
<1>0. ASSUME Abort PROVE /\ aborted' = TRUE
                         /\ UNCHANGED <<curr, frame, phase, count, ran, said>>
  BY <1>0 DEF Abort
<1>1. CASE Enter
  <2>1. err' \in Nat
    BY <1>1 DEF Enter
  <2>2. CASE curr >= StackSize - 1
    BY <1>1, <2>1, <2>2, <1>0 DEF Enter, Push, TypeOK
  <2>3. CASE ~(curr >= StackSize - 1)
    <3>1. curr + 1 \in Depths
      BY <2>3 DEF TypeOK, Depths
    <3> QED
      BY <1>1, <2>1, <2>3, <3>1 DEF Enter, Push, TypeOK, Phases
  <2> QED
    BY <2>2, <2>3
<1>2. ASSUME NEW e \in Errors, SetError(e) PROVE TypeOK'
  BY <1>2 DEF SetError, Says, TypeOK
<1>3. ASSUME NEW e \in Errnos, SetFromErrno(e) PROVE TypeOK'
  <2>1. Codes[e] \in Nat
    BY <1>3 DEF SetFromErrno, Codes
  <2> QED
    BY <1>3, <2>1 DEF SetFromErrno, Says, TypeOK
<1>4. ASSUME NEW d \in Depths, NEW s \in Sizes, StaticDefer(d, s) PROVE TypeOK'
  <2>1. CASE StaticFull(frame[d], s)
    BY <1>4, <2>1, <1>0 DEF StaticDefer, TypeOK
  <2>2. CASE ~StaticFull(frame[d], s)
    <3>1. frame[d] \in Frames /\ count \in Nat
      BY DEF TypeOK
    <3>2. Len(frame[d].stat) < MaxStatic
      BY <2>2, <3>1, FrameFields DEF StaticFull
    <3>3. Len(AddStatic(frame[d], s).stat) <= MaxStatic /\ Len(AddStatic(frame[d], s).dyn) <= MaxDyn
      <4>1. Len(AddStatic(frame[d], s).stat) = Len(frame[d].stat) + 1
            /\ AddStatic(frame[d], s).dyn = frame[d].dyn
        BY <3>1, AddStaticType
      <4>2. Len(frame[d].stat) \in Nat /\ Len(frame[d].dyn) <= MaxDyn
        BY <3>1, FrameFields DEF TypeOK
      <4> QED
        BY <3>2, <4>1, <4>2
    <3>4. frame' = [frame EXCEPT ![d] = AddStatic(frame[d], s)]
      BY <1>4, <2>2 DEF StaticDefer
    <3>5. /\ frame' \in [Depths -> Frames]
          /\ \A e \in Depths : Len(frame'[e].stat) <= MaxStatic /\ Len(frame'[e].dyn) <= MaxDyn
      BY <3>1, <3>3, <3>4, AddStaticType, FrameUpdate
    <3>6. count' \in Nat /\ UNCHANGED <<err, curr, phase, aborted, ran, said>>
      BY <1>4, <2>2, <3>1 DEF StaticDefer
    <3> QED
      BY <3>5, <3>6 DEF TypeOK
  <2> QED
    BY <2>1, <2>2
<1>5. ASSUME NEW d \in Depths, Defer(d) PROVE TypeOK'
  <2>1. CASE DynFull(frame[d])
    BY <1>5, <2>1, <1>0 DEF Defer, TypeOK
  <2>2. CASE ~DynFull(frame[d])
    <3>1. frame[d] \in Frames /\ count \in Nat
      BY DEF TypeOK
    <3>2. Len(frame[d].dyn) < MaxDyn
      BY <2>2, <3>1, FrameFields DEF DynFull
    <3>3. AddDyn(frame[d]) \in Frames /\ AddDyn(frame[d]).stat = frame[d].stat
          /\ Len(AddDyn(frame[d]).dyn) = Len(frame[d].dyn) + 1
      BY <3>1, AddDynType
    <3>4. Len(AddDyn(frame[d]).stat) <= MaxStatic /\ Len(AddDyn(frame[d]).dyn) <= MaxDyn
      BY <3>1, <3>2, <3>3, FrameFields DEF TypeOK
    <3>5. frame' = [frame EXCEPT ![d] = AddDyn(frame[d])]
      BY <1>5, <2>2 DEF Defer
    <3>6. /\ frame' \in [Depths -> Frames]
          /\ \A e \in Depths : Len(frame'[e].stat) <= MaxStatic /\ Len(frame'[e].dyn) <= MaxDyn
      BY <3>3, <3>4, <3>5, FrameUpdate
    <3>7. count' \in Nat /\ UNCHANGED <<err, curr, phase, aborted, ran, said>>
      BY <1>5, <2>2, <3>1 DEF Defer
    <3> QED
      BY <3>6, <3>7 DEF TypeOK
  <2> QED
    BY <2>1, <2>2
<1>6. ASSUME NEW d \in Depths, Return(d) PROVE TypeOK'
  BY <1>6 DEF Return, TypeOK, Phases
<1>7. ASSUME NEW d \in Depths, HandlerReturns(d) PROVE TypeOK'
  <2>1. frame[d] \in Frames
    BY DEF TypeOK
  <2>2. frame' = [frame EXCEPT ![d] = Rest(frame[d])]
    BY <1>7 DEF HandlerReturns
  <2>3. Len(Rest(frame[d]).stat) <= MaxStatic /\ Len(Rest(frame[d]).dyn) <= MaxDyn
    BY <2>1, RunTypes DEF TypeOK
  <2>4. /\ frame' \in [Depths -> Frames]
        /\ \A e \in Depths : Len(frame'[e].stat) <= MaxStatic /\ Len(frame'[e].dyn) <= MaxDyn
    BY <2>1, <2>2, <2>3, RunTypes, FrameUpdate
  <2> QED
    BY <1>7, <2>4 DEF HandlerReturns, TypeOK, Phases
<1>8. ASSUME NEW d \in Depths, RunStatic(d) PROVE TypeOK'
  <2>1. frame[d] \in Frames /\ frame[d].stat # <<>>
    BY <1>8 DEF TypeOK, RunStatic
  <2>2. frame' = [frame EXCEPT ![d] = TakeStatic(frame[d])]
    BY <1>8 DEF RunStatic
  <2>3. Len(TakeStatic(frame[d]).stat) <= MaxStatic /\ Len(TakeStatic(frame[d]).dyn) <= MaxDyn
    BY <2>1, RunTypes, FrameFields DEF TypeOK
  <2>4. /\ frame' \in [Depths -> Frames]
        /\ \A e \in Depths : Len(frame'[e].stat) <= MaxStatic /\ Len(frame'[e].dyn) <= MaxDyn
    BY <2>1, <2>2, <2>3, RunTypes, FrameUpdate
  <2>5. Last(frame[d].stat) \in Entries
    BY <2>1, FrameFields, FrontFacts
  <2>6. ran' \subseteq Nat
    BY <1>8, <2>5 DEF RunStatic, TypeOK, Entries
  <2> QED
    BY <1>8, <2>4, <2>6 DEF RunStatic, TypeOK, Phases
<1>9. ASSUME NEW d \in Depths, StaticDone(d) PROVE TypeOK'
  <2>1. frame[d] \in Frames
    BY DEF TypeOK
  <2>2. frame' = [frame EXCEPT ![d] = FreePool(frame[d])]
    BY <1>9 DEF StaticDone
  <2>3. Len(FreePool(frame[d]).stat) <= MaxStatic /\ Len(FreePool(frame[d]).dyn) <= MaxDyn
    BY <2>1, RunTypes DEF TypeOK
  <2>4. /\ frame' \in [Depths -> Frames]
        /\ \A e \in Depths : Len(frame'[e].stat) <= MaxStatic /\ Len(frame'[e].dyn) <= MaxDyn
    BY <2>1, <2>2, <2>3, RunTypes, FrameUpdate
  <2> QED
    BY <1>9, <2>4 DEF StaticDone, TypeOK, Phases
<1>10. ASSUME NEW d \in Depths, RunDynamic(d) PROVE TypeOK'
  <2>1. frame[d] \in Frames /\ frame[d].dyn # <<>>
    BY <1>10 DEF TypeOK, RunDynamic
  <2>2. frame' = [frame EXCEPT ![d] = TakeDyn(frame[d])]
    BY <1>10 DEF RunDynamic
  <2>3. Len(TakeDyn(frame[d]).stat) <= MaxStatic /\ Len(TakeDyn(frame[d]).dyn) <= MaxDyn
    BY <2>1, RunTypes, FrameFields DEF TypeOK
  <2>4. /\ frame' \in [Depths -> Frames]
        /\ \A e \in Depths : Len(frame'[e].stat) <= MaxStatic /\ Len(frame'[e].dyn) <= MaxDyn
    BY <2>1, <2>2, <2>3, RunTypes, FrameUpdate
  <2>5. Last(frame[d].dyn) \in Nat
    BY <2>1, FrameFields, FrontFacts
  <2>6. ran' \subseteq Nat
    BY <1>10, <2>5 DEF RunDynamic, TypeOK
  <2> QED
    BY <1>10, <2>4, <2>6 DEF RunDynamic, TypeOK, Phases
<1>11. ASSUME NEW d \in Depths, Pop(d) PROVE TypeOK'
  BY <1>11 DEF Pop, TypeOK, Depths
<1>12. CASE UNCHANGED vars
  BY <1>12 DEF vars, TypeOK
<1> QED
  BY <1>1, <1>2, <1>3, <1>4, <1>5, <1>6, <1>7, <1>8, <1>9, <1>10, <1>11, <1>12
     DEF Next, Client, RunDefers

\* The arrays of errm.c are never written beyond their ends (the checks of
\* errm.c:72, 90 and 112), and every variable keeps its type.
THEOREM TypeCorrect == Spec => []TypeOK
BY TypeInit, TypeNext, PTL DEF Spec
-----------------------------------------------------------------------------
(* What the operations do to a frame that is in order.                     *)

\* The numbers of the defers of a frame, by place in their lists.
LEMMA Nums ==
  ASSUME NEW f \in Frames
  PROVE  /\ StaticNums(f) = {f.stat[i].num : i \in 1 .. Len(f.stat)}
         /\ DynNums(f) = {f.dyn[i] : i \in 1 .. Len(f.dyn)}
         /\ \A i \in 1 .. Len(f.stat) :
              /\ f.stat[i].num \in Nat /\ f.stat[i].at \in Nat /\ f.stat[i].size \in Nat
              /\ f.stat[i] \in Entries
         /\ \A i \in 1 .. Len(f.dyn) : f.dyn[i] \in Nat
         /\ \A e \in f.busy : e.at \in Nat /\ e.size \in Nat
<1>1. DOMAIN f.stat = 1 .. Len(f.stat) /\ DOMAIN f.dyn = 1 .. Len(f.dyn)
  BY FrameFields
<1>2. \A e \in Entries : e.num \in Nat /\ e.at \in Nat /\ e.size \in Nat
  BY ErrmAssumption DEF Entries, ErrmAssumption
<1>3. /\ \A i \in 1 .. Len(f.stat) : f.stat[i] \in Entries
      /\ \A i \in 1 .. Len(f.dyn) : f.dyn[i] \in Nat
      /\ f.busy \subseteq Entries
  BY FrameFields
<1> QED
  BY <1>1, <1>2, <1>3 DEF StaticNums, DynNums

\* A static defer goes last and its argument after those in use (errm.c:94-106).
LEMMA AddStaticOK ==
  ASSUME NEW f \in Frames, NEW s \in Sizes, count \in Nat,
         FrameOK(f), ~StaticFull(f, s), Waiting(f) \subseteq 0 .. count - 1
  PROVE  /\ FrameOK(AddStatic(f, s))
         /\ Waiting(AddStatic(f, s)) = Waiting(f) \cup {count}
<1> DEFINE g == AddStatic(f, s)
           e == [num |-> count, at |-> f.used, size |-> s]
           k == Len(f.stat)
<1>1. /\ g \in Frames /\ Len(g.stat) = k + 1 /\ e \in Entries /\ s \in Nat
      /\ g.stat = Append(f.stat, e)
      /\ g.dyn = f.dyn /\ g.busy = f.busy /\ g.used = f.used + s
  BY AddStaticType
<1>2. e.num = count /\ e.at = f.used /\ e.size = s
  OBVIOUS
<1>3. k \in Nat /\ f.used \in Nat /\ f.stat \in Seq(Entries)
  BY FrameFields
<1> HIDE DEF g, e
<1>4. g.stat[k + 1] = e /\ \A i \in 1 .. k : g.stat[i] = f.stat[i]
  BY <1>1, <1>3
<1> HIDE DEF k
<1>5. \A i \in 1 .. k : /\ f.stat[i].num \in Nat /\ f.stat[i].at \in Nat /\ f.stat[i].size \in Nat
                       /\ f.stat[i].num \in StaticNums(f)
  BY Nums DEF k
<1>6. \A i \in 1 .. k : f.stat[i].num < count
  BY <1>3, <1>5 DEF Waiting
<1>7. StaticOrdered(g)
  <2> SUFFICES ASSUME NEW i \in 1 .. k + 1, NEW j \in 1 .. k + 1, i < j
               PROVE  /\ g.stat[i].num < g.stat[j].num
                      /\ g.stat[i].at + g.stat[i].size <= g.stat[j].at
    BY <1>1 DEF StaticOrdered
  <2>1. i \in 1 .. k
    BY <1>3
  <2>2. CASE j \in 1 .. k
    <3>1. f.stat[i].num < f.stat[j].num /\ f.stat[i].at + f.stat[i].size <= f.stat[j].at
      BY <2>1, <2>2 DEF FrameOK, StaticOrdered, k
    <3> QED
      BY <1>4, <2>1, <2>2, <3>1
  <2>3. CASE j = k + 1
    <3>1. f.stat[i].at + f.stat[i].size <= f.used
      BY <2>1 DEF FrameOK, Fits, k
    <3> QED
      BY <1>2, <1>4, <1>6, <2>1, <2>3, <3>1
  <2> QED
    BY <1>3, <2>2, <2>3
<1>8. DynOrdered(g)
  BY <1>1 DEF DynOrdered, FrameOK
<1>9. StaticNums(g) = StaticNums(f) \cup {count}
  <2>1. StaticNums(g) = {g.stat[i].num : i \in 1 .. k + 1}
    BY <1>1, Nums
  <2>2. StaticNums(f) = {f.stat[i].num : i \in 1 .. k}
    BY Nums DEF k
  <2>3. 1 .. k + 1 = (1 .. k) \cup {k + 1}
    BY <1>3
  <2>4. {g.stat[i].num : i \in 1 .. k + 1} = {g.stat[i].num : i \in 1 .. k} \cup {g.stat[k + 1].num}
    BY <2>3
  <2>5. {g.stat[i].num : i \in 1 .. k} = {f.stat[i].num : i \in 1 .. k}
    BY <1>4
  <2> QED
    BY <1>2, <1>4, <2>1, <2>2, <2>4, <2>5
<1>10. DynNums(g) = DynNums(f)
  BY <1>1 DEF DynNums
<1>11. count \notin DynNums(f)
  BY DEF Waiting
<1>12. Fits(g)
  <2>1. f.used + s <= PoolSize
    BY <1>1, <1>3, ErrmAssumption DEF StaticFull, ErrmAssumption
  <2>2. ASSUME NEW i \in 1 .. k + 1
        PROVE  g.stat[i].at + g.stat[i].size <= f.used + s
    <3>1. CASE i \in 1 .. k
      <4>1. f.stat[i].at + f.stat[i].size <= f.used
        BY <3>1 DEF FrameOK, Fits, k
      <4> QED
        BY <1>1, <1>3, <1>4, <1>5, <3>1, <4>1, SMTT(60)
    <3>2. CASE i = k + 1
      BY <1>1, <1>2, <1>3, <1>4, <3>2
    <3> QED
      BY <1>3, <3>1, <3>2
  <2>3. ASSUME NEW b \in f.busy
        PROVE  /\ b.at + b.size <= f.used + s
               /\ \A i \in 1 .. k + 1 : Apart(g.stat[i], b)
    <3>1. b.at \in Nat /\ b.size \in Nat
      BY Nums
    <3>2. b.at + b.size <= f.used /\ \A i \in 1 .. k : Apart(f.stat[i], b)
      BY DEF FrameOK, Fits, k
    <3>3. Apart(e, b)
      BY <1>2, <3>1, <3>2 DEF Apart
    <3>4. \A i \in 1 .. k + 1 : i \in 1 .. k \/ i = k + 1
      BY <1>3
    <3> QED
      BY <1>1, <1>3, <1>4, <3>1, <3>2, <3>3, <3>4
  <2> QED
    BY <1>1, <2>1, <2>2, <2>3 DEF Fits
<1> QED
  BY <1>7, <1>8, <1>9, <1>10, <1>11, <1>12 DEF FrameOK, Waiting, g

\* A dynamic defer goes last among the dynamic ones (errm.c:116-119).
LEMMA AddDynOK ==
  ASSUME NEW f \in Frames, count \in Nat,
         FrameOK(f), Waiting(f) \subseteq 0 .. count - 1
  PROVE  /\ FrameOK(AddDyn(f))
         /\ Waiting(AddDyn(f)) = Waiting(f) \cup {count}
<1> DEFINE g == AddDyn(f)
           k == Len(f.dyn)
<1>1. /\ g \in Frames /\ Len(g.dyn) = k + 1 /\ g.dyn = Append(f.dyn, count)
      /\ g.stat = f.stat /\ g.busy = f.busy /\ g.used = f.used
  BY AddDynType
<1>2. k \in Nat /\ f.dyn \in Seq(Nat)
  BY FrameFields
<1> HIDE DEF g
<1>3. g.dyn[k + 1] = count /\ \A i \in 1 .. k : g.dyn[i] = f.dyn[i]
  BY <1>1, <1>2
<1> HIDE DEF k
<1>4. \A i \in 1 .. k : f.dyn[i] \in Nat /\ f.dyn[i] \in DynNums(f)
  BY Nums DEF k
<1>5. \A i \in 1 .. k : f.dyn[i] < count
  BY <1>2, <1>4 DEF Waiting
<1>6. DynOrdered(g)
  <2> SUFFICES ASSUME NEW i \in 1 .. k + 1, NEW j \in 1 .. k + 1, i < j
               PROVE  g.dyn[i] < g.dyn[j]
    BY <1>1 DEF DynOrdered
  <2>1. i \in 1 .. k
    BY <1>2
  <2>2. CASE j \in 1 .. k
    <3>1. f.dyn[i] < f.dyn[j]
      BY <2>1, <2>2 DEF FrameOK, DynOrdered, k
    <3> QED
      BY <1>3, <2>1, <2>2, <3>1
  <2>3. CASE j = k + 1
    BY <1>3, <1>5, <2>1, <2>3
  <2> QED
    BY <1>2, <2>2, <2>3
<1>7. DynNums(g) = DynNums(f) \cup {count}
  <2>1. DynNums(g) = {g.dyn[i] : i \in 1 .. k + 1}
    BY <1>1, Nums
  <2>2. DynNums(f) = {f.dyn[i] : i \in 1 .. k}
    BY Nums DEF k
  <2>3. 1 .. k + 1 = (1 .. k) \cup {k + 1}
    BY <1>2
  <2> QED
    BY <1>3, <2>1, <2>2, <2>3
<1>8. StaticNums(g) = StaticNums(f)
  BY <1>1 DEF StaticNums
<1>9. count \notin StaticNums(f)
  BY DEF Waiting
<1>10. StaticOrdered(g) /\ Fits(g)
  BY <1>1 DEF StaticOrdered, Fits, FrameOK
<1> QED
  BY <1>6, <1>7, <1>8, <1>9, <1>10 DEF FrameOK, Waiting, g

\* The static defer that runs is the latest of the static ones (errm.c:125-134).
LEMMA TakeStaticOK ==
  ASSUME NEW f \in Frames, f.stat # <<>>, FrameOK(f)
  PROVE  /\ FrameOK(TakeStatic(f))
         /\ Last(f.stat).num \in StaticNums(f)
         /\ Last(f.stat).num \notin DynNums(f)
         /\ \A n \in StaticNums(TakeStatic(f)) : n < Last(f.stat).num
         /\ DynNums(TakeStatic(f)) = DynNums(f)
         /\ Waiting(TakeStatic(f)) = Waiting(f) \ {Last(f.stat).num}
<1> DEFINE g == TakeStatic(f)
           e == Last(f.stat)
           k == Len(f.stat)
<1>1. /\ g \in Frames /\ g.stat = Front(f.stat) /\ g.dyn = f.dyn /\ g.used = f.used
      /\ g.busy = {e} /\ Len(g.stat) = k - 1
  BY RunTypes
<1>2. /\ k \in Nat \ {0} /\ e = f.stat[k]
      /\ \A i \in 1 .. k - 1 : Front(f.stat)[i] = f.stat[i]
  BY FrameFields, FrontFacts
<1> HIDE DEF g, e, k
<1>3. \A i \in 1 .. k - 1 : g.stat[i] = f.stat[i]
  BY <1>1, <1>2
<1>4. 1 .. k = (1 .. k - 1) \cup {k} /\ k \in 1 .. k
  BY <1>2
<1>5. StaticNums(f) = {f.stat[i].num : i \in 1 .. k}
  BY Nums DEF k
<1>6. StaticNums(g) = {f.stat[i].num : i \in 1 .. k - 1}
  <2>1. StaticNums(g) = {g.stat[i].num : i \in 1 .. k - 1}
    BY <1>1, Nums
  <2> QED
    BY <1>3, <2>1
<1>7. \A i \in 1 .. k : /\ f.stat[i].num \in Nat /\ f.stat[i].at \in Nat /\ f.stat[i].size \in Nat
                       /\ f.stat[i].at + f.stat[i].size <= f.used
  BY Nums DEF k, FrameOK, Fits
<1>8. \A i \in 1 .. k - 1 : /\ f.stat[i].num < e.num
                           /\ f.stat[i].at + f.stat[i].size <= e.at
  BY <1>2, <1>4 DEF FrameOK, StaticOrdered, k
<1>9. StaticNums(f) = StaticNums(g) \cup {e.num}
  BY <1>2, <1>4, <1>5, <1>6
<1>10. e.num \notin StaticNums(g) /\ \A n \in StaticNums(g) : n < e.num
  <2>1. \A i \in 1 .. k - 1 : f.stat[i].num # e.num
    BY <1>2, <1>4, <1>7, <1>8
  <2> QED
    BY <1>6, <1>8, <2>1
<1>11. DynNums(g) = DynNums(f)
  BY <1>1 DEF DynNums
<1>12. e.num \notin DynNums(f)
  BY <1>9 DEF FrameOK
<1>13. StaticOrdered(g)
  BY <1>1, <1>2, <1>3, <1>4 DEF StaticOrdered, FrameOK, k
<1>14. DynOrdered(g)
  BY <1>1 DEF DynOrdered, FrameOK
<1>15. Fits(g)
  <2>1. g.used <= PoolSize
    BY <1>1 DEF FrameOK, Fits
  <2>2. e.at + e.size <= g.used
    BY <1>1, <1>2, <1>4, <1>7
  <2>3. ASSUME NEW i \in 1 .. k - 1
        PROVE  g.stat[i].at + g.stat[i].size <= g.used /\ Apart(g.stat[i], e)
    BY <1>1, <1>3, <1>4, <1>7, <1>8 DEF Apart
  <2> QED
    BY <1>1, <2>1, <2>2, <2>3 DEF Fits
<1>16. StaticNums(g) \cap DynNums(g) = {}
  BY <1>9, <1>11 DEF FrameOK
<1>17. Waiting(g) = Waiting(f) \ {e.num}
  BY <1>9, <1>10, <1>11, <1>12 DEF Waiting
<1> QED
  BY <1>9, <1>10, <1>11, <1>12, <1>13, <1>14, <1>15, <1>16, <1>17 DEF FrameOK, g, e

\* The dynamic defer that runs is the latest of the dynamic ones (errm.c:137-145).
LEMMA TakeDynOK ==
  ASSUME NEW f \in Frames, f.dyn # <<>>, FrameOK(f)
  PROVE  /\ FrameOK(TakeDyn(f))
         /\ Last(f.dyn) \in DynNums(f)
         /\ Last(f.dyn) \notin StaticNums(f)
         /\ \A n \in DynNums(TakeDyn(f)) : n < Last(f.dyn)
         /\ StaticNums(TakeDyn(f)) = StaticNums(f)
         /\ Waiting(TakeDyn(f)) = Waiting(f) \ {Last(f.dyn)}
<1> DEFINE g == TakeDyn(f)
           e == Last(f.dyn)
           k == Len(f.dyn)
<1>1. /\ g \in Frames /\ g.stat = f.stat /\ g.dyn = Front(f.dyn) /\ g.used = f.used
      /\ g.busy = f.busy /\ Len(g.dyn) = k - 1
  BY RunTypes
<1>2. /\ k \in Nat \ {0} /\ e = f.dyn[k]
      /\ \A i \in 1 .. k - 1 : Front(f.dyn)[i] = f.dyn[i]
  BY FrameFields, FrontFacts
<1> HIDE DEF g, e, k
<1>3. \A i \in 1 .. k - 1 : g.dyn[i] = f.dyn[i]
  BY <1>1, <1>2
<1>4. 1 .. k = (1 .. k - 1) \cup {k} /\ k \in 1 .. k
  BY <1>2
<1>5. DynNums(f) = {f.dyn[i] : i \in 1 .. k}
  BY Nums DEF k
<1>6. DynNums(g) = {f.dyn[i] : i \in 1 .. k - 1}
  <2>1. DynNums(g) = {g.dyn[i] : i \in 1 .. k - 1}
    BY <1>1, Nums
  <2> QED
    BY <1>3, <2>1
<1>7. \A i \in 1 .. k : f.dyn[i] \in Nat
  BY Nums DEF k
<1>8. \A i \in 1 .. k - 1 : f.dyn[i] < e
  BY <1>2, <1>4 DEF FrameOK, DynOrdered, k
<1>9. DynNums(f) = DynNums(g) \cup {e}
  BY <1>2, <1>4, <1>5, <1>6
<1>10. e \notin DynNums(g) /\ \A n \in DynNums(g) : n < e
  <2>1. \A i \in 1 .. k - 1 : f.dyn[i] # e
    BY <1>2, <1>4, <1>7, <1>8
  <2> QED
    BY <1>6, <1>8, <2>1
<1>11. StaticNums(g) = StaticNums(f)
  BY <1>1 DEF StaticNums
<1>12. e \notin StaticNums(f)
  BY <1>9 DEF FrameOK
<1>13. DynOrdered(g)
  BY <1>1, <1>2, <1>3, <1>4 DEF DynOrdered, FrameOK, k
<1>14. StaticOrdered(g) /\ Fits(g)
  BY <1>1 DEF StaticOrdered, Fits, FrameOK
<1>15. StaticNums(g) \cap DynNums(g) = {}
  BY <1>9, <1>11 DEF FrameOK
<1>16. Waiting(g) = Waiting(f) \ {e}
  BY <1>9, <1>10, <1>11, <1>12 DEF Waiting
<1> QED
  BY <1>9, <1>10, <1>11, <1>12, <1>13, <1>14, <1>15, <1>16 DEF FrameOK, g, e

\* A defer that has returned uses its argument no more.
LEMMA RestOK ==
  ASSUME NEW f \in Frames, FrameOK(f)
  PROVE  FrameOK(Rest(f)) /\ Waiting(Rest(f)) = Waiting(f)
<1>1. Rest(f).stat = f.stat /\ Rest(f).dyn = f.dyn /\ Rest(f).used = f.used /\ Rest(f).busy = {}
  BY RunTypes
<1> HIDE DEF Rest
<1> QED
  BY <1>1 DEF FrameOK, StaticOrdered, DynOrdered, Fits, StaticNums, DynNums, Waiting

\* The pool is empty again when all static defers have run (errm.c:135).
LEMMA FreePoolOK ==
  ASSUME NEW f \in Frames, FrameOK(f), f.stat = <<>>, f.busy = {}
  PROVE  FrameOK(FreePool(f)) /\ Waiting(FreePool(f)) = Waiting(f)
<1>1. /\ FreePool(f).stat = f.stat /\ FreePool(f).dyn = f.dyn
      /\ FreePool(f).used = 0 /\ FreePool(f).busy = f.busy
  BY RunTypes
<1>2. 0 <= PoolSize /\ 1 .. Len(f.stat) = {}
  BY ErrmAssumption DEF ErrmAssumption
<1> HIDE DEF FreePool
<1> QED
  BY <1>1, <1>2 DEF FrameOK, StaticOrdered, DynOrdered, Fits, StaticNums, DynNums, Waiting
-----------------------------------------------------------------------------
(* The invariant.                                                          *)

\* An empty frame is in order.
LEMMA EmptyOK == FrameOK(Empty) /\ Waiting(Empty) = {}
<1>1. /\ Empty.stat = <<>> /\ Empty.dyn = <<>> /\ Empty.used = 0 /\ Empty.busy = {}
      /\ 1 .. Len(Empty.stat) = {} /\ 1 .. Len(Empty.dyn) = {} /\ 0 <= PoolSize
  BY ErrmAssumption DEF Empty, ErrmAssumption
<1>2. StaticNums(Empty) = {} /\ DynNums(Empty) = {}
  BY <1>1, EmptyFrame, Nums
<1> QED
  BY <1>1, <1>2 DEF FrameOK, StaticOrdered, DynOrdered, Fits, Waiting

\* The part of the invariant that a step changes when it replaces a frame.
Numbered == FramesOK /\ NewOnes /\ WaitOnes /\ OneFrame /\ Nowhere

\* A frame in order is replaced by one in which the same defers wait.
LEMMA NumberedSame ==
  ASSUME TypeOK, Numbered, NEW d \in Depths, NEW g \in Frames,
         FrameOK(g), Waiting(g) = Waiting(frame[d]),
         frame' = [frame EXCEPT ![d] = g], UNCHANGED <<count, ran>>
  PROVE  Numbered'
<1>1. \A e \in Depths : FrameOK(frame'[e]) /\ Waiting(frame'[e]) = Waiting(frame[e])
  BY DEF TypeOK, Numbered, FramesOK
<1> QED
  BY <1>1 DEF Numbered, FramesOK, NewOnes, WaitOnes, OneFrame, Nowhere

\* A defer is registered in a frame.
LEMMA NumberedAdd ==
  ASSUME TypeOK, Numbered, NEW d \in Depths, NEW g \in Frames,
         FrameOK(g), Waiting(g) = Waiting(frame[d]) \cup {count},
         frame' = [frame EXCEPT ![d] = g], count' = count + 1, ran' = ran
  PROVE  Numbered'
<1>1. frame'[d] = g /\ \A e \in Depths : e # d => frame'[e] = frame[e]
  BY DEF TypeOK
<1>2. 0 .. count' - 1 = (0 .. count - 1) \cup {count} /\ count \notin 0 .. count - 1
  BY DEF TypeOK
<1>3. \A e \in Depths : Waiting(frame[e]) \subseteq (0 .. count - 1) \ ran
  BY DEF Numbered, WaitOnes
<1>4. ran \subseteq 0 .. count - 1
  BY DEF Numbered, NewOnes
<1>5. FramesOK'
  BY <1>1 DEF Numbered, FramesOK
<1>6. NewOnes'
  BY <1>2, <1>4 DEF NewOnes
<1>7. WaitOnes'
  BY <1>1, <1>2, <1>3, <1>4 DEF WaitOnes
<1>8. OneFrame'
  <2> SUFFICES ASSUME NEW a \in Depths, NEW b \in Depths, a # b
               PROVE  Waiting(frame'[a]) \cap Waiting(frame'[b]) = {}
    BY DEF OneFrame
  <2>1. Waiting(frame[a]) \cap Waiting(frame[b]) = {}
    BY DEF Numbered, OneFrame
  <2> QED
    BY <1>1, <1>2, <1>3, <2>1
<1>9. Nowhere'
  <2> SUFFICES ASSUME NEW n \in 0 .. count' - 1
               PROVE  n \in ran' \/ \E e \in Depths : n \in Waiting(frame'[e])
    BY DEF Nowhere
  <2>1. \A e \in Depths : Waiting(frame[e]) \subseteq Waiting(frame'[e])
    BY <1>1
  <2> QED
    BY <1>1, <1>2, <2>1 DEF Numbered, Nowhere
<1> QED
  BY <1>5, <1>6, <1>7, <1>8, <1>9 DEF Numbered

\* A defer is taken from a frame and run.
LEMMA NumberedTake ==
  ASSUME TypeOK, Numbered, NEW d \in Depths, NEW g \in Frames, NEW n \in Waiting(frame[d]),
         FrameOK(g), Waiting(g) = Waiting(frame[d]) \ {n},
         frame' = [frame EXCEPT ![d] = g], count' = count, ran' = ran \cup {n}
  PROVE  Numbered'
<1>1. frame'[d] = g /\ \A e \in Depths : e # d => frame'[e] = frame[e]
  BY DEF TypeOK
<1>2. \A e \in Depths : Waiting(frame[e]) \subseteq (0 .. count - 1) \ ran
  BY DEF Numbered, WaitOnes
<1>3. \A e \in Depths : e # d => n \notin Waiting(frame[e])
  BY DEF Numbered, OneFrame
<1>4. FramesOK'
  BY <1>1 DEF Numbered, FramesOK
<1>5. NewOnes'
  BY <1>2 DEF Numbered, NewOnes
<1>6. WaitOnes'
  BY <1>1, <1>2, <1>3 DEF WaitOnes
<1>7. OneFrame'
  <2> SUFFICES ASSUME NEW a \in Depths, NEW b \in Depths, a # b
               PROVE  Waiting(frame'[a]) \cap Waiting(frame'[b]) = {}
    BY DEF OneFrame
  <2>1. Waiting(frame[a]) \cap Waiting(frame[b]) = {}
    BY DEF Numbered, OneFrame
  <2> QED
    BY <1>1, <2>1
<1>8. Nowhere'
  <2> SUFFICES ASSUME NEW m \in 0 .. count - 1
               PROVE  m \in ran' \/ \E e \in Depths : m \in Waiting(frame'[e])
    BY DEF Nowhere
  <2>1. \A e \in Depths : Waiting(frame[e]) \subseteq Waiting(frame'[e]) \cup {n}
    BY <1>1
  <2> QED
    BY <2>1 DEF Numbered, Nowhere
<1> QED
  BY <1>4, <1>5, <1>6, <1>7, <1>8 DEF Numbered

\* A step of the current function leaves the frames above it empty.
LEMMA AboveKept ==
  ASSUME TypeOK, EmptyAbove, NEW d \in Depths, curr = d, NEW g,
         frame' = [frame EXCEPT ![d] = g], curr' = curr
  PROVE  EmptyAbove'
BY DEF EmptyAbove, TypeOK, Depths

\* ... and the shape of the frames below it.
LEMMA PhasesKept ==
  ASSUME TypeOK, PhasesOK, NEW d \in Depths, NEW g, NEW ph, PhaseOK(g, ph),
         frame' = [frame EXCEPT ![d] = g], phase' = [phase EXCEPT ![d] = ph], curr' = curr
  PROVE  PhasesOK'
BY DEF PhasesOK, TypeOK

\* The inductive invariant at the start.
LEMMA InvInit == Init => Inv
<1> SUFFICES ASSUME Init PROVE Inv
  OBVIOUS
<1>1. TypeOK
  BY TypeInit
<1>2. \A d \in Depths : frame[d] = Empty /\ ~(d <= curr)
  BY ErrmAssumption DEF Init, Depths, ErrmAssumption
<1>3. count = 0 /\ ran = {} /\ 0 .. count - 1 = {}
  BY DEF Init
<1> QED
  BY <1>1, <1>2, <1>3, EmptyOK
     DEF Inv, EmptyAbove, PhasesOK, FramesOK, NewOnes, WaitOnes, OneFrame, Nowhere

\* The inductive invariant is kept by every step.
LEMMA InvNext == Inv /\ [Next]_vars => Inv'
<1> SUFFICES ASSUME Inv, [Next]_vars PROVE Inv'
  OBVIOUS
<1>t. TypeOK /\ TypeOK'
  BY TypeNext DEF Inv
<1>i. EmptyAbove /\ PhasesOK /\ Numbered
  BY DEF Inv, Numbered
<1>e. ASSUME EmptyAbove', PhasesOK', Numbered' PROVE Inv'
  BY <1>e, <1>t DEF Inv, Numbered
<1>u. ASSUME UNCHANGED <<curr, frame, phase, count, ran>> PROVE Inv'
  BY <1>u, <1>i, <1>t, <1>e
     DEF EmptyAbove, PhasesOK, Numbered, FramesOK, NewOnes, WaitOnes, OneFrame, Nowhere
<1>f. \A d \in Depths : frame[d] \in Frames /\ FrameOK(frame[d])
                       /\ Waiting(frame[d]) \subseteq 0 .. count - 1
  BY <1>i, <1>t DEF TypeOK, Numbered, FramesOK, WaitOnes
<1>c. count \in Nat
  BY <1>t DEF TypeOK
<1>p. \A d \in Depths : curr = d => PhaseOK(frame[d], phase[d])
  BY <1>i DEF PhasesOK, Depths
<1>s. \A d \in Depths : phase = [phase EXCEPT ![d] = phase[d]]
  BY <1>t DEF TypeOK
<1>1. CASE Enter
  <2>1. CASE curr >= StackSize - 1
    BY <1>1, <2>1, <1>u DEF Enter, Push, Abort
  <2>2. CASE ~(curr >= StackSize - 1)
    <3>1. /\ curr' = curr + 1 /\ curr + 1 \in Depths
          /\ phase' = [phase EXCEPT ![curr + 1] = "body"]
          /\ UNCHANGED <<frame, count, ran>>
      BY <1>1, <2>2, <1>t, ErrmAssumption DEF Enter, Push, TypeOK, Depths, ErrmAssumption
    <3>2. frame[curr + 1] = Empty
      BY <3>1, <1>i, <1>t DEF EmptyAbove, TypeOK, Depths
    <3>3. EmptyAbove'
      BY <3>1, <1>i, <1>t DEF EmptyAbove, TypeOK, Depths
    <3>4. PhaseOK(frame[curr + 1], "body")
      BY <3>2 DEF PhaseOK, Empty
    <3>5. PhasesOK'
      BY <3>1, <3>4, <1>i, <1>t DEF PhasesOK, TypeOK, Depths
    <3>6. Numbered'
      BY <3>1, <1>i DEF Numbered, FramesOK, NewOnes, WaitOnes, OneFrame, Nowhere
    <3> QED
      BY <3>3, <3>5, <3>6, <1>e
  <2> QED
    BY <2>1, <2>2
<1>2. ASSUME NEW e \in Errors, SetError(e) PROVE Inv'
  BY <1>2, <1>u DEF SetError, Says
<1>3. ASSUME NEW e \in Errnos, SetFromErrno(e) PROVE Inv'
  BY <1>3, <1>u DEF SetFromErrno, Says
<1>4. ASSUME NEW d \in Depths, NEW s \in Sizes, StaticDefer(d, s) PROVE Inv'
  <2>1. CASE StaticFull(frame[d], s)
    BY <1>4, <2>1, <1>u DEF StaticDefer, Abort
  <2>2. CASE ~StaticFull(frame[d], s)
    <3>1. /\ curr = d /\ phase[d] \in {"body", "in_static"} /\ curr' = curr /\ phase' = phase
          /\ frame' = [frame EXCEPT ![d] = AddStatic(frame[d], s)]
          /\ count' = count + 1 /\ ran' = ran
      BY <1>4, <2>2 DEF StaticDefer, Running
    <3>2. AddStatic(frame[d], s) \in Frames /\ AddStatic(frame[d], s).busy = frame[d].busy
      BY <1>f, <1>c, AddStaticType
    <3>3. FrameOK(AddStatic(frame[d], s))
          /\ Waiting(AddStatic(frame[d], s)) = Waiting(frame[d]) \cup {count}
      BY <1>f, <1>c, <2>2, AddStaticOK
    <3>4. Numbered'
      BY <1>t, <1>i, <3>1, <3>2, <3>3, NumberedAdd
    <3>5. EmptyAbove'
      BY <1>t, <1>i, <3>1, AboveKept
    <3>6. PhaseOK(AddStatic(frame[d], s), phase[d])
      BY <3>1, <3>2, <1>p DEF PhaseOK
    <3>7. PhasesOK'
      BY <1>t, <1>i, <1>s, <3>1, <3>6, PhasesKept
    <3> QED
      BY <3>4, <3>5, <3>7, <1>e
  <2> QED
    BY <2>1, <2>2
<1>5. ASSUME NEW d \in Depths, Defer(d) PROVE Inv'
  <2>1. CASE DynFull(frame[d])
    BY <1>5, <2>1, <1>u DEF Defer, Abort
  <2>2. CASE ~DynFull(frame[d])
    <3>1. /\ curr = d /\ curr' = curr /\ phase' = phase
          /\ frame' = [frame EXCEPT ![d] = AddDyn(frame[d])]
          /\ count' = count + 1 /\ ran' = ran
      BY <1>5, <2>2 DEF Defer, Running
    <3>2. /\ AddDyn(frame[d]) \in Frames /\ AddDyn(frame[d]).busy = frame[d].busy
          /\ AddDyn(frame[d]).stat = frame[d].stat /\ AddDyn(frame[d]).used = frame[d].used
      BY <1>f, <1>c, AddDynType
    <3>3. FrameOK(AddDyn(frame[d]))
          /\ Waiting(AddDyn(frame[d])) = Waiting(frame[d]) \cup {count}
      BY <1>f, <1>c, AddDynOK
    <3>4. Numbered'
      BY <1>t, <1>i, <3>1, <3>2, <3>3, NumberedAdd
    <3>5. EmptyAbove'
      BY <1>t, <1>i, <3>1, AboveKept
    <3>6. PhaseOK(AddDyn(frame[d]), phase[d])
      BY <3>1, <3>2, <1>p DEF PhaseOK
    <3>7. PhasesOK'
      BY <1>t, <1>i, <1>s, <3>1, <3>6, PhasesKept
    <3> QED
      BY <3>4, <3>5, <3>7, <1>e
  <2> QED
    BY <2>1, <2>2
<1>6. ASSUME NEW d \in Depths, Return(d) PROVE Inv'
  <2>1. /\ curr = d /\ curr' = curr /\ phase[d] = "body" /\ phase' = [phase EXCEPT ![d] = "static"]
        /\ UNCHANGED <<frame, count, ran>>
    BY <1>6 DEF Return, Running
  <2>2. PhaseOK(frame[d], "static")
    BY <2>1, <1>p DEF PhaseOK
  <2>3. PhasesOK'
    BY <2>1, <2>2, <1>i, <1>t DEF PhasesOK, TypeOK
  <2>4. EmptyAbove' /\ Numbered'
    BY <2>1, <1>i DEF EmptyAbove, Numbered, FramesOK, NewOnes, WaitOnes, OneFrame, Nowhere
  <2> QED
    BY <2>3, <2>4, <1>e
<1>7. ASSUME NEW d \in Depths, HandlerReturns(d) PROVE Inv'
  <2> DEFINE ph == IF phase[d] = "in_static" THEN "static" ELSE "dyn"
  <2>1. /\ curr = d /\ curr' = curr /\ phase[d] \in {"in_static", "in_dyn"}
        /\ phase' = [phase EXCEPT ![d] = ph]
        /\ frame' = [frame EXCEPT ![d] = Rest(frame[d])]
        /\ UNCHANGED <<count, ran>>
    BY <1>7 DEF HandlerReturns, Running
  <2>2. /\ Rest(frame[d]) \in Frames /\ Rest(frame[d]).busy = {}
        /\ Rest(frame[d]).stat = frame[d].stat /\ Rest(frame[d]).used = frame[d].used
    BY <1>f, RunTypes
  <2>3. FrameOK(Rest(frame[d])) /\ Waiting(Rest(frame[d])) = Waiting(frame[d])
    BY <1>f, RestOK
  <2>4. Numbered'
    BY <1>t, <1>i, <2>1, <2>2, <2>3, NumberedSame
  <2>5. EmptyAbove'
    BY <1>t, <1>i, <2>1, AboveKept
  <2>6. PhaseOK(Rest(frame[d]), ph)
    BY <2>1, <2>2, <1>p DEF PhaseOK
  <2>7. PhasesOK'
    BY <1>t, <1>i, <2>1, <2>6, PhasesKept
  <2> QED
    BY <2>4, <2>5, <2>7, <1>e
<1>8. ASSUME NEW d \in Depths, RunStatic(d) PROVE Inv'
  <2> DEFINE n == Last(frame[d].stat).num
  <2>1. /\ curr = d /\ curr' = curr /\ phase' = [phase EXCEPT ![d] = "in_static"]
        /\ frame[d].stat # <<>>
        /\ frame' = [frame EXCEPT ![d] = TakeStatic(frame[d])]
        /\ count' = count /\ ran' = ran \cup {n}
    BY <1>8 DEF RunStatic, Running
  <2>2. TakeStatic(frame[d]) \in Frames
    BY <1>f, <2>1, RunTypes
  <2>3. /\ FrameOK(TakeStatic(frame[d])) /\ n \in Waiting(frame[d])
        /\ Waiting(TakeStatic(frame[d])) = Waiting(frame[d]) \ {n}
    BY <1>f, <2>1, TakeStaticOK DEF Waiting
  <2>4. Numbered'
    BY <1>t, <1>i, <2>1, <2>2, <2>3, NumberedTake
  <2>5. EmptyAbove'
    BY <1>t, <1>i, <2>1, AboveKept
  <2>6. PhaseOK(TakeStatic(frame[d]), "in_static")
    BY DEF PhaseOK
  <2>7. PhasesOK'
    BY <1>t, <1>i, <2>1, <2>6, PhasesKept
  <2> QED
    BY <2>4, <2>5, <2>7, <1>e
<1>9. ASSUME NEW d \in Depths, StaticDone(d) PROVE Inv'
  <2>1. /\ curr = d /\ curr' = curr /\ phase[d] = "static" /\ phase' = [phase EXCEPT ![d] = "dyn"]
        /\ frame[d].stat = <<>>
        /\ frame' = [frame EXCEPT ![d] = FreePool(frame[d])]
        /\ UNCHANGED <<count, ran>>
    BY <1>9 DEF StaticDone, StaticOver, Running
  <2>2. frame[d].busy = {}
    BY <2>1, <1>p DEF PhaseOK
  <2>3. /\ FreePool(frame[d]) \in Frames /\ FreePool(frame[d]).stat = frame[d].stat
        /\ FreePool(frame[d]).used = 0 /\ FreePool(frame[d]).busy = frame[d].busy
    BY <1>f, RunTypes
  <2>4. FrameOK(FreePool(frame[d])) /\ Waiting(FreePool(frame[d])) = Waiting(frame[d])
    BY <1>f, <2>1, <2>2, FreePoolOK
  <2>5. Numbered'
    BY <1>t, <1>i, <2>1, <2>3, <2>4, NumberedSame
  <2>6. EmptyAbove'
    BY <1>t, <1>i, <2>1, AboveKept
  <2>7. PhaseOK(FreePool(frame[d]), "dyn")
    BY <2>1, <2>2, <2>3 DEF PhaseOK
  <2>8. PhasesOK'
    BY <1>t, <1>i, <2>1, <2>7, PhasesKept
  <2> QED
    BY <2>5, <2>6, <2>8, <1>e
<1>10. ASSUME NEW d \in Depths, RunDynamic(d) PROVE Inv'
  <2> DEFINE n == Last(frame[d].dyn)
  <2>1. /\ curr = d /\ curr' = curr /\ phase[d] = "dyn" /\ phase' = [phase EXCEPT ![d] = "in_dyn"]
        /\ frame[d].dyn # <<>>
        /\ frame' = [frame EXCEPT ![d] = TakeDyn(frame[d])]
        /\ count' = count /\ ran' = ran \cup {n}
    BY <1>10 DEF RunDynamic, Running
  <2>2. /\ TakeDyn(frame[d]) \in Frames /\ TakeDyn(frame[d]).stat = frame[d].stat
        /\ TakeDyn(frame[d]).used = frame[d].used /\ TakeDyn(frame[d]).busy = frame[d].busy
    BY <1>f, <2>1, RunTypes
  <2>3. /\ FrameOK(TakeDyn(frame[d])) /\ n \in Waiting(frame[d])
        /\ Waiting(TakeDyn(frame[d])) = Waiting(frame[d]) \ {n}
    BY <1>f, <2>1, TakeDynOK DEF Waiting
  <2>4. Numbered'
    BY <1>t, <1>i, <2>1, <2>2, <2>3, NumberedTake
  <2>5. EmptyAbove'
    BY <1>t, <1>i, <2>1, AboveKept
  <2>6. PhaseOK(TakeDyn(frame[d]), "in_dyn")
    BY <2>1, <2>2, <1>p DEF PhaseOK
  <2>7. PhasesOK'
    BY <1>t, <1>i, <2>1, <2>6, PhasesKept
  <2> QED
    BY <2>4, <2>5, <2>7, <1>e
<1>11. ASSUME NEW d \in Depths, Pop(d) PROVE Inv'
  <2>1. /\ curr = d /\ curr' = d - 1 /\ phase[d] = "dyn" /\ frame[d].dyn = <<>>
        /\ UNCHANGED <<frame, phase, count, ran>>
    BY <1>11 DEF Pop, Running
  <2>2. frame[d].stat = <<>> /\ frame[d].used = 0 /\ frame[d].busy = {}
    BY <2>1, <1>p DEF PhaseOK
  <2>3. frame[d] = [stat |-> frame[d].stat, dyn |-> frame[d].dyn,
                    used |-> frame[d].used, busy |-> frame[d].busy]
    BY <1>f DEF Frames
  <2>4. frame[d] = Empty
    BY <2>1, <2>2, <2>3 DEF Empty
  <2>5. EmptyAbove'
    BY <2>1, <2>4, <1>i DEF EmptyAbove, Depths
  <2>6. PhasesOK'
    BY <2>1, <1>i DEF PhasesOK, Depths
  <2>7. Numbered'
    BY <2>1, <1>i DEF Numbered, FramesOK, NewOnes, WaitOnes, OneFrame, Nowhere
  <2> QED
    BY <2>5, <2>6, <2>7, <1>e
<1>12. CASE UNCHANGED vars
  BY <1>12, <1>u DEF vars
<1> QED
  BY <1>1, <1>2, <1>3, <1>4, <1>5, <1>6, <1>7, <1>8, <1>9, <1>10, <1>11, <1>12
     DEF Next, Client, RunDefers

\* The inductive invariant that the theorems below follow from: every frame is in
\* order, and the defers are numbered as they were registered (errm.c:87-146).
THEOREM Invariance == Spec => []Inv
BY InvInit, InvNext, PTL DEF Spec
-----------------------------------------------------------------------------
(* What follows from it.                                                   *)

\* No defer is lost and none runs twice (run_defers, errm.c:122-146).
THEOREM DefersRunOnce == Spec => []EachOnce
<1>1. Inv => EachOnce
  <2> SUFFICES ASSUME Inv PROVE EachOnce
    OBVIOUS
  <2>1. curr \in Depths \cup {-1}
    BY DEF Inv, TypeOK
  <2>2. 0 .. curr \subseteq Depths /\ \A d \in Depths : ~(d > curr) => d \in 0 .. curr
    BY <2>1, ErrmAssumption DEF Depths, ErrmAssumption
  <2>3. \A d \in Depths : d > curr => Waiting(frame[d]) = {}
    BY EmptyOK DEF Inv, EmptyAbove
  <2>4. \A n \in 0 .. count - 1 : n \in ran \/ \E d \in 0 .. curr : n \in Waiting(frame[d])
    BY <2>2, <2>3 DEF Inv, Nowhere
  <2>5. \A d \in 0 .. curr : Waiting(frame[d]) \cap ran = {}
    BY <2>2 DEF Inv, WaitOnes
  <2> QED
    BY <2>4, <2>5 DEF EachOnce
<1> QED
  BY <1>1, Invariance, PTL

\* The arguments of the static defers of a frame never overlap in its pool,
\* whatever the handlers register (static_defer, errm.c:94-101).
THEOREM ArgumentsApart == Spec => []ArgsDisjoint
<1>1. Inv => ArgsDisjoint
  <2> SUFFICES ASSUME Inv, NEW d \in Depths
               PROVE  /\ \A i \in DOMAIN frame[d].stat :
                           /\ frame[d].stat[i].at + frame[d].stat[i].size <= PoolSize
                           /\ \A j \in DOMAIN frame[d].stat :
                                i # j => Apart(frame[d].stat[i], frame[d].stat[j])
                           /\ \A e \in frame[d].busy : Apart(frame[d].stat[i], e)
    BY DEF ArgsDisjoint
  <2> DEFINE f == frame[d]
             k == Len(f.stat)
  <2>1. f \in Frames /\ FrameOK(f)
    BY DEF Inv, TypeOK, FramesOK
  <2>2. DOMAIN f.stat = 1 .. k /\ k \in Nat /\ f.used \in Nat
    BY <2>1, FrameFields
  <2>3. \A i \in 1 .. k : f.stat[i].at \in Nat /\ f.stat[i].size \in Nat
    BY <2>1, Nums
  <2>4. /\ f.used <= PoolSize
        /\ \A i \in 1 .. k : /\ f.stat[i].at + f.stat[i].size <= f.used
                            /\ \A e \in f.busy : Apart(f.stat[i], e)
    BY <2>1 DEF FrameOK, Fits
  <2>5. \A i, j \in 1 .. k : i < j => f.stat[i].at + f.stat[i].size <= f.stat[j].at
    BY <2>1 DEF FrameOK, StaticOrdered
  <2> HIDE DEF f, k
  <2>6. \A i, j \in 1 .. k : i # j => Apart(f.stat[i], f.stat[j])
    <3> SUFFICES ASSUME NEW i \in 1 .. k, NEW j \in 1 .. k, i # j
                 PROVE  Apart(f.stat[i], f.stat[j])
      OBVIOUS
    <3>1. i < j \/ j < i
      BY <2>2
    <3> QED
      BY <2>5, <3>1 DEF Apart
  <2>7. \A i \in 1 .. k : f.stat[i].at + f.stat[i].size <= PoolSize
    BY <2>2, <2>3, <2>4, ErrmAssumption DEF ErrmAssumption
  <2> QED
    BY <2>2, <2>4, <2>6, <2>7 DEF f
<1> QED
  BY <1>1, Invariance, PTL

\* Defers run latest first, and dynamic ones after all static ones
\* (errm.c:125-145).
THEOREM RunLatestFirst == Spec => LatestFirst
<1> DEFINE Later(n, d) ==
      /\ n \in StaticNums(frame[d]) => \A m \in StaticNums(frame'[d]) : m < n
      /\ n \in DynNums(frame[d]) =>
           /\ StaticNums(frame[d]) = {}
           /\ \A m \in DynNums(frame'[d]) : m < n
           A == \A n \in ran' \ ran, d \in Depths : Later(n, d)
<1>1. Inv /\ [Next]_vars => [A]_vars
  <2> SUFFICES ASSUME Inv, [Next]_vars, NEW n \in ran' \ ran, NEW d \in Depths
               PROVE  Later(n, d)
    OBVIOUS
  <2>1. CASE \E e \in Depths : RunStatic(e)
    <3>1. PICK e \in Depths : RunStatic(e)
      BY <2>1
    <3>2. /\ n = Last(frame[e].stat).num /\ frame[e].stat # <<>>
          /\ frame'[e] = TakeStatic(frame[e])
      BY <3>1 DEF RunStatic, Inv, TypeOK
    <3>3. frame[e] \in Frames /\ FrameOK(frame[e])
      BY DEF Inv, TypeOK, FramesOK
    <3>4. /\ n \in StaticNums(frame[e]) /\ n \notin DynNums(frame[e])
          /\ \A m \in StaticNums(frame'[e]) : m < n
      BY <3>2, <3>3, TakeStaticOK
    <3>5. d # e => n \notin Waiting(frame[d])
      BY <3>4 DEF Inv, OneFrame, Waiting
    <3> QED
      BY <3>4, <3>5 DEF Waiting
  <2>2. CASE \E e \in Depths : RunDynamic(e)
    <3>1. PICK e \in Depths : RunDynamic(e)
      BY <2>2
    <3>2. /\ n = Last(frame[e].dyn) /\ frame[e].dyn # <<>>
          /\ frame'[e] = TakeDyn(frame[e]) /\ phase[e] = "dyn" /\ curr = e
      BY <3>1 DEF RunDynamic, Running, Inv, TypeOK
    <3>3. frame[e] \in Frames /\ FrameOK(frame[e])
      BY DEF Inv, TypeOK, FramesOK
    <3>4. /\ n \in DynNums(frame[e]) /\ n \notin StaticNums(frame[e])
          /\ \A m \in DynNums(frame'[e]) : m < n
      BY <3>2, <3>3, TakeDynOK
    <3>5. frame[e].stat = <<>>
      BY <3>2 DEF Inv, PhasesOK, PhaseOK, Depths
    <3>6. StaticNums(frame[e]) = {}
      BY <3>5 DEF StaticNums
    <3>7. d # e => n \notin Waiting(frame[d])
      BY <3>4 DEF Inv, OneFrame, Waiting
    <3> QED
      BY <3>4, <3>6, <3>7 DEF Waiting
  <2>3. CASE ~(\E e \in Depths : RunStatic(e)) /\ ~(\E e \in Depths : RunDynamic(e))
    <3>1. ran' = ran
      BY <2>3 DEF Next, Client, RunDefers, vars, Enter, Push, Abort, SetError, SetFromErrno, Says,
                  StaticDefer, Defer, Return, HandlerReturns, StaticDone, Pop
    <3> QED
      BY <3>1
  <2> QED
    BY <2>1, <2>2, <2>3
<1>2. [][A]_vars => LatestFirst
  BY PTL DEF LatestFirst
<1> QED
  BY <1>1, <1>2, Invariance, PTL DEF Spec
-----------------------------------------------------------------------------
(* The error code.                                                         *)

\* A step that says an error says it in the frame that it belongs to.
LEMMA OwnNext == TypeOK /\ ErrorIsOwn /\ [Next]_vars => ErrorIsOwn'
<1> SUFFICES ASSUME TypeOK, ErrorIsOwn, [Next]_vars PROVE ErrorIsOwn'
  OBVIOUS
<1>1. CASE Enter
  BY <1>1 DEF Enter, ErrorIsOwn
<1>2. ASSUME NEW e \in Errors \cup Errnos, SetError(e) \/ SetFromErrno(e) PROVE ErrorIsOwn'
  <2>1. said' = [d \in Depths |-> said[d] \/ d <= curr] /\ curr' = curr
    BY <1>2 DEF SetError, SetFromErrno, Says
  <2>2. 0 .. curr \subseteq Depths
    BY ErrmAssumption DEF TypeOK, Depths, ErrmAssumption
  <2>3. \A d \in 0 .. curr : said'[d] = (said[d] \/ d <= curr) /\ d <= curr
    BY <2>1, <2>2
  <2>4. \A d \in 0 .. curr : said'[d]
    BY <2>3, Zenon
  <2> QED
    BY <2>1, <2>4 DEF ErrorIsOwn
<1>3. ASSUME NEW d \in Depths, Pop(d) PROVE ErrorIsOwn'
  <2>1. UNCHANGED <<err, said>> /\ curr = d /\ curr' = d - 1
    BY <1>3 DEF Pop, Running
  <2>2. 0 .. curr' \subseteq 0 .. curr
    BY <2>1 DEF Depths
  <2> QED
    BY <2>1, <2>2 DEF ErrorIsOwn
<1>4. CASE UNCHANGED <<err, curr, said>>
  BY <1>4 DEF ErrorIsOwn
<1>5. ASSUME NEW d \in Depths, NEW s \in Sizes, StaticDefer(d, s) PROVE ErrorIsOwn'
  BY <1>4, <1>5 DEF StaticDefer, Abort
<1>6. ASSUME NEW d \in Depths, Defer(d) PROVE ErrorIsOwn'
  BY <1>4, <1>6 DEF Defer, Abort
<1>7. ASSUME NEW d \in Depths,
             Return(d) \/ HandlerReturns(d) \/ RunStatic(d) \/ StaticDone(d) \/ RunDynamic(d)
      PROVE  ErrorIsOwn'
  BY <1>4, <1>7 DEF Return, HandlerReturns, RunStatic, StaticDone, RunDynamic
<1> QED
  BY <1>1, <1>2, <1>3, <1>4, <1>5, <1>6, <1>7 DEF Next, Client, RunDefers, vars

\* A function never sees, nor reports to its caller, an error of an earlier
\* call (errm_clear in the wrapper, errm.h:87).
THEOREM ErrorsAreOwn == Spec => []ErrorIsOwn
<1>1. Init => ErrorIsOwn
  BY DEF Init, ErrorIsOwn
<1> QED
  BY <1>1, OwnNext, TypeCorrect, PTL DEF Spec
=============================================================================
