---------------------------- MODULE OpenMonitor ----------------------------
(***************************************************************************)
(* What libtracer promises about one traced program: every call is decided *)
(* once, when it is made and before it runs; a refused call never runs and *)
(* returns -EPERM; a granted one runs once and its result reaches the      *)
(* program as the kernel left it (libtracer/tracer.h:43-47 and             *)
(* libtracer/README.md:76-82).                                             *)
(***************************************************************************)
EXTENDS Integers

CONSTANTS
  Calls,
  NoCall,
  RefusedCalls  \* the calls that a callback refuses

EPERM   == 1
Pending == -38   \* the program reads -ENOSYS while its call is undecided

VARIABLES phase, call, res

vars == <<phase, call, res>>

Init == phase = "run" /\ call = NoCall /\ res = 0

Issue(c) ==
  /\ phase = "run" /\ phase' = "issued"
  /\ call' = c
  /\ res' = Pending

Grant ==
  /\ phase = "issued" /\ phase' = "granted"
  /\ call \notin RefusedCalls
  /\ UNCHANGED <<call, res>>

Refuse ==
  /\ phase = "issued" /\ phase' = "refused"
  /\ call \in RefusedCalls
  /\ res' = -EPERM
  /\ UNCHANGED call

Perform ==
  /\ phase = "granted" /\ phase' = "performed"
  /\ res' \in Int \ {Pending}
  /\ UNCHANGED call

Return ==
  /\ phase \in {"refused", "performed"} /\ phase' = "run"
  /\ UNCHANGED <<call, res>>

Die ==
  /\ phase # "dead" /\ phase' = "dead"
  /\ res' = 0
  /\ UNCHANGED call

Next ==
  (\E c \in Calls : Issue(c)) \/ Grant \/ Refuse \/ Perform \/ Return \/ Die

Spec == Init /\ [][Next]_vars
=============================================================================
