----------------------------- MODULE MCModules -----------------------------
(* Bounded instances of Modules.                                           *)
EXTENDS Modules, TLC

CONSTANTS p1, p2, n1, n2, dot, f1, f2

MCProcs  == {p1, p2}
MCNames  == {n1, n2, dot}
MCHidden == {dot}
MCFiles  == {f1, f2}
MCSymmetry == Permutations(MCProcs) \cup Permutations(MCFiles) \cup Permutations({n1, n2})
=============================================================================
