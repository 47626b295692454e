------------------------------ MODULE MCShell ------------------------------
(* Bounded instance of Shell.                                              *)
EXTENDS Shell

MCRows == {1, 3, 4}
=============================================================================
