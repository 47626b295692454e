------------------------------ MODULE MCInput ------------------------------
(* Bounded instance of Input.                                              *)
EXTENDS Input

MCKinds == {"a", "esc", "[", "A"}
=============================================================================
