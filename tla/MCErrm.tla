------------------------------- MODULE MCErrm -------------------------------
(* Bounded instance of Errm.                                               *)
EXTENDS Errm

MCSizes  == {1, 2}
MCErrors == {8}
MCErrnos == {"ENFILE", "EMFILE"}
=============================================================================
