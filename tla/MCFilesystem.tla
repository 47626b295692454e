---------------------------- MODULE MCFilesystem ----------------------------
(* Bounded instance of Filesystem, with the limits of errm.h.              *)
EXTENDS Filesystem

MCSizes  == {24}
MCErrors == {2, 6}
MCErrnos == {"EACCES", "ENFILE", "EMFILE"}
=============================================================================
