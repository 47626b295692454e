------------------------------ MODULE MCTracer ------------------------------
(* Instances of Tracer: numbers and sets a configuration file cannot write. *)
EXTENDS Tracer

CONSTANTS a, b, none

MCOne      == {1}
MCTwo      == {1, 2}
MCRoot     == 1
MCPaths    == {a, b}
MCOnePath  == {a}
MCNoPath   == none
MCDeny     == {a}
MCModes    == {O_RDONLY, O_RDWR}
MCAllModes == 0..3
MCReadWrite == {O_RDWR}
MCReadOnly == {O_RDONLY}
MCOther    == {39}                            \* getpid
MCSignals  == {2, SIGTRAP, SIGCONT, SIGTSTP}  \* 2 is SIGINT
MCTtySignals == {2, SIGTSTP}                  \* Ctrl-C and Ctrl-Z
MCNone     == {}
MCFileCbs  == {"file_read", "file_write"}
MCCbs      == Callbacks
MCFaults     == {"eintr", "getregs", "setregs", "malloc"}
MCEintr      == {"eintr"}
MCRare       == {"eintr", "setregs"}
MCPairFaults == {"getregs", "setregs", "malloc"}
=============================================================================
