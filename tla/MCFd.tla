-------------------------------- MODULE MCFd --------------------------------
(* Small pools of descriptors for TLC.                                     *)
EXTENDS FdTable

CONSTANTS null, jtag, fs

\* All three standard streams are the JTAG UART, as in system.h.
AllJtag == [s \in Std |-> jtag]

\* Reading, writing with a bit the caller must not set, and both with O_NONBLOCK.
SomeFlags == {{}, {"WRONLY", "EXCL"}, {"RDWR", "NONBLOCK"}}
=============================================================================
