------------------------------- MODULE FdTable -------------------------------
(***************************************************************************)
(* The file descriptors of the HAL (HAL/src/alt_open.c, alt_close.c,       *)
(* alt_get_fd.c, alt_fd_lock.c, alt_ioctl.c, alt_fcntl.c,                  *)
(* alt_io_redirect.c): a fixed pool shared by the devices and the file     *)
(* systems, the redirection of the standard streams before main, and the   *)
(* locks TIOCEXCL puts on a device.                                        *)
(*                                                                         *)
(* The semaphores of the pool are empty macros on this HAL, there is one   *)
(* thread and no interrupt routine uses the pool: a call is one step.      *)
(*                                                                         *)
(*   MaxFd        ALT_MAX_FD, 32                                           *)
(*   Devices      the names on alt_dev_list; DevNull is one of them        *)
(*   FileSystems  the names on alt_fs_list, none on this board             *)
(*   Unknown      a name on neither                                        *)
(*   Refusing     those whose own open callback may fail                   *)
(*   StdName      ALT_STDIN, ALT_STDOUT and ALT_STDERR                     *)
(*   Flags        bound: what the program passes to open and fcntl         *)
(***************************************************************************)
EXTENDS Integers

CONSTANTS MaxFd, Devices, FileSystems, Unknown, DevNull, Refusing, StdName, Flags, None

Std   == 0 .. 2
Fds   == 0 .. MaxFd - 1
Names == Devices \cup FileSystems
Bits  == {"WRONLY", "RDWR", "APPEND", "NONBLOCK", "EXCL", "DEV"}

ASSUME PoolAssumption == MaxFd \in Nat /\ MaxFd > 3
ASSUME NameAssumption ==
  /\ DevNull \in Devices /\ None \notin Names /\ Unknown \notin Names
  /\ StdName \in [Std -> Devices \ Refusing]
ASSUME FlagAssumption == Flags \subseteq SUBSET Bits

VARIABLES
  alt_fd_list,  \* the pool: the device of each descriptor, or None, and its flags
  alt_max_fd,   \* the highest descriptor allocated so far, -1 before the first
  owned,        \* the descriptors open has returned to the program
  pc            \* the stream to be redirected next, then "main"

vars == <<alt_fd_list, alt_max_fd, owned, pc>>

dev(fd)   == alt_fd_list[fd].dev
flags(fd) == alt_fd_list[fd].flags

-----------------------------------------------------------------------------
Free == [dev |-> None, flags |-> {}]
Used == {fd \in Fds : dev(fd) # None}

\* ALT_FD_FLAGS_MASK and ALT_FCNTL_FLAGS_MASK.
FlagsMask == {"EXCL", "DEV"}
FcntlMask == {"APPEND", "NONBLOCK"}

\* alt_get_fd: the first free descriptor, and the new high-water mark.
FirstFree == CHOOSE fd \in Fds \ Used : \A other \in Fds \ Used : fd <= other

\* Faulty variant: the mark is the last descriptor allocated.
WaterIsLast(fd) == fd

Water(fd) == IF fd > alt_max_fd THEN fd ELSE alt_max_fd

\* Faulty variant: the loop ends before the mark.
LockedShort(d, fd, max) == \E i \in 0 .. max - 1 : i # fd /\ dev(i) = d /\ "EXCL" \in flags(i)

\* alt_file_locked: another descriptor has the device to itself.
Locked(d, fd, max) == \E i \in 0 .. max : i # fd /\ dev(i) = d /\ "EXCL" \in flags(i)

\* Faulty variant: standard error is handed back to the pool too.
ReleaseTwo(list, fd) == IF fd >= 2 THEN [list EXCEPT ![fd] = Free] ELSE list

\* alt_release_fd; the standard descriptors are reserved.
Release(list, fd) == IF fd > 2 THEN [list EXCEPT ![fd] = Free] ELSE list

\* What open leaves behind and returns.
Outcome(list, max, fd) == [list |-> list, max |-> max, fd |-> fd]
Entry(name, f) == [dev   |-> name,
                   flags |-> (f \ FlagsMask) \cup IF name \in Devices THEN {"DEV"} ELSE {}]

\* Faulty variant: the descriptor is not given back.
RefusedKept(list, max, fd) == Outcome(list, max, -1)

Refused(list, max, fd) == Outcome(Release(list, fd), max, -1)

\* open: a descriptor is taken, and given back if the device is locked or refuses.
OpenOutcomes(name, f) ==
  LET fd      == FirstFree
      taken   == Outcome([alt_fd_list EXCEPT ![fd] = Entry(name, f)], Water(fd), fd)
      locked  == name \in Devices /\ Locked(name, fd, Water(fd))
  IN  IF name \notin Names \/ Used = Fds
      THEN {Outcome(alt_fd_list, alt_max_fd, -1)}
      ELSE (IF locked THEN {} ELSE {taken})
           \cup (IF locked \/ name \in Refusing THEN {Refused(taken.list, taken.max, fd)}
               ELSE {})

-----------------------------------------------------------------------------
(* Before main.                                                            *)

Stream   == [stdout |-> 1, stdin |-> 0, stderr |-> 2]
Mode     == [stdout |-> {"WRONLY"}, stdin |-> {}, stderr |-> {"WRONLY"}]
NextStep == [stdout |-> "stdin", stdin |-> "stderr", stderr |-> "main"]

\* alt_open_fd, called for each stream by alt_io_redirect.
Redirect ==
  /\ pc # "main"
  /\ \E r \in OpenOutcomes(StdName[Stream[pc]], Mode[pc]) :
       /\ alt_fd_list' = IF r.fd < 0 THEN r.list
                         ELSE Release([r.list EXCEPT ![Stream[pc]] = r.list[r.fd]], r.fd)
       /\ alt_max_fd' = r.max
  /\ pc' = NextStep[pc]
  /\ UNCHANGED owned

-----------------------------------------------------------------------------
(* The calls of the program, on descriptors it holds.                      *)

Holds == Std \cup owned

Open(name, f) ==
  /\ \E r \in OpenOutcomes(name, f) :
       /\ alt_fd_list' = r.list /\ alt_max_fd' = r.max
       /\ owned' = IF r.fd < 0 THEN owned ELSE owned \cup {r.fd}

\* close: whatever the device's own close returns, the descriptor goes.
Close(fd) ==
  /\ alt_fd_list' = Release(alt_fd_list, fd)
  /\ owned' = owned \ {fd}
  /\ UNCHANGED alt_max_fd

\* alt_fd_lock: does any other descriptor refer to the device?  The loop stops short of
\* alt_max_fd.
Shared(fd) == \E i \in 0 .. alt_max_fd - 1 : i # fd /\ dev(i) = dev(fd)

\* Faulty variant: a lock is granted whoever else refers to the device.
LockAnyway(fd) ==
  /\ "DEV" \in flags(fd)
  /\ alt_fd_list' = [alt_fd_list EXCEPT ![fd].flags = @ \cup {"EXCL"}]
  /\ UNCHANGED <<alt_max_fd, owned>>

\* ioctl with TIOCEXCL and with TIOCNXCL; other descriptors go to the device's own ioctl.
Lock(fd) ==
  /\ "DEV" \in flags(fd) /\ ~Shared(fd)
  /\ alt_fd_list' = [alt_fd_list EXCEPT ![fd].flags = @ \cup {"EXCL"}]
  /\ UNCHANGED <<alt_max_fd, owned>>

Unlock(fd) ==
  /\ "DEV" \in flags(fd)
  /\ alt_fd_list' = [alt_fd_list EXCEPT ![fd].flags = @ \ {"EXCL"}]
  /\ UNCHANGED <<alt_max_fd, owned>>

\* Faulty variant: every flag is replaced.
SetFlagsAll(fd, f) ==
  /\ alt_fd_list' = [alt_fd_list EXCEPT ![fd].flags = f]
  /\ UNCHANGED <<alt_max_fd, owned>>

\* fcntl with F_SETFL.
SetFlags(fd, f) ==
  /\ alt_fd_list' = [alt_fd_list EXCEPT ![fd].flags = (@ \ FcntlMask) \cup (f \cap FcntlMask)]
  /\ UNCHANGED <<alt_max_fd, owned>>

\* What write and read ask before they call the device.
CanWrite(fd) == flags(fd) \cap {"WRONLY", "RDWR"} # {}
CanRead(fd)  == "WRONLY" \notin flags(fd)

Program ==
  /\ pc = "main" /\ UNCHANGED pc
  /\ \/ \E name \in Names \cup {Unknown}, f \in Flags : Open(name, f)
     \/ \E fd \in Holds : Close(fd) \/ Lock(fd) \/ Unlock(fd)
     \/ \E fd \in Holds, f \in Flags : SetFlags(fd, f)

-----------------------------------------------------------------------------
\* The table as it is linked, with every device registered by alt_sys_init.
Init ==
  /\ alt_fd_list = [fd \in Fds |-> IF fd \in Std THEN [dev |-> DevNull, flags |-> {}] ELSE Free]
  /\ alt_max_fd = -1 /\ owned = {} /\ pc = "stdout"

Next == Redirect \/ Program

Spec == Init /\ [][Next]_vars

-----------------------------------------------------------------------------
\* The types.
TypeOK ==
  /\ alt_fd_list \in [Fds -> [dev : Names \cup {None}, flags : SUBSET Bits]]
  /\ alt_max_fd \in -1 .. MaxFd - 1
  /\ owned \subseteq Fds \ Std
  /\ pc \in {"stdout", "stdin", "stderr", "main"}

\* The loops that end at the mark see every descriptor open has handed out, and it is set
\* before the first of them: alt_file_locked compares it as an unsigned number, of which
\* -1 is the largest.
HighWater ==
  /\ \A fd \in Used \ Std : fd <= alt_max_fd
  /\ \A fd \in Used : "DEV" \in flags(fd) => alt_max_fd > 2

\* Every descriptor in use is one the program can close: no failed open and no
\* redirection of a stream leaves one behind.
NoLeak == Used = Std \cup owned

\* Nothing takes the standard streams from main once they are redirected: not close,
\* which leaves the reserved descriptors as they are, and not the flags of fcntl.
StreamsWork ==
  pc = "main" => /\ \A s \in Std : dev(s) = StdName[s]
                 /\ CanRead(0) /\ CanWrite(1) /\ CanWrite(2)

\* At most one descriptor has the lock of a device, although alt_fd_lock does not look
\* for locks and misses a descriptor: its loop and that of alt_file_locked make up for
\* each other.
OneHolder ==
  \A a, b \in Used : dev(a) = dev(b) /\ "EXCL" \in flags(a) \cap flags(b) => a = b

\* While one descriptor keeps a device locked no other comes to refer to it.
LockKept ==
  [][\A a, b \in Fds : "EXCL" \in flags(a) /\ "EXCL" \in flags(a)' /\ dev(b)' = dev(a)
                       => dev(b) = dev(a)]_vars

\* As long as the program holds a descriptor it refers to the device it was opened for,
\* in the direction it was opened in.
DescriptorStable ==
  [][pc = "main" =>
       \A fd \in Holds \cap Holds' :
          dev(fd)' = dev(fd) /\ (flags(fd)' \cap {"WRONLY", "RDWR", "DEV"})
                                = (flags(fd) \cap {"WRONLY", "RDWR", "DEV"})]_vars

\* "If there are no other open file descriptors which reference the same device, then
\* alt_fd_lock() will grant the lock": who has it is alone on the device.
LockIsExclusive ==
  \A a, b \in Used : "EXCL" \in flags(a) /\ dev(b) = dev(a) => a = b

=============================================================================
