------------------------------ MODULE FdProofs ------------------------------
(***************************************************************************)
(* The table of file descriptors for every number of them, every set of    *)
(* devices and every sequence of calls.                                    *)
(*                                                                         *)
(* The lock is the difficult part.  alt_fd_lock overlooks the highest      *)
(* descriptor, so a device can be locked while a second descriptor refers  *)
(* to it; but that one is above the lock (LockBelow), now and later, since *)
(* open, which does not overlook any, refuses the device from then on.     *)
(* Hence no second lock: its holder would be above the first, within the   *)
(* loop of alt_fd_lock, which would have found the first.                  *)
(***************************************************************************)
EXTENDS FdTable, WellFoundedInduction, TLAPS

USE PoolAssumption, NameAssumption, FlagAssumption

\* Descriptors that are free are clean, and only devices are ever locked.
FreeClean == \A fd \in Fds : dev(fd) = None => alt_fd_list[fd] = Free
LockIsDev == \A fd \in Fds : /\ "EXCL" \in flags(fd) => "DEV" \in flags(fd)
                             /\ "DEV" \in flags(fd) => fd \in Used /\ dev(fd) \in Devices

\* Another descriptor of a locked device is above the lock.
LockBelow == \A a, b \in Fds : "EXCL" \in flags(b) /\ a # b /\ dev(a) = dev(b) => b < a

\* A stream that has been redirected works.
Works(s) == /\ dev(s) = StdName[s]
            /\ IF s = 0 THEN CanRead(s) ELSE CanWrite(s)
Boot == /\ pc # "main" => owned = {} /\ \A fd \in Fds : "EXCL" \notin flags(fd)
        /\ pc # "stdout" => Works(1)
        /\ pc \in {"stderr", "main"} => Works(0)
        /\ pc = "main" => Works(2)

Table == /\ TypeOK /\ HighWater /\ NoLeak
         /\ FreeClean /\ LockIsDev /\ LockBelow /\ Boot

-----------------------------------------------------------------------------
LEMMA TableInit == Init => Table
<1> SUFFICES ASSUME Init PROVE Table
  OBVIOUS
<1>1. /\ \A fd \in Fds : alt_fd_list[fd] = IF fd \in Std THEN [dev |-> DevNull, flags |-> {}]
                                           ELSE Free
      /\ alt_max_fd = -1 /\ owned = {} /\ pc = "stdout" /\ Std \subseteq Fds
  BY DEF Init, Fds, Std
<1>2. TypeOK
  BY <1>1 DEF Init, TypeOK, Free, Names, Fds
<1>3. \A fd \in Fds : flags(fd) = {} /\ (dev(fd) # None <=> fd \in Std)
  BY <1>1 DEF flags, dev, Free, Names
<1>4. HighWater /\ NoLeak /\ FreeClean /\ LockIsDev /\ LockBelow /\ Boot
  BY <1>1, <1>3 DEF HighWater, NoLeak, FreeClean, LockIsDev, LockBelow, Boot, Used, dev
<1> QED  BY <1>2, <1>4 DEF Table

-----------------------------------------------------------------------------
(* open.                                                                   *)

\* If there is a free descriptor then there is a first.
LEMMA FirstFreeIs == ASSUME Used # Fds PROVE FirstFree \in Fds \ Used
<1> DEFINE F == Fds \ Used
<1>1. F \subseteq Nat /\ F # {}
  BY DEF Used, Fds
<1>2. PICK m \in F : \A k \in F : ~(<<k, m>> \in OpToRel(<, Nat))
  <2> HIDE DEF F
  <2> QED  BY <1>1, NatLessThanWellFounded, WFMin
<1>3. \A k \in F : m <= k
  <2> HIDE DEF F
  <2>1. SUFFICES ASSUME NEW k \in F PROVE m <= k
    OBVIOUS
  <2>2. k \in Nat /\ m \in Nat
    BY <1>1, <1>2
  <2>3. ~(k < m)
    BY <1>2, <2>2 DEF OpToRel
  <2> QED  BY <2>2, <2>3
<1> QED  BY <1>2, <1>3 DEF FirstFree

\* It fails without a trace but for the mark, or it fills in a free descriptor above the
\* standard ones, for a device that is not locked.
LEMMA OpenIs ==
  ASSUME Table, NEW name, NEW f \in SUBSET Bits, NEW r \in OpenOutcomes(name, f)
  PROVE  /\ r.max \in -1 .. MaxFd - 1 /\ alt_max_fd <= r.max
         /\ \/ r.fd = -1 /\ r.list = alt_fd_list
            \/ /\ r.fd \in Fds \ Used /\ r.fd \notin Std /\ r.fd <= r.max /\ name \in Names
               /\ r.list = [alt_fd_list EXCEPT ![r.fd] = Entry(name, f)]
               /\ name \in Devices =>
                    \A b \in Fds : "EXCL" \in flags(b) => dev(b) # name
<1> USE DEF Table
<1> DEFINE fd    == FirstFree
           taken == Outcome([alt_fd_list EXCEPT ![fd] = Entry(name, f)], Water(fd), fd)
           locked == name \in Devices /\ Locked(name, fd, Water(fd))
<1>1. CASE name \notin Names \/ Used = Fds
  <2>1. r = Outcome(alt_fd_list, alt_max_fd, -1)
    BY <1>1 DEF OpenOutcomes
  <2>2. alt_max_fd \in -1 .. MaxFd - 1
    BY DEF TypeOK
  <2> QED  BY <2>1, <2>2 DEF Outcome
<1>2. CASE ~(name \notin Names \/ Used = Fds)
  <2>1. \/ ~locked /\ r = taken
        \/ r = Refused(taken.list, taken.max, fd)
    BY <1>2 DEF OpenOutcomes
  <2>2. fd \in Fds \ Used /\ name \in Names
    BY <1>2, FirstFreeIs
  <2>3. fd \notin Std /\ fd > 2 /\ fd \in 0 .. MaxFd - 1
    BY <2>2 DEF NoLeak, Std, Fds
  <2>4. alt_max_fd \in -1 .. MaxFd - 1
    BY DEF TypeOK
  <2>5. /\ taken.fd = fd /\ taken.max = Water(fd)
        /\ taken.list = [alt_fd_list EXCEPT ![fd] = Entry(name, f)]
    BY DEF Outcome
  <2>6. Water(fd) \in -1 .. MaxFd - 1 /\ alt_max_fd <= Water(fd) /\ fd <= Water(fd)
    BY <2>3, <2>4 DEF Water
  <2>7. CASE r = Refused(taken.list, taken.max, fd)
    <3>1. alt_fd_list[fd] = Free
      BY <2>2 DEF FreeClean, Used
    <3>2. [[alt_fd_list EXCEPT ![fd] = Entry(name, f)] EXCEPT ![fd] = Free] = alt_fd_list
      <4>1. alt_fd_list \in [Fds -> [dev : Names \cup {None}, flags : SUBSET Bits]]
        BY DEF TypeOK
      <4> HIDE DEF fd
      <4> QED  BY <2>2, <3>1, <4>1
    <3>3. r.list = alt_fd_list /\ r.max = Water(fd) /\ r.fd = -1
      BY <2>3, <2>5, <2>7, <3>2 DEF Refused, Release, Outcome
    <3> QED  BY <2>6, <3>3
  <2>8. CASE ~locked /\ r = taken
    <3>1. ASSUME name \in Devices, NEW b \in Fds, "EXCL" \in flags(b)
          PROVE  dev(b) # name
      <4>1. b \in Used /\ "DEV" \in flags(b)
        BY <3>1 DEF LockIsDev
      <4>2. b <= alt_max_fd
        BY <2>4, <4>1 DEF HighWater, Std, Fds
      <4>3. b \in 0 .. Water(fd) /\ b # fd
        BY <2>2, <2>4, <2>6, <4>1, <4>2 DEF Fds
      <4>4. ~Locked(name, fd, Water(fd))
        BY <2>8, <3>1
      <4> HIDE DEF fd
      <4> QED  BY <3>1, <4>3, <4>4 DEF Locked
    <3> QED  BY <2>2, <2>3, <2>5, <2>6, <2>8, <3>1
  <2> QED  BY <2>1, <2>7, <2>8
<1> QED  BY <1>1, <1>2

\* What a new descriptor holds.
LEMMA EntryIs ==
  ASSUME NEW name \in Names, NEW f \in SUBSET Bits
  PROVE  /\ Entry(name, f) \in [dev : Names \cup {None}, flags : SUBSET Bits]
         /\ Entry(name, f).dev = name /\ name # None
         /\ "EXCL" \notin Entry(name, f).flags
         /\ "DEV" \in Entry(name, f).flags => name \in Devices
         /\ Entry(name, f).flags \cap {"WRONLY", "RDWR"} = f \cap {"WRONLY", "RDWR"}
BY DEF Entry, FlagsMask, Bits, Names

LEMMA OpenTable ==
  ASSUME Table, pc = "main", UNCHANGED pc, NEW name \in Names \cup {Unknown}, NEW f \in Flags,
         Open(name, f)
  PROVE  Table'
<1> USE DEF Table
<1>1. PICK r \in OpenOutcomes(name, f) :
        /\ alt_fd_list' = r.list /\ alt_max_fd' = r.max
        /\ owned' = IF r.fd < 0 THEN owned ELSE owned \cup {r.fd}
  BY DEF Open
<1>2. f \in SUBSET Bits
  OBVIOUS
<1>3. /\ alt_max_fd' \in -1 .. MaxFd - 1 /\ alt_max_fd <= alt_max_fd'
      /\ alt_max_fd \in -1 .. MaxFd - 1
  BY <1>1, <1>2, OpenIs DEF TypeOK
<1>4. CASE r.fd = -1 /\ r.list = alt_fd_list
  <2>1. alt_fd_list' = alt_fd_list /\ owned' = owned
    BY <1>1, <1>4
  <2>2. TypeOK'
    BY <1>3, <2>1 DEF TypeOK
  <2>3. HighWater'
    BY <1>3, <2>1 DEF HighWater, Used, dev, flags, Std, Fds
  <2>4. (NoLeak /\ FreeClean /\ LockIsDev /\ LockBelow /\ Boot)'
    BY <2>1 DEF NoLeak, FreeClean, LockIsDev, LockBelow, Boot, Used, dev, flags, Works,
                CanRead, CanWrite
  <2> QED  BY <2>2, <2>3, <2>4
<1>5. CASE /\ r.fd \in Fds \ Used /\ r.fd \notin Std /\ r.fd <= r.max /\ name \in Names
           /\ r.list = [alt_fd_list EXCEPT ![r.fd] = Entry(name, f)]
           /\ name \in Devices => \A b \in Fds : "EXCL" \in flags(b) => dev(b) # name
  <2> DEFINE new == r.fd
  <2>1. /\ new \in Fds \ Used /\ new \notin Std /\ new \in 3 .. MaxFd - 1
        /\ new <= alt_max_fd' /\ owned' = owned \cup {new}
        /\ alt_fd_list' = [alt_fd_list EXCEPT ![new] = Entry(name, f)]
    BY <1>1, <1>5 DEF Fds, Std
  <2>2. alt_fd_list \in [Fds -> [dev : Names \cup {None}, flags : SUBSET Bits]]
    BY DEF TypeOK
  <2>3. /\ \A b \in Fds \ {new} : dev(b)' = dev(b) /\ flags(b)' = flags(b)
                                  /\ alt_fd_list'[b] = alt_fd_list[b]
        /\ dev(new)' = name /\ flags(new)' = Entry(name, f).flags
    <3> HIDE DEF new
    <3> QED  BY <1>2, <1>5, <2>1, <2>2, EntryIs DEF dev, flags
  <2>4. /\ name # None /\ "EXCL" \notin flags(new)'
        /\ Entry(name, f) \in [dev : Names \cup {None}, flags : SUBSET Bits]
    BY <1>2, <1>5, <2>3, EntryIs
  <2> HIDE DEF new
  <2>5. Used' = Used \cup {new}
    BY <2>1, <2>3, <2>4 DEF Used
  <2>6. TypeOK'
    <3>1. alt_fd_list' \in [Fds -> [dev : Names \cup {None}, flags : SUBSET Bits]]
      BY <2>1, <2>2, <2>4
    <3> QED  BY <1>3, <2>1, <3>1 DEF TypeOK
  <2>7. HighWater'
    <3>1. ASSUME NEW fd \in Used' \ Std PROVE fd <= alt_max_fd'
      BY <1>3, <2>1, <2>5 DEF HighWater, Used, Fds
    <3>2. ASSUME NEW fd \in Used', "DEV" \in flags(fd)' PROVE alt_max_fd' > 2
      BY <1>3, <2>1
    <3> QED  BY <3>1, <3>2 DEF HighWater
  <2>8. NoLeak'
    BY <2>1, <2>5 DEF NoLeak
  <2>9. FreeClean' /\ LockIsDev'
    <3>1. ASSUME NEW fd \in Fds, dev(fd)' = None PROVE alt_fd_list'[fd] = Free
      BY <2>3, <2>4, <3>1 DEF FreeClean
    <3>2. "DEV" \in flags(new)' => name \in Devices
      BY <1>2, <1>5, <2>3, EntryIs
    <3>3. ASSUME NEW fd \in Fds
          PROVE  /\ "EXCL" \in flags(fd)' => "DEV" \in flags(fd)'
                 /\ "DEV" \in flags(fd)' => fd \in Used' /\ dev(fd)' \in Devices
      BY <2>3, <2>4, <2>5, <3>2 DEF LockIsDev
    <3> QED  BY <3>1, <3>3 DEF FreeClean, LockIsDev
  <2>10. LockBelow'
    <3> SUFFICES ASSUME NEW a \in Fds, NEW b \in Fds, "EXCL" \in flags(b)', a # b,
                        dev(a)' = dev(b)'
                 PROVE  b < a
      BY DEF LockBelow
    <3>1. b # new /\ "EXCL" \in flags(b) /\ dev(b)' = dev(b)
      BY <2>3, <2>4
    <3>2. a # new
      <4>1. SUFFICES ASSUME a = new PROVE FALSE
        OBVIOUS
      <4>2. dev(b) = name
        BY <2>3, <3>1, <4>1
      <4>3. name \notin Devices
        BY <1>5, <3>1, <4>2
      <4>4. dev(b) \in Devices
        BY <3>1 DEF LockIsDev
      <4> QED  BY <4>2, <4>3, <4>4
    <3> QED  BY <2>3, <3>1, <3>2 DEF LockBelow
  <2>11. Boot'
    BY <2>1, <2>3 DEF Boot, Works, CanRead, CanWrite, Std, Fds
  <2> QED  BY <2>6, <2>7, <2>8, <2>9, <2>10, <2>11
<1> QED  BY <1>1, <1>2, <1>4, <1>5, OpenIs

-----------------------------------------------------------------------------
(* close, ioctl and fcntl.                                                 *)

LEMMA CloseTable ==
  ASSUME Table, pc = "main", UNCHANGED pc, NEW fd \in Holds, Close(fd) PROVE Table'
<1> USE DEF Table
<1>1. /\ alt_fd_list' = Release(alt_fd_list, fd) /\ owned' = owned \ {fd}
      /\ UNCHANGED alt_max_fd
  BY DEF Close
<1>2. fd \in Fds /\ owned \subseteq Fds \ Std
  BY DEF Holds, TypeOK, Fds, Std
<1>3. CASE fd \in Std
  <2>1. alt_fd_list' = alt_fd_list /\ owned' = owned
    BY <1>1, <1>2, <1>3 DEF Release, Std
  <2> QED  BY <1>1, <2>1 DEF TypeOK, HighWater, NoLeak, FreeClean, LockIsDev, LockBelow,
                         Boot, Used, dev, flags, Works, CanRead, CanWrite
<1>4. CASE fd \notin Std
  <2>1. alt_fd_list' = [alt_fd_list EXCEPT ![fd] = Free]
    BY <1>1, <1>2, <1>4 DEF Release, Fds, Std
  <2>2. alt_fd_list \in [Fds -> [dev : Names \cup {None}, flags : SUBSET Bits]]
    BY DEF TypeOK
  <2>3. /\ \A b \in Fds \ {fd} : dev(b)' = dev(b) /\ flags(b)' = flags(b)
                                 /\ alt_fd_list'[b] = alt_fd_list[b]
        /\ dev(fd)' = None /\ flags(fd)' = {} /\ alt_fd_list'[fd] = Free
    BY <1>2, <2>1, <2>2 DEF dev, flags, Free
  <2>4. Used' = Used \ {fd}
    BY <1>2, <2>3 DEF Used
  <2>5. TypeOK'
    <3>1. Free \in [dev : Names \cup {None}, flags : SUBSET Bits]
      BY DEF Free
    <3>2. alt_fd_list' \in [Fds -> [dev : Names \cup {None}, flags : SUBSET Bits]]
      BY <2>1, <2>2, <3>1
    <3> QED  BY <1>1, <3>2 DEF TypeOK
  <2>6. HighWater' /\ NoLeak'
    <3>1. \A b \in Used' : b \in Used /\ flags(b)' = flags(b)
      BY <2>3, <2>4 DEF Used
    <3>2. HighWater'
      BY <1>1, <3>1 DEF HighWater
    <3>3. NoLeak'
      BY <1>1, <1>4, <2>4 DEF NoLeak
    <3> QED  BY <3>2, <3>3
  <2>7. FreeClean' /\ LockIsDev'
    BY <2>3, <2>4 DEF FreeClean, LockIsDev
  <2>8. LockBelow'
    <3> SUFFICES ASSUME NEW a \in Fds, NEW b \in Fds, "EXCL" \in flags(b)', a # b,
                        dev(a)' = dev(b)'
                 PROVE  b < a
      BY DEF LockBelow
    <3>1. b # fd /\ "EXCL" \in flags(b)
      BY <2>3
    <3>2. dev(b)' = dev(b) /\ dev(b) # None
      BY <2>3, <3>1 DEF LockIsDev, Used
    <3>3. a # fd
      BY <2>3, <3>2
    <3> QED  BY <2>3, <3>1, <3>3 DEF LockBelow
  <2>9. Boot'
    <3>1. \A s \in Std : dev(s)' = dev(s) /\ flags(s)' = flags(s)
      BY <1>4, <2>3 DEF Std, Fds
    <3> QED  BY <1>1, <3>1 DEF Boot, Works, CanRead, CanWrite, Std
  <2> QED  BY <2>5, <2>6, <2>7, <2>8, <2>9
<1> QED  BY <1>3, <1>4

\* New flags for one descriptor.
LEMMA FlagsIs ==
  ASSUME TypeOK, NEW fd \in Fds, NEW g \in SUBSET Bits,
         alt_fd_list' = [alt_fd_list EXCEPT ![fd].flags = g]
  PROVE  /\ alt_fd_list' \in [Fds -> [dev : Names \cup {None}, flags : SUBSET Bits]]
         /\ \A b \in Fds : dev(b)' = dev(b) /\ flags(b)' = IF b = fd THEN g ELSE flags(b)
         /\ \A b \in Fds \ {fd} : alt_fd_list'[b] = alt_fd_list[b]
         /\ Used' = Used
<1>1. alt_fd_list \in [Fds -> [dev : Names \cup {None}, flags : SUBSET Bits]]
  BY DEF TypeOK
<1>2. /\ alt_fd_list' \in [Fds -> [dev : Names \cup {None}, flags : SUBSET Bits]]
      /\ \A b \in Fds : dev(b)' = dev(b) /\ flags(b)' = IF b = fd THEN g ELSE flags(b)
      /\ \A b \in Fds \ {fd} : alt_fd_list'[b] = alt_fd_list[b]
  BY <1>1 DEF dev, flags
<1> QED  BY <1>2 DEF Used

\* The lock is a new one only where alt_fd_lock found nobody below the mark.
LEMMA FlagsTable ==
  ASSUME Table, pc = "main", UNCHANGED <<pc, alt_max_fd, owned>>,
         NEW fd \in Holds, NEW g \in SUBSET Bits,
         alt_fd_list' = [alt_fd_list EXCEPT ![fd].flags = g],
         g \cap {"WRONLY", "RDWR", "DEV"} = flags(fd) \cap {"WRONLY", "RDWR", "DEV"},
         "EXCL" \in g => "EXCL" \in flags(fd) \/ ("DEV" \in flags(fd) /\ ~Shared(fd))
  PROVE  Table'
<1> USE DEF Table
<1>1. fd \in Fds /\ fd \in Used
  BY DEF Holds, NoLeak, TypeOK, Fds, Std
<1>2. /\ alt_fd_list' \in [Fds -> [dev : Names \cup {None}, flags : SUBSET Bits]]
      /\ \A b \in Fds : dev(b)' = dev(b) /\ flags(b)' = IF b = fd THEN g ELSE flags(b)
      /\ \A b \in Fds \ {fd} : alt_fd_list'[b] = alt_fd_list[b]
      /\ Used' = Used
  BY <1>1, FlagsIs
<1>3. \A b \in Fds : \A bit \in {"WRONLY", "RDWR", "DEV"} : bit \in flags(b)' <=> bit \in flags(b)
  BY <1>2
<1>4. TypeOK' /\ HighWater' /\ NoLeak'
  <2>1. HighWater'
    BY <1>2, <1>3 DEF HighWater, Used
  <2> QED  BY <1>2, <2>1 DEF TypeOK, NoLeak
<1>5. FreeClean'
  <2>1. dev(fd)' # None
    BY <1>1, <1>2 DEF Used
  <2> QED  BY <1>2, <2>1 DEF FreeClean
<1>6. LockIsDev'
  BY <1>2, <1>3 DEF LockIsDev
<1>7. LockBelow'
  <2> SUFFICES ASSUME NEW a \in Fds, NEW b \in Fds, "EXCL" \in flags(b)', a # b,
                      dev(a) = dev(b)
               PROVE  b < a
    BY <1>2 DEF LockBelow
  <2>1. CASE "EXCL" \in flags(b)
    BY <2>1 DEF LockBelow
  <2>2. CASE "EXCL" \notin flags(b)
    <3>1. b = fd /\ "DEV" \in flags(b) /\ ~Shared(b)
      BY <1>2, <2>2
    <3>2. a \notin 0 .. alt_max_fd - 1
      BY <3>1 DEF Shared
    <3>3. b \in Used /\ alt_max_fd \in -1 .. MaxFd - 1 /\ a \in 0 .. MaxFd - 1
          /\ b \in 0 .. MaxFd - 1
      BY <1>1, <3>1 DEF TypeOK, Fds
    <3>4. b <= alt_max_fd
      BY <3>1, <3>3 DEF HighWater, Std
    <3> QED  BY <3>2, <3>3, <3>4
  <2> QED  BY <2>1, <2>2
<1>8. Boot'
  <2>1. \A s \in Std : Works(s) => Works(s)'
    BY <1>2, <1>3 DEF Works, CanRead, CanWrite, Std, Fds
  <2> QED  BY <2>1 DEF Boot, Std
<1> QED  BY <1>4, <1>5, <1>6, <1>7, <1>8

LEMMA CallTable ==
  ASSUME Table, Program PROVE Table'
<1> USE DEF Table
<1>1. pc = "main" /\ UNCHANGED pc
  BY DEF Program
<1>2. ASSUME NEW name \in Names \cup {Unknown}, NEW f \in Flags, Open(name, f) PROVE Table'
  BY <1>1, <1>2, OpenTable
<1>3. ASSUME NEW fd \in Holds, Close(fd) PROVE Table'
  BY <1>1, <1>3, CloseTable
<1>4. ASSUME NEW fd \in Holds PROVE flags(fd) \in SUBSET Bits
  BY DEF Holds, TypeOK, Fds, Std, flags
<1>5. ASSUME NEW fd \in Holds, Lock(fd) PROVE Table'
  <2> DEFINE g == flags(fd) \cup {"EXCL"}
  <2>1. g \in SUBSET Bits
    BY <1>4 DEF Bits
  <2>2. alt_fd_list' = [alt_fd_list EXCEPT ![fd].flags = g] /\ UNCHANGED <<alt_max_fd, owned>>
        /\ "DEV" \in flags(fd) /\ ~Shared(fd)
    BY <1>5 DEF Lock, flags
  <2>3. g \cap {"WRONLY", "RDWR", "DEV"} = flags(fd) \cap {"WRONLY", "RDWR", "DEV"}
    OBVIOUS
  <2> HIDE DEF g
  <2> QED  BY <1>1, <2>1, <2>2, <2>3, FlagsTable
<1>6. ASSUME NEW fd \in Holds, Unlock(fd) PROVE Table'
  <2> DEFINE g == flags(fd) \ {"EXCL"}
  <2>1. g \in SUBSET Bits /\ "EXCL" \notin g
    BY <1>4
  <2>2. alt_fd_list' = [alt_fd_list EXCEPT ![fd].flags = g] /\ UNCHANGED <<alt_max_fd, owned>>
    BY <1>6 DEF Unlock, flags
  <2>3. g \cap {"WRONLY", "RDWR", "DEV"} = flags(fd) \cap {"WRONLY", "RDWR", "DEV"}
    OBVIOUS
  <2> HIDE DEF g
  <2> QED  BY <1>1, <2>1, <2>2, <2>3, FlagsTable
<1>7. ASSUME NEW fd \in Holds, NEW f \in Flags, SetFlags(fd, f) PROVE Table'
  <2> DEFINE g == (flags(fd) \ FcntlMask) \cup (f \cap FcntlMask)
  <2>1. g \in SUBSET Bits
    BY <1>4
  <2>2. alt_fd_list' = [alt_fd_list EXCEPT ![fd].flags = g] /\ UNCHANGED <<alt_max_fd, owned>>
    BY <1>7 DEF SetFlags, flags
  <2>3. g \cap {"WRONLY", "RDWR", "DEV"} = flags(fd) \cap {"WRONLY", "RDWR", "DEV"}
        /\ ("EXCL" \in g => "EXCL" \in flags(fd))
    BY DEF FcntlMask
  <2> HIDE DEF g
  <2> QED  BY <1>1, <2>1, <2>2, <2>3, FlagsTable
<1> QED  BY <1>2, <1>3, <1>5, <1>6, <1>7 DEF Program

-----------------------------------------------------------------------------
(* Before main.                                                            *)

\* Nothing is locked yet and there is a free descriptor, so the open cannot fail.
LEMMA BootOpenWorks ==
  ASSUME Table, pc # "main", NEW name \in Devices \ Refusing, NEW f \in SUBSET Bits,
         NEW r \in OpenOutcomes(name, f)
  PROVE  r.fd \in Fds
<1> USE DEF Table
<1>1. Used = Std /\ 3 \in Fds /\ 3 \notin Std
  BY DEF Boot, NoLeak, Fds, Std
<1>2. Used # Fds /\ name \in Names
  BY <1>1 DEF Names
<1> DEFINE fd == FirstFree
<1>3. fd \in Fds
  BY <1>2, FirstFreeIs
<1>4. ~Locked(name, fd, Water(fd))
  <2>1. SUFFICES ASSUME NEW i \in 0 .. Water(fd), "EXCL" \in flags(i) PROVE FALSE
    BY DEF Locked
  <2>2. Water(fd) \in -1 .. MaxFd - 1
    BY <1>3 DEF Water, TypeOK, Fds
  <2>3. i \in Fds
    BY <2>2 DEF Fds
  <2> QED  BY <2>1, <2>3 DEF Boot
<1>5. r = Outcome([alt_fd_list EXCEPT ![fd] = Entry(name, f)], Water(fd), fd)
  BY <1>2, <1>4 DEF OpenOutcomes
<1> QED  BY <1>3, <1>5 DEF Outcome

\* The stream takes over the descriptor, which is free again.
LEMMA RedirectIs ==
  ASSUME Table, Redirect
  PROVE  LET s == Stream[pc] IN
         /\ s \in Std /\ alt_max_fd' \in 3 .. MaxFd - 1 /\ alt_max_fd <= alt_max_fd'
         /\ alt_fd_list' = [alt_fd_list EXCEPT ![s] = Entry(StdName[s], Mode[pc])]
         /\ pc' = NextStep[pc] /\ UNCHANGED owned
         /\ pc \in {"stdout", "stdin", "stderr"} /\ Mode[pc] \in SUBSET Bits
<1> USE DEF Table
<1> DEFINE s == Stream[pc]
           E == Entry(StdName[s], Mode[pc])
<1>1. pc \in {"stdout", "stdin", "stderr"} /\ pc # "main"
  BY DEF Redirect, TypeOK
<1>2. s \in Std /\ Mode[pc] \in SUBSET Bits /\ s \in Fds
  BY <1>1 DEF Stream, Mode, Std, Bits, Fds
<1>3. StdName[s] \in Devices \ Refusing
  BY <1>2
<1>4. PICK r \in OpenOutcomes(StdName[s], Mode[pc]) :
        /\ alt_fd_list' = IF r.fd < 0 THEN r.list
                          ELSE Release([r.list EXCEPT ![s] = r.list[r.fd]], r.fd)
        /\ alt_max_fd' = r.max
  BY DEF Redirect
<1>5. r.fd \in Fds
  BY <1>1, <1>2, <1>3, <1>4, BootOpenWorks
<1>6. /\ r.max \in -1 .. MaxFd - 1 /\ alt_max_fd <= r.max
      /\ r.fd \in Fds \ Used /\ r.fd \notin Std /\ r.fd <= r.max
      /\ r.list = [alt_fd_list EXCEPT ![r.fd] = E]
  BY <1>2, <1>4, <1>5, OpenIs DEF Fds
<1> HIDE DEF s, E
<1>7. r.fd > 2 /\ r.max \in 3 .. MaxFd - 1 /\ ~(r.fd < 0)
  BY <1>6 DEF Fds, Std
<1>8. alt_fd_list' = [alt_fd_list EXCEPT ![s] = E]
  <2>1. alt_fd_list \in [Fds -> [dev : Names \cup {None}, flags : SUBSET Bits]]
    BY DEF TypeOK
  <2>2. alt_fd_list[r.fd] = Free /\ s # r.fd
    BY <1>2, <1>6 DEF FreeClean, Used
  <2>3. alt_fd_list' = [[r.list EXCEPT ![s] = r.list[r.fd]] EXCEPT ![r.fd] = Free]
    BY <1>4, <1>7 DEF Release
  <2>4. r.list[r.fd] = E
    BY <1>6, <2>1
  <2> QED  BY <1>2, <1>6, <2>1, <2>2, <2>3, <2>4
<1>9. pc' = NextStep[pc] /\ UNCHANGED owned
  BY DEF Redirect
<1> QED  BY <1>1, <1>2, <1>4, <1>6, <1>7, <1>8, <1>9 DEF s, E

LEMMA RedirectTable == ASSUME Table, Redirect PROVE Table'
<1> USE DEF Table
<1>0. PICK s, m, E : s = Stream[pc] /\ m = Mode[pc] /\ E = Entry(StdName[s], m)
  OBVIOUS
<1>1. /\ s \in Std /\ alt_max_fd' \in 3 .. MaxFd - 1 /\ alt_max_fd <= alt_max_fd'
      /\ alt_fd_list' = [alt_fd_list EXCEPT ![s] = E]
      /\ pc' = NextStep[pc] /\ UNCHANGED owned
      /\ pc \in {"stdout", "stdin", "stderr"} /\ m \in SUBSET Bits
  BY <1>0, RedirectIs
<1>2. StdName[s] \in Devices /\ StdName[s] \in Names
  BY <1>1 DEF Names
<1>3. /\ E \in [dev : Names \cup {None}, flags : SUBSET Bits]
      /\ E.dev = StdName[s] /\ E.dev # None /\ "EXCL" \notin E.flags
      /\ E.flags \cap {"WRONLY", "RDWR"} = m \cap {"WRONLY", "RDWR"}
  BY <1>0, <1>1, <1>2, EntryIs
<1>4. alt_fd_list \in [Fds -> [dev : Names \cup {None}, flags : SUBSET Bits]]
      /\ Std \subseteq Fds
  BY DEF TypeOK, Std, Fds
<1>5. /\ \A b \in Fds \ {s} : dev(b)' = dev(b) /\ flags(b)' = flags(b)
                              /\ alt_fd_list'[b] = alt_fd_list[b]
      /\ dev(s)' = E.dev /\ flags(s)' = E.flags
  <2> QED  BY <1>1, <1>4 DEF dev, flags
<1>6. s \in Used /\ Used' = Used
  <2>1. s \in Used
    BY <1>1 DEF NoLeak
  <2> QED  BY <1>3, <1>5, <2>1 DEF Used
<1>7. pc' \in {"stdin", "stderr", "main"} /\ owned' = {} /\ alt_max_fd' > 2
  BY <1>1 DEF NextStep, Boot
<1>8. TypeOK'
  <2>1. alt_fd_list' \in [Fds -> [dev : Names \cup {None}, flags : SUBSET Bits]]
    <3> QED  BY <1>1, <1>3, <1>4
  <2>2. alt_max_fd' \in -1 .. MaxFd - 1
    BY <1>1
  <2> QED  BY <1>7, <2>1, <2>2 DEF TypeOK
<1>9. HighWater' /\ NoLeak'
  <2>1. Used' = Std /\ owned = {}
    BY <1>1, <1>6 DEF NoLeak, Boot
  <2> QED  BY <1>7, <2>1 DEF HighWater, NoLeak
<1>10. \A fd \in Fds : "EXCL" \notin flags(fd)'
  BY <1>1, <1>3, <1>5 DEF Boot
<1>11. FreeClean' /\ LockIsDev' /\ LockBelow'
  <2>1. FreeClean'
    BY <1>3, <1>5 DEF FreeClean
  <2>2. LockIsDev'
    <3>1. ASSUME NEW fd \in Fds, "DEV" \in flags(fd)'
          PROVE  fd \in Used' /\ dev(fd)' \in Devices
      BY <1>2, <1>3, <1>5, <1>6, <3>1 DEF LockIsDev
    <3> QED  BY <1>10, <3>1 DEF LockIsDev
  <2> QED  BY <1>10, <2>1, <2>2 DEF LockBelow
<1>12. Boot'
  <2>1. Works(s)'
    <3>1. IF s = 0 THEN m = {} ELSE m = {"WRONLY"}
      BY <1>0, <1>1 DEF Stream, Mode
    <3>2. IF s = 0 THEN "WRONLY" \notin E.flags ELSE "WRONLY" \in E.flags
      BY <1>3, <3>1
    <3> QED  BY <1>3, <1>5, <3>2 DEF Works, CanRead, CanWrite
  <2>2. ASSUME NEW t \in Std, t # s, Works(t) PROVE Works(t)'
    BY <1>4, <1>5, <2>2 DEF Works, CanRead, CanWrite
  <2>3. CASE pc = "stdout"
    BY <1>0, <1>1, <1>7, <1>10, <2>1, <2>3 DEF Boot, Stream, NextStep
  <2>4. CASE pc = "stdin"
    BY <1>0, <1>1, <1>7, <1>10, <2>1, <2>2, <2>4 DEF Boot, Stream, NextStep, Std
  <2>5. CASE pc = "stderr"
    BY <1>0, <1>1, <1>7, <1>10, <2>1, <2>2, <2>5 DEF Boot, Stream, NextStep, Std
  <2> QED  BY <1>1, <2>3, <2>4, <2>5
<1> QED  BY <1>8, <1>9, <1>11, <1>12

-----------------------------------------------------------------------------
LEMMA TableStep == ASSUME Table, [Next]_vars PROVE Table'
<1>1. CASE Redirect
  BY <1>1, RedirectTable
<1>2. CASE Program
  BY <1>2, CallTable
<1>3. CASE UNCHANGED vars
  BY <1>3 DEF vars, Table, TypeOK, HighWater, NoLeak, FreeClean, LockIsDev, LockBelow, Boot,
              Used, dev, flags, Works, CanRead, CanWrite
<1> QED  BY <1>1, <1>2, <1>3 DEF Next

LEMMA TableAlways == Spec => []Table
<1>1. Table /\ [Next]_vars => Table'
  BY TableStep
<1> QED  BY <1>1, TableInit, PTL DEF Spec

\* The table stays a table: alt_get_fd, alt_release_fd and the redirection never write
\* outside it, and open never returns a standard descriptor.
THEOREM TypeCorrect == Spec => []TypeOK
<1>1. Table => TypeOK
  BY DEF Table
<1> QED  BY <1>1, TableAlways, PTL

\* The loops of alt_file_locked and alt_fd_lock, which end at alt_max_fd, have seen all
\* there is to see (alt_fd_lock all but one).
THEOREM MarkIsHigh == Spec => []HighWater
<1>1. Table => HighWater
  BY DEF Table
<1> QED  BY <1>1, TableAlways, PTL

\* No open that fails keeps a descriptor.
THEOREM NothingLeaks == Spec => []NoLeak
<1>1. Table => NoLeak
  BY DEF Table
<1> QED  BY <1>1, TableAlways, PTL

\* printf and getc of main.c reach the devices of system.h whatever else is done.
THEOREM StreamsAlwaysWork == Spec => []StreamsWork
<1>1. Table => StreamsWork
  <2> SUFFICES ASSUME Table, pc = "main" PROVE StreamsWork
    BY DEF StreamsWork
  <2>1. Works(0) /\ Works(1) /\ Works(2)
    BY DEF Table, Boot
  <2> QED  BY <2>1 DEF StreamsWork, Works, Std
<1> QED  BY <1>1, TableAlways, PTL

\* Two calls of alt_fd_lock never both succeed for one device.
THEOREM OneLockPerDevice == Spec => []OneHolder
<1>1. Table => OneHolder
  <2> SUFFICES ASSUME Table, NEW a \in Used, NEW b \in Used, dev(a) = dev(b),
                      "EXCL" \in flags(a), "EXCL" \in flags(b), a # b
               PROVE  FALSE
    BY DEF OneHolder
  <2>1. a \in Fds /\ b \in Fds
    BY DEF Used
  <2>2. b < a /\ a < b
    BY <2>1 DEF Table, LockBelow
  <2> QED  BY <2>1, <2>2 DEF Fds
<1> QED  BY <1>1, TableAlways, PTL

-----------------------------------------------------------------------------
(* What a step may not do.                                                 *)

\* A step of the program leaves every descriptor what it is, or takes a free one into
\* use for a device nobody has locked, or frees one that the program gives up.
LEMMA ProgramIs ==
  ASSUME Table, Program, NEW fd \in Fds
  PROVE  \/ dev(fd)' = dev(fd)
            /\ flags(fd)' \cap {"WRONLY", "RDWR", "DEV"} = flags(fd) \cap {"WRONLY", "RDWR", "DEV"}
         \/ /\ fd \notin Used /\ dev(fd)' \in Names
            /\ \A b \in Fds : "EXCL" \in flags(b) => dev(b) # dev(fd)'
         \/ dev(fd)' = None /\ fd \notin Holds'
<1> USE DEF Table
<1> DEFINE Goal ==
      \/ dev(fd)' = dev(fd)
         /\ flags(fd)' \cap {"WRONLY", "RDWR", "DEV"} = flags(fd) \cap {"WRONLY", "RDWR", "DEV"}
      \/ /\ fd \notin Used /\ dev(fd)' \in Names
         /\ \A b \in Fds : "EXCL" \in flags(b) => dev(b) # dev(fd)'
      \/ dev(fd)' = None /\ fd \notin Holds'
<1>0. alt_fd_list \in [Fds -> [dev : Names \cup {None}, flags : SUBSET Bits]]
  BY DEF TypeOK
<1>1. ASSUME NEW name \in Names \cup {Unknown}, NEW f \in Flags, Open(name, f) PROVE Goal
  <2>1. PICK r \in OpenOutcomes(name, f) : alt_fd_list' = r.list
    BY <1>1 DEF Open
  <2>2. f \in SUBSET Bits
    OBVIOUS
  <2>3. CASE r.fd = -1 /\ r.list = alt_fd_list
    BY <2>1, <2>3 DEF dev, flags
  <2>4. CASE /\ r.fd \in Fds \ Used /\ name \in Names
             /\ r.list = [alt_fd_list EXCEPT ![r.fd] = Entry(name, f)]
             /\ name \in Devices => \A b \in Fds : "EXCL" \in flags(b) => dev(b) # name
    <3>1. CASE fd # r.fd
      BY <1>0, <2>1, <2>4, <3>1 DEF dev, flags
    <3>2. CASE fd = r.fd
      <4>1. dev(fd)' = name
        BY <1>0, <2>1, <2>2, <2>4, <3>2, EntryIs DEF dev
      <4>2. ASSUME NEW b \in Fds, "EXCL" \in flags(b) PROVE dev(b) # name
        BY <2>4, <4>2 DEF LockIsDev
      <4> QED  BY <2>4, <3>2, <4>1, <4>2
    <3> QED  BY <3>1, <3>2
  <2> QED  BY <2>1, <2>2, <2>3, <2>4, OpenIs
<1>2. ASSUME NEW h \in Holds, Close(h) PROVE Goal
  <2>1. CASE h \in Std
    <3>1. alt_fd_list' = alt_fd_list
      BY <1>2, <2>1 DEF Close, Release, Std
    <3> QED  BY <3>1 DEF dev, flags
  <2>2. CASE h \notin Std
    <3>1. h > 2 /\ h \in Fds
      BY <2>2 DEF Holds, TypeOK, Fds, Std
    <3>2. alt_fd_list' = [alt_fd_list EXCEPT ![h] = Free] /\ owned' = owned \ {h}
      BY <1>2, <3>1 DEF Close, Release
    <3>3. CASE fd = h
      BY <1>0, <2>2, <3>1, <3>2, <3>3 DEF dev, Free, Holds
    <3>4. CASE fd # h
      BY <1>0, <3>2, <3>4 DEF dev, flags
    <3> QED  BY <3>3, <3>4
  <2> QED  BY <2>1, <2>2
<1>3. ASSUME NEW h \in Holds, Lock(h) \/ Unlock(h) \/ \E f \in Flags : SetFlags(h, f)
      PROVE  Goal
  <2>1. h \in Fds /\ flags(h) \in SUBSET Bits
    BY <1>0 DEF Holds, TypeOK, Fds, Std, flags
  <2>2. PICK g \in SUBSET Bits :
          /\ alt_fd_list' = [alt_fd_list EXCEPT ![h].flags = g]
          /\ g \cap {"WRONLY", "RDWR", "DEV"} = flags(h) \cap {"WRONLY", "RDWR", "DEV"}
    <3>1. CASE Lock(h)
      <4>1. /\ alt_fd_list' = [alt_fd_list EXCEPT ![h].flags = flags(h) \cup {"EXCL"}]
            /\ flags(h) \cup {"EXCL"} \in SUBSET Bits
        BY <2>1, <3>1 DEF Lock, flags, Bits
      <4> QED  BY <4>1
    <3>2. CASE Unlock(h)
      <4>1. /\ alt_fd_list' = [alt_fd_list EXCEPT ![h].flags = flags(h) \ {"EXCL"}]
            /\ flags(h) \ {"EXCL"} \in SUBSET Bits
        BY <2>1, <3>2 DEF Unlock, flags
      <4> QED  BY <4>1
    <3>3. ASSUME NEW f \in Flags, SetFlags(h, f)
          PROVE  \E g \in SUBSET Bits :
                   /\ alt_fd_list' = [alt_fd_list EXCEPT ![h].flags = g]
                   /\ g \cap {"WRONLY", "RDWR", "DEV"} = flags(h) \cap {"WRONLY", "RDWR", "DEV"}
      <4> DEFINE g == (flags(h) \ FcntlMask) \cup (f \cap FcntlMask)
      <4>1. alt_fd_list' = [alt_fd_list EXCEPT ![h].flags = g] /\ g \in SUBSET Bits
        BY <2>1, <3>3 DEF SetFlags, flags
      <4>2. g \cap {"WRONLY", "RDWR", "DEV"} = flags(h) \cap {"WRONLY", "RDWR", "DEV"}
        BY DEF FcntlMask
      <4> HIDE DEF g
      <4> QED  BY <4>1, <4>2
    <3> QED  BY <1>3, <3>1, <3>2, <3>3
  <2>3. dev(fd)' = dev(fd) /\ flags(fd)' = IF fd = h THEN g ELSE flags(fd)
    BY <2>1, <2>2, FlagsIs
  <2> QED  BY <2>2, <2>3
<1> QED  BY <1>1, <1>2, <1>3 DEF Program

\* What alt_file_locked promises to who holds a lock.
THEOREM LockIsKept == Spec => LockKept
<1>1. Table /\ [Next]_vars =>
        \A a, b \in Fds : "EXCL" \in flags(a) /\ "EXCL" \in flags(a)' /\ dev(b)' = dev(a)
                          => dev(b) = dev(a)
  <2> SUFFICES ASSUME Table, [Next]_vars, NEW a \in Fds, NEW b \in Fds,
                      "EXCL" \in flags(a), dev(b)' = dev(a)
               PROVE  dev(b) = dev(a)
    OBVIOUS
  <2>1. dev(a) # None
    BY DEF Table, LockIsDev, Used
  <2>2. CASE Redirect
    <3>1. pc # "main"
      BY <2>2 DEF Redirect
    <3> QED  BY <3>1 DEF Table, Boot
  <2>3. CASE Program
    BY <2>1, <2>3, ProgramIs
  <2>4. CASE UNCHANGED vars
    BY <2>4 DEF vars, dev
  <2> QED  BY <2>2, <2>3, <2>4 DEF Next
<1> QED  BY <1>1, TableAlways, PTL DEF Spec, LockKept

\* What the program may rely on between open and close.
THEOREM DescriptorsAreStable == Spec => DescriptorStable
<1> DEFINE Stable ==
      pc = "main" =>
        \A fd \in Holds \cap Holds' :
          dev(fd)' = dev(fd) /\ (flags(fd)' \cap {"WRONLY", "RDWR", "DEV"})
                                = (flags(fd) \cap {"WRONLY", "RDWR", "DEV"})
<1>1. Table /\ [Next]_vars => Stable
  <2> SUFFICES ASSUME Table, [Next]_vars, pc = "main", NEW fd \in Holds \cap Holds'
               PROVE  dev(fd)' = dev(fd) /\ (flags(fd)' \cap {"WRONLY", "RDWR", "DEV"})
                                            = (flags(fd) \cap {"WRONLY", "RDWR", "DEV"})
    OBVIOUS
  <2>1. fd \in Fds /\ fd \in Used
    BY DEF Table, NoLeak, Holds, Used
  <2>2. CASE Redirect
    BY <2>2 DEF Redirect
  <2>3. CASE Program
    BY <2>1, <2>3, ProgramIs
  <2>4. CASE UNCHANGED vars
    BY <2>4 DEF vars, dev, flags
  <2> QED  BY <2>2, <2>3, <2>4 DEF Next
<1> QED  BY <1>1, TableAlways, PTL DEF Spec, DescriptorStable

=============================================================================
