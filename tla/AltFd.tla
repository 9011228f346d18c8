-------------------------------- MODULE AltFd --------------------------------
(***************************************************************************)
(* The file descriptors of the HAL: the pool alt_fd_list with its high     *)
(* water mark, the lists of registered devices and file systems, and the   *)
(* POSIX calls on them.  The system has one thread and no handler uses the *)
(* pool, so a call is one step; the callbacks of the drivers may fail.     *)
(*                                                                         *)
(* A name is the sequence of its path components.  A program uses negative *)
(* descriptors (the result of a failed open) and descriptors that are      *)
(* open; the code does not check for any others.                           *)
(***************************************************************************)
EXTENDS Integers, Sequences, FiniteSets

CONSTANTS
    ALT_MAX_FD,     \* size of the pool
    Device, FileSystem,
    DevNull,        \* the device that is registered before the program starts
    NoDev,          \* the null pointer
    Name,           \* the names a program opens
    NameOf,         \* the name of a device, the mount point of a file system
    Callbacks,      \* the functions each of them provides
    OpenArgs,       \* the access modes and flags a program passes to open
    SetflArgs       \* the flags it passes to fcntl

Dev == Device \cup FileSystem
Fds == 0..ALT_MAX_FD - 1
Mode == {"O_RDONLY", "O_WRONLY", "O_RDWR"}
Flag == {"O_NONBLOCK", "ALT_FD_DEV", "ALT_FD_EXCL"}

ASSUME FdAssumption ==
    /\ ALT_MAX_FD \in Nat /\ ALT_MAX_FD >= 3
    /\ DevNull \in Device
    /\ NoDev \notin Dev
    /\ Device \cap FileSystem = {}
    /\ OpenArgs \subseteq [mode : Mode, flags : SUBSET Flag]
    /\ SetflArgs \subseteq SUBSET Flag

VARIABLES
    alt_fd_list, alt_max_fd, alt_dev_list, alt_fs_list,
    redirects,      \* the standard descriptors the start-up code has yet to redirect
    result          \* the last call and whether it failed

vars == <<alt_fd_list, alt_max_fd, alt_dev_list, alt_fs_list, redirects, result>>

FreeFd == [dev |-> NoDev, mode |-> "O_RDONLY", flags |-> {}]

Init ==
    /\ alt_fd_list = [f \in Fds |-> IF f <= 2 THEN [FreeFd EXCEPT !.dev = DevNull] ELSE FreeFd]
    /\ alt_max_fd = -1
    /\ alt_dev_list = <<DevNull>>
    /\ alt_fs_list = <<>>
    /\ redirects = <<1, 0, 2>>
    /\ result = [call |-> "boot", failed |-> FALSE]

-----------------------------------------------------------------------------
First(S) == CHOOSE i \in S : \A j \in S : i <= j

FirstIn(list, Matches(_)) ==
    LET hits == {i \in DOMAIN list : Matches(list[i])}
    IN  IF hits = {} THEN NoDev ELSE list[First(hits)]

alt_find_dev(name) == LET Matches(d) == NameOf[d] = name IN FirstIn(alt_dev_list, Matches)

alt_find_file(name) ==
    LET Matches(s) == /\ Len(NameOf[s]) <= Len(name)
                      /\ SubSeq(name, 1, Len(NameOf[s])) = NameOf[s]
    IN  FirstIn(alt_fs_list, Matches)

\* A device by its exact name, else the file system that is mounted there.
Lookup(name) == IF alt_find_dev(name) # NoDev THEN alt_find_dev(name) ELSE alt_find_file(name)

alt_release_fd(table, f) == IF f > 2 THEN [table EXCEPT ![f] = FreeFd] ELSE table

\* Fault: the search ends before the mark.
alt_file_locked_early(table, max, f) ==
    \E i \in Fds : /\ i < max
                   /\ i # f
                   /\ table[i].dev = table[f].dev
                   /\ "ALT_FD_EXCL" \in table[i].flags

\* Another descriptor, up to the mark, has the device of f to itself.
alt_file_locked(table, max, f) ==
    \E i \in Fds : /\ i <= max
                   /\ i # f
                   /\ table[i].dev = table[f].dev
                   /\ "ALT_FD_EXCL" \in table[i].flags

\* Fault: a failed open keeps its descriptor.
OpenFailed_keeps(table, f, max) == [fd |-> -1, table |-> table, max |-> max]

\* A failed open gives its descriptor back; the mark stays where it is.
OpenFailed(table, f, max) == [fd |-> -1, table |-> alt_release_fd(table, f), max |-> max]

\* What open leaves behind: the table, the mark, and the descriptor or -1.
\* "accepts" is the answer of the driver's open callback.
Opened(name, mode, flags, accepts) ==
    LET dev   == Lookup(name)
        free  == {f \in Fds : alt_fd_list[f].dev = NoDev}
        f     == First(free)
        max   == IF f > alt_max_fd THEN f ELSE alt_max_fd
        own   == IF dev \in Device THEN {"ALT_FD_DEV"} ELSE {}
        taken == [alt_fd_list EXCEPT ![f] =
                     [dev |-> dev, mode |-> mode,
                      flags |-> (flags \ {"ALT_FD_DEV", "ALT_FD_EXCL"}) \cup own]]
    IN  IF dev = NoDev \/ free = {}
        THEN [fd |-> -1, table |-> alt_fd_list, max |-> alt_max_fd]
        ELSE IF \/ dev \in Device /\ alt_file_locked(taken, max, f)
                \/ "open" \in Callbacks[dev] /\ ~accepts
             THEN OpenFailed(taken, f, max)
             ELSE [fd |-> f, table |-> taken, max |-> max]

Done(call, failed) == result' = [call |-> call, failed |-> failed]

-----------------------------------------------------------------------------
\* Start-up: drivers and file systems register, then the standard descriptors
\* are redirected to the devices the build names; if that fails they stay.
alt_dev_reg(d) ==
    /\ Len(redirects) = 3
    /\ \A i \in DOMAIN alt_dev_list : alt_dev_list[i] # d
    /\ alt_dev_list' = <<d>> \o alt_dev_list
    /\ UNCHANGED <<alt_fd_list, alt_max_fd, alt_fs_list, redirects, result>>

alt_fs_reg(s) ==
    /\ Len(redirects) = 3
    /\ \A i \in DOMAIN alt_fs_list : alt_fs_list[i] # s
    /\ alt_fs_list' = <<s>> \o alt_fs_list
    /\ UNCHANGED <<alt_fd_list, alt_max_fd, alt_dev_list, redirects, result>>

alt_open_fd(std, name, mode, accepts) ==
    LET o == Opened(name, mode, {}, accepts)
    IN  /\ alt_fd_list' = IF o.fd = -1 THEN o.table
                          ELSE alt_release_fd([o.table EXCEPT ![std] = o.table[o.fd]], o.fd)
        /\ alt_max_fd' = o.max

alt_io_redirect ==
    /\ redirects # <<>>
    /\ \E name \in Name, accepts \in BOOLEAN :
          alt_open_fd(Head(redirects), name,
                      IF Head(redirects) = 0 THEN "O_RDONLY" ELSE "O_WRONLY", accepts)
    /\ redirects' = Tail(redirects)
    /\ UNCHANGED <<alt_dev_list, alt_fs_list, result>>

-----------------------------------------------------------------------------
Running == redirects = <<>>
Open(f) == alt_fd_list[f].dev # NoDev
Keep == UNCHANGED <<alt_dev_list, alt_fs_list, redirects>>

ALT_OPEN ==
    /\ Running
    /\ \E name \in Name, args \in OpenArgs, accepts \in BOOLEAN :
          LET o == Opened(name, args.mode, args.flags, accepts)
          IN  /\ alt_fd_list' = o.table
              /\ alt_max_fd' = o.max
              /\ Done("open", o.fd = -1)
    /\ Keep

\* stat is open, fstat and close in a row.
ALT_STAT ==
    /\ Running
    /\ \E name \in Name, accepts, answers \in BOOLEAN :
          LET o == Opened(name, "O_RDONLY", {}, accepts)
          IN  /\ alt_fd_list' = alt_release_fd(o.table, o.fd)
              /\ alt_max_fd' = o.max
              /\ Done("stat", o.fd = -1 \/ ("fstat" \in Callbacks[Lookup(name)] /\ ~answers))
    /\ Keep

\* The descriptor is released whatever the driver's close callback answers.
ALT_CLOSE(f) ==
    /\ alt_fd_list' = alt_release_fd(alt_fd_list, f)
    /\ \E closes \in BOOLEAN :
          Done("close", "close" \in Callbacks[alt_fd_list[f].dev] /\ ~closes)
    /\ UNCHANGED alt_max_fd /\ Keep

\* Fault: the search stops one earlier still.
alt_fd_lock_early(f) ==
    LET shared == \E i \in Fds : i < alt_max_fd - 1 /\ i # f /\ alt_fd_list[i].dev = alt_fd_list[f].dev
    IN  /\ alt_fd_list' = IF shared THEN alt_fd_list
                          ELSE [alt_fd_list EXCEPT ![f].flags = @ \cup {"ALT_FD_EXCL"}]
        /\ Done("use", shared)

\* The search for a descriptor on the same device ends before the mark.
alt_fd_lock(f) ==
    LET shared == \E i \in Fds : i < alt_max_fd /\ i # f /\ alt_fd_list[i].dev = alt_fd_list[f].dev
    IN  /\ alt_fd_list' = IF shared THEN alt_fd_list
                          ELSE [alt_fd_list EXCEPT ![f].flags = @ \cup {"ALT_FD_EXCL"}]
        /\ Done("use", shared)

alt_fd_unlock(f) ==
    /\ alt_fd_list' = [alt_fd_list EXCEPT ![f].flags = @ \ {"ALT_FD_EXCL"}]
    /\ Done("use", FALSE)

ALT_IOCTL(f) ==
    /\ \/ "ALT_FD_DEV" \in alt_fd_list[f].flags /\ (alt_fd_lock(f) \/ alt_fd_unlock(f))
       \/ /\ \E answers \in BOOLEAN :
                Done("use", "ioctl" \notin Callbacks[alt_fd_list[f].dev] \/ ~answers)
          /\ UNCHANGED alt_fd_list
    /\ UNCHANGED alt_max_fd /\ Keep

\* Fault: F_SETFL replaces all flags.
ALT_FCNTL_all(f) ==
    /\ \E flags \in SetflArgs : alt_fd_list' = [alt_fd_list EXCEPT ![f].flags = flags]
    /\ Done("use", FALSE)
    /\ UNCHANGED alt_max_fd /\ Keep

\* F_SETFL: of the flags modelled, only O_NONBLOCK may be changed.
ALT_FCNTL(f) ==
    /\ \E flags \in SetflArgs :
          alt_fd_list' = [alt_fd_list EXCEPT ![f].flags =
                             (@ \ {"O_NONBLOCK"}) \cup (flags \cap {"O_NONBLOCK"})]
    /\ Done("use", FALSE)
    /\ UNCHANGED alt_max_fd /\ Keep

\* A call that asks the driver, if the driver has the callback for it.
Asked(f, callback, allowed) ==
    \E serves \in BOOLEAN :
        Done("use", ~allowed \/ callback \notin Callbacks[alt_fd_list[f].dev] \/ ~serves)

ALT_READ(f)  == Asked(f, "read", alt_fd_list[f].mode # "O_WRONLY")
ALT_WRITE(f) == Asked(f, "write", alt_fd_list[f].mode # "O_RDONLY")
ALT_LSEEK(f) == Asked(f, "lseek", TRUE)

\* Without the callback the answer is "character device".
ALT_FSTAT(f) ==
    \E serves \in BOOLEAN :
        Done("use", "fstat" \in Callbacks[alt_fd_list[f].dev] /\ ~serves)

\* isatty does not look at what fstat answers.
ALT_ISATTY(f) == Done("use", FALSE)

ALT_ACCESS(f) ==
    /\ ALT_READ(f) \/ ALT_WRITE(f) \/ ALT_LSEEK(f) \/ ALT_FSTAT(f) \/ ALT_ISATTY(f)
    /\ UNCHANGED <<alt_fd_list, alt_max_fd>> /\ Keep

\* Every call on a negative descriptor answers EBADFD.
BadFd ==
    /\ Running
    /\ \E call \in {"close", "use"} : Done(call, TRUE)
    /\ UNCHANGED <<alt_fd_list, alt_max_fd>> /\ Keep

Next ==
    \/ \E d \in Device : alt_dev_reg(d)
    \/ \E s \in FileSystem : alt_fs_reg(s)
    \/ alt_io_redirect \/ ALT_OPEN \/ ALT_STAT \/ BadFd
    \/ \E f \in Fds : /\ Running
                      /\ Open(f)
                      /\ ALT_CLOSE(f) \/ ALT_IOCTL(f) \/ ALT_FCNTL(f) \/ ALT_ACCESS(f)

Spec == Init /\ [][Next]_vars

-----------------------------------------------------------------------------
Owner(f) == "ALT_FD_EXCL" \in alt_fd_list[f].flags
OpenOn(d) == {f \in Fds : alt_fd_list[f].dev = d}
SameDev(f, g) == f # g /\ alt_fd_list[f].dev = alt_fd_list[g].dev

\* The standard descriptors are always open, no open descriptor is above the
\* mark, and a free one holds nothing (alt_fd_list, alt_max_fd, alt_release_fd).
TypeOK ==
    /\ alt_fd_list \in [Fds -> [dev : Dev \cup {NoDev}, mode : Mode, flags : SUBSET Flag]]
    /\ alt_max_fd \in -1..ALT_MAX_FD - 1
    /\ \A f \in Fds : f <= 2 => Open(f)
    /\ \A f \in Fds : Open(f) => f <= 2 \/ f <= alt_max_fd
    /\ \A f \in Fds : ~Open(f) => alt_fd_list[f] = FreeFd

\* No two descriptors own the same device, although the search of alt_fd_lock
\* misses the highest descriptor ever used: a lock that overlooked a
\* descriptor is itself found when that one asks (alt_fd_lock, alt_file_locked).
OneOwner == \A f, g \in Fds : Owner(f) /\ Owner(g) => ~SameDev(f, g)

\* As long as a descriptor owns its device, no other one is opened on it
\* (alt_file_locked in ALT_OPEN, and the failed open undone).
NoOpenWhileLocked ==
    [][\A d \in Dev :
          (\E f \in OpenOn(d) : f \in OpenOn(d)' /\ Owner(f) /\ Owner(f)')
          => OpenOn(d)' \subseteq OpenOn(d)]_vars

\* A call that fails, and stat in any case, leaves every descriptor as it
\* was, close excepted, whose descriptor is gone even when it fails.
FailureUndone ==
    [][/\ (result'.failed \/ result'.call = "stat") /\ result'.call # "close"
       => alt_fd_list' = alt_fd_list]_vars

\* alt_fd_lock grants its lock while another descriptor is open on the device
\* only if that one is the highest ever used (the search ends before it).
LockOverlooksHighest ==
    [][\A f, g \in Fds : ~Owner(f) /\ Owner(f)' /\ SameDev(f, g) => g = alt_max_fd]_vars
=============================================================================
