----------------------------- MODULE FileHandle -----------------------------
(***************************************************************************)
(* The FILE handles of src/csrc/util.c.                                    *)
(*                                                                         *)
(* _pyccn_open_file_handle turns a Python file (or anything                *)
(* PyObject_AsFileDescriptor accepts) into a C stdio stream for OpenSSL's  *)
(* PEM writers: it dup()s the object's descriptor and fdopen()s the copy,  *)
(* so that fclose() in _pyccn_close_file_handle closes the copy and never  *)
(* the descriptor the Python object still owns.                            *)
(*                                                                         *)
(* The process descriptor table is a function from descriptor numbers to  *)
(* the open file description behind them; a description is named by the   *)
(* Python file that opened it.  dup() and open() take the lowest free      *)
(* number, as POSIX requires, so a closed number is reused by the next     *)
(* open.  The Python program opens and closes its own files between calls *)
(* of the binding; the binding's caller holds a handle between            *)
(* _pyccn_open_file_handle and _pyccn_close_file_handle.                   *)
(***************************************************************************)
EXTENDS Integers, FiniteSetsExt, Functions

CONSTANTS
    MaxFd,        \* size of the descriptor table (RLIMIT_NOFILE)
    MaxHandles,   \* FILE structures fdopen can allocate before ENOMEM
    PyFiles,      \* the Python file objects of the program
    FileAccess,   \* FileAccess[p]: the mode p was opened with, "r" or "w"
    InitFd,       \* InitFd[p]: p's descriptor at the start, or -1 if closed
    Closed,       \* model value: a free descriptor number, an unused handle
    NotAFile      \* model value: an object without a fileno() method

Fds     == 0..(MaxFd - 1)
Handles == 1..MaxHandles
Modes   == {"r", "w"}

\* What the caller may pass as py_file: a Python file, an int (a raw
\* descriptor number, possibly negative or not open), or NotAFile.
Args == PyFiles \cup (-1..MaxFd) \cup {NotAFile}

ASSUME /\ MaxFd \in Nat \ {0} /\ MaxHandles \in Nat
       /\ FileAccess \in [PyFiles -> Modes]
       /\ InitFd \in [PyFiles -> Fds \cup {-1}]

VARIABLES
    fdtab,     \* fdtab[fd]: the description open at fd, or Closed
    pyfd,      \* pyfd[p]: the descriptor Python file p owns, -1 once closed
    hfd,       \* hfd[h]: the descriptor FILE handle h owns, -1 when unused
    target     \* target[h]: the description h was opened on (history)

vars == <<fdtab, pyfd, hfd, target>>

FreeFds == {fd \in Fds : fdtab[fd] = Closed}

-----------------------------------------------------------------------------
(* util.c                                                                  *)

\* PyObject_AsFileDescriptor: an int is taken as the descriptor itself
\* (ValueError if negative), otherwise fileno() is called, which raises
\* ValueError on a closed file and AttributeError on other objects.
AsFileDescriptor(o) ==
    CASE o \in PyFiles  -> pyfd[o]
      [] o = NotAFile   -> -1
      [] OTHER          -> IF o < 0 THEN -1 ELSE o

\* A dup that hands back the descriptor it was given, as if the copy were
\* left out and fdopen(ofd) were called directly.
DupSame(ofd) ==
    IF ofd \notin Fds \/ fdtab[ofd] = Closed THEN -1 ELSE ofd

\* dup(ofd): EBADF if ofd is not open, EMFILE if the table is full,
\* otherwise the lowest free descriptor.
Dup(ofd) ==
    IF ofd \notin Fds \/ fdtab[ofd] = Closed \/ FreeFds = {} THEN -1
    ELSE Min(FreeFds)

\* The error label with the descriptor check written as fd > 0.
CloseOnErrorFromOne(tab, fd) ==
    IF fd > 0 THEN [tab EXCEPT ![fd] = Closed] ELSE tab

\* The error label: "if (fd > -1) close(fd);".
CloseOnError(tab, fd) ==
    IF fd > -1 THEN [tab EXCEPT ![fd] = Closed] ELSE tab

\* _pyccn_open_file_handle(py_file, mode).  fdopen fails with EINVAL when
\* the mode is not allowed by the descriptor's access mode, and with ENOMEM
\* when no FILE can be allocated (no free handle, or oom).
OpenFileHandle(o, mode, oom) ==
    LET ofd    == AsFileDescriptor(o)
        fd     == IF ofd < 0 THEN -1 ELSE Dup(ofd)
        desc   == fdtab[ofd]
        duped  == IF fd > -1 THEN [fdtab EXCEPT ![fd] = desc] ELSE fdtab
        free   == {h \in Handles : hfd[h] = -1}
        fdopen == fd > -1 /\ FileAccess[desc] = mode /\ ~oom /\ free # {}
    IN  IF fdopen
        THEN LET h == Min(free)
             IN  /\ fdtab' = duped
                 /\ hfd' = [hfd EXCEPT ![h] = fd]
                 /\ target' = [target EXCEPT ![h] = desc]
        ELSE /\ fdtab' = CloseOnError(duped, fd)
             /\ UNCHANGED <<hfd, target>>

\* A close that closes the descriptor, close(fileno(fh)), and never frees
\* the FILE: the handle stays allocated on a closed number.
CloseFileHandleKeepSlot(h) ==
    /\ fdtab' = [fdtab EXCEPT ![hfd[h]] = Closed]
    /\ UNCHANGED <<hfd, target>>

\* _pyccn_close_file_handle(fh): fclose flushes and closes the descriptor
\* whether or not the flush succeeds, and frees the FILE.
CloseFileHandle(h) ==
    /\ fdtab' = [fdtab EXCEPT ![hfd[h]] = Closed]
    /\ hfd' = [hfd EXCEPT ![h] = -1]
    /\ target' = [target EXCEPT ![h] = Closed]

-----------------------------------------------------------------------------
(* The program                                                             *)

\* The binding's caller opens a handle on any argument, in any mode.
OpenCmd ==
    /\ \E o \in Args, mode \in Modes, oom \in BOOLEAN :
            OpenFileHandle(o, mode, oom)
    /\ UNCHANGED pyfd

\* The caller closes a handle it holds (a handle is closed once).
CloseCmd ==
    /\ \E h \in Handles : hfd[h] # -1 /\ CloseFileHandle(h)
    /\ UNCHANGED pyfd

\* Python opens a closed file again: open() takes the lowest free number.
PyOpen ==
    /\ FreeFds # {}
    /\ \E p \in PyFiles :
          /\ pyfd[p] = -1
          /\ pyfd' = [pyfd EXCEPT ![p] = Min(FreeFds)]
          /\ fdtab' = [fdtab EXCEPT ![Min(FreeFds)] = p]
    /\ UNCHANGED <<hfd, target>>

\* Python closes one of its files.
PyClose ==
    /\ \E p \in PyFiles :
          /\ pyfd[p] # -1
          /\ pyfd' = [pyfd EXCEPT ![p] = -1]
          /\ fdtab' = [fdtab EXCEPT ![pyfd[p]] = Closed]
    /\ UNCHANGED <<hfd, target>>

Init ==
    /\ pyfd = InitFd
    /\ fdtab = [fd \in Fds |->
                  IF \E p \in PyFiles : InitFd[p] = fd
                  THEN CHOOSE p \in PyFiles : InitFd[p] = fd ELSE Closed]
    /\ hfd = [h \in Handles |-> -1]
    /\ target = [h \in Handles |-> Closed]

Next == OpenCmd \/ CloseCmd \/ PyOpen \/ PyClose

Spec == Init /\ [][Next]_vars

-----------------------------------------------------------------------------
(* Properties                                                              *)

\* No descriptor leaks: every open descriptor is owned by a Python file or
\* by a FILE handle, so someone will close it.  A failed fdopen must close
\* the copy made by dup, whatever number dup returned (0 included, once
\* Python has closed stdin).
NoFdLeak ==
    \A fd \in Fds : fdtab[fd] # Closed =>
        fd \in Range(pyfd) \cup Range(hfd)

\* A handle keeps writing into the file it was opened on, and a Python
\* file keeps its own descriptor, whatever the program closes and opens in
\* between: no two owners share a descriptor, so closing one never closes,
\* or redirects, the other's.
HandleKeepsTarget ==
    /\ \A h \in Handles : hfd[h] # -1 => fdtab[hfd[h]] = target[h]
    /\ \A p \in PyFiles : pyfd[p] # -1 => fdtab[pyfd[p]] = p

\* The handles refine FileOwnership: seen as the file its descriptor is open
\* on, a handle is bound by _pyccn_open_file_handle to a file some owner has
\* open, and only _pyccn_close_file_handle unbinds it, while Python's own
\* open() and close() of its files leave every handle alone.  A descriptor
\* shared with a Python file, or closed without releasing the handle, lets
\* a later open or close of Python re-bind or unbind a handle.
FO == INSTANCE FileOwnership
        WITH InitOpen <- {p \in PyFiles : InitFd[p] # -1},
             open     <- {p \in PyFiles : pyfd[p] # -1},
             bound    <- [h \in Handles |->
                             IF hfd[h] = -1 THEN Closed ELSE fdtab[hfd[h]]]

FileOwnershipRefined == FO!Spec

=============================================================================
