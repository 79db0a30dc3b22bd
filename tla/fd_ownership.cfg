\* Descriptor ownership of _pyccn_open_file_handle/_pyccn_close_file_handle
\* while the program closes and reopens its own files, up to a full table.
CONSTANTS
    stdin = stdin
    stdout = stdout
    logfile = logfile
    Closed = Closed
    NotAFile = NotAFile
    MaxFd = 4
    MaxHandles = 3
    PyFiles <- MCPyFiles
    FileAccess <- MCFileAccess
    InitFd <- MCInitFd

SPECIFICATION Spec

INVARIANTS
    NoFdLeak
    HandleKeepsTarget

PROPERTIES
    FileOwnershipRefined
