\* Data_obj_from_ndn and the commands that read a parse release everything
\* they allocate on every exit path.
CONSTANTS
    NULL = NULL
    MaxAddr = 32
    MaxCalls = 2
    Ops <- CapsuleOps
    InitObjs <- CapsuleObjs

SPECIFICATION Spec

INVARIANTS
    NoLeak

\* A Python program may stop calling the module at any point.
CHECK_DEADLOCK FALSE
