\* Data_obj_from_ndn_buffer never releases the buffer view it takes.
CONSTANTS
    NULL = NULL
    MaxAddr = 18
    MaxCalls = 1
    Ops <- BufferOps
    InitObjs <- BufferObjs

SPECIFICATION Spec

INVARIANTS
    NoLeak

\* A Python program may stop calling the module at any point.
CHECK_DEADLOCK FALSE
