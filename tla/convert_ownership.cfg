\* Ownership in content_to_bytes and content_to_bytearray: any four
\* conversions and releases, with any one library call failing in each.
CONSTANTS
    NULL = NULL
    MaxAddr = 19
    MaxCalls = 4
    Ops <- ConvertOps
    InitObjs <- ValueObjs

SPECIFICATION Spec

INVARIANTS
    NoUseAfterFree
    NoLeak

\* A Python program may stop calling the module at any point.
CHECK_DEADLOCK FALSE
