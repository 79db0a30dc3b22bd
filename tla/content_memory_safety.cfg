\* Memory safety and the parse cache under any two content-object commands,
\* with any one library call failing in each.
CONSTANTS
    NULL = NULL
    MaxAddr = 39
    MaxCalls = 2
    Ops <- AllOps
    InitObjs <- AllObjs

SPECIFICATION Spec

INVARIANTS
    NoUseAfterFree
    NoCrash
    ParseCacheSound

PROPERTIES
    ParseCacheRefined

\* A Python program may stop calling the module at any point.
CHECK_DEADLOCK FALSE
