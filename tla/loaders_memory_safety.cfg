\* Every command that makes a key, two in a row from a fresh Key.
CONSTANTS
    MaxAddr = 26
    NULL = NULL
    Ops <- LoadOps
    InitKey = "none"
    MaxCalls = 2
SPECIFICATION Spec
INVARIANTS
    NoUseAfterFree
\* The Python program may stop calling at any point.
CHECK_DEADLOCK FALSE
