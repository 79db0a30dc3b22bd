\* Exports, duplicates and drops of a generated key, four calls deep.
CONSTANTS
    MaxAddr = 16
    NULL = NULL
    Ops <- UseOps
    InitKey = "generated"
    MaxCalls = 4
SPECIFICATION Spec
INVARIANTS
    NoUseAfterFree
\* The Python program may stop calling at any point.
CHECK_DEADLOCK FALSE
