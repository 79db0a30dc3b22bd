\* The leak-free exports of a generated key, four calls deep.
CONSTANTS
    MaxAddr = 16
    NULL = NULL
    Ops <- ExportOps
    InitKey = "generated"
    MaxCalls = 4
SPECIFICATION Spec
INVARIANTS
    NoLeak
\* The Python program may stop calling at any point.
CHECK_DEADLOCK FALSE
