\* One generate_RSA_key on a fresh Key.
CONSTANTS
    MaxAddr = 13
    NULL = NULL
    Ops <- GenerateOps
    InitKey = "none"
    MaxCalls = 1
SPECIFICATION Spec
INVARIANTS
    NoDoubleFree
\* The Python program may stop calling at any point.
CHECK_DEADLOCK FALSE
