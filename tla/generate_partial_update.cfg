\* One generate_RSA_key on a Key that already holds a key pair.
CONSTANTS
    MaxAddr = 21
    NULL = NULL
    Ops <- GenerateOps
    InitKey = "generated"
    MaxCalls = 1
SPECIFICATION Spec
INVARIANTS
    KeyHalvesMatch
\* The Python program may stop calling at any point.
CHECK_DEADLOCK FALSE
