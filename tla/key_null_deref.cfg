\* One put_key_der or build_keylocator_from_key next to a generated key:
\* each dereferences NULL on some exit path.
CONSTANTS
    MaxAddr = 20
    NULL = NULL
    Ops <- NullDerefOps
    InitKey = "generated"
    MaxCalls = 1
SPECIFICATION Spec
INVARIANTS
    NoCrash
\* The Python program may stop calling at any point.
CHECK_DEADLOCK FALSE
