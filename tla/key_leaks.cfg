\* One generate_RSA_key, read_key_pem, get_key_der_* or get_ASN_public_key
\* next to a generated key: each of the four leaks on some exit path.
CONSTANTS
    MaxAddr = 21
    NULL = NULL
    Ops <- LeakOps
    InitKey = "generated"
    MaxCalls = 1
SPECIFICATION Spec
INVARIANTS
    NoLeak
\* The Python program may stop calling at any point.
CHECK_DEADLOCK FALSE
