----------------------------- MODULE MCKeyUtils -----------------------------
(* Instances of KeyUtils for TLC: which commands a run lets the Python      *)
(* program call.                                                            *)
EXTENDS KeyUtils

AllOps == {"GenerateRSAKey", "ReadKeyPem", "PutKeyPem", "PutKeyDer",
           "GetKeyPem", "GetKeyDer", "PrivateKeyDup", "Drop"}

\* The commands that make keys.
LoadOps == {"GenerateRSAKey", "ReadKeyPem", "PutKeyPem", "PutKeyDer"}

\* The commands that take a key the Python program holds.
UseOps == {"GetKeyPem", "GetKeyDer", "PrivateKeyDup", "GetASNPublicKey",
           "BuildKeylocatorFromKey", "Drop"}

\* The commands whose exit paths release everything they allocate.
ExportOps == {"GetKeyPem", "PrivateKeyDup", "Drop"}

GenerateOps == {"GenerateRSAKey"}
\* The commands that leak on some exit path, and the ones that dereference
\* NULL on some exit path.
LeakOps      == {"GenerateRSAKey", "ReadKeyPem", "GetKeyDer", "GetASNPublicKey"}
NullDerefOps == {"PutKeyDer", "BuildKeylocatorFromKey"}
=============================================================================
