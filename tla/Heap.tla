-------------------------------- MODULE Heap --------------------------------
(***************************************************************************)
(* The reference-counted object graph the binding code manipulates: Python *)
(* objects (capsules, bytes, str), OpenSSL objects (EVP_PKEY, RSA, BIO)    *)
(* and plain malloc buffers.  This module is the contract of the libraries *)
(* the binding calls (CPython and OpenSSL), not code of the binding.       *)
(*                                                                         *)
(* A "world" w is a record                                                 *)
(*   rc    : [Addr -> Int]    reference count, 0 = not allocated or freed  *)
(*   kind  : [Addr -> Kinds]  what the object is                           *)
(*   child : [Addr -> Addr \cup {NULL}]  the one object it owns (capsule   *)
(*           -> EVP_PKEY, EVP_PKEY -> RSA); freed by its destructor        *)
(*   mat   : [Addr -> Addr \cup {NULL}]  the key material it carries       *)
(*           (material is named by the address of the RSA it was made as)  *)
(*   wire  : [Addr -> Forms \cup {NULL}]  the wire form of the bytes a     *)
(*           charbuf, Python bytes or parse holds                          *)
(*   attrs : [Addr -> [Fields -> Addr \cup {NULL}]]  the further objects   *)
(*           it owns by name: a Python object's attributes, a content      *)
(*           capsule's context (pco, comps); released by its destructor    *)
(*   next  : the next fresh address                                        *)
(*   key   : the attributes of the Python Key object                       *)
(*   fuel  : how many more fallible library calls succeed (-1 = all)       *)
(*   crash : the process dereferenced NULL                                 *)
(*                                                                         *)
(* Every fallible library call consumes one unit of fuel; the call that   *)
(* finds fuel = 0 fails and sets it to -1, so every later call succeeds.   *)
(* Picking the fuel nondeterministically thus explores "no failure" and    *)
(* "only the k-th call fails" for every k, including the paths where the  *)
(* code goes on calling after an unchecked failure.                        *)
(***************************************************************************)
EXTENDS Integers, FiniteSets, Sequences

CONSTANTS
    MaxAddr,    \* number of objects a behaviour may allocate
    NULL        \* model value: the NULL pointer, Py_None, an unset attribute

Addr == 1..MaxAddr

Kinds == {"none", "PyCapsule", "PyBytes", "PyStr",
          "EVP_PKEY", "RSA", "RSApub", "BIO", "Buf", "Digest",
          \* NDN capsules (named after the capsule types of the binding),
          \* the parse of a content object and its name component index
          "CONTENT_OBJECT", "NAME", "SIGNATURE", "SIGNED_INFO", "KEY_LOCATOR",
          "INTEREST", "EXCLUSION_FILTER",
          "Pco", "IndexBuf",
          \* Python objects: instances of the Data, Name, Signature and
          \* SignedInfo classes, other Python values
          "Data", "Name", "Signature", "SignedInfo", "PyByteArray", "PyNum", "PyNone"}

\* What a wire-format content object can be, as far as parsing goes:
\* parseable with a name, parseable without name components, not parseable.
Forms == {"wire_ok", "wire_noname", "wire_bad"}

\* The owned fields of an object, in the order its destructor releases them.
FieldSeq == <<"name", "content", "signature", "signedInfo", "ndn_data",
              "pco", "comps">>
Fields == {FieldSeq[i] : i \in 1..Len(FieldSeq)}
NoFields == [f \in Fields |-> NULL]

KeyAttrs == {"ccn_data_private", "ccn_data_public", "type", "publicKeyID"}

World == [rc : [Addr -> Int], kind : [Addr -> Kinds],
          child : [Addr -> Addr \cup {NULL}], mat : [Addr -> Addr \cup {NULL}],
          wire : [Addr -> Forms \cup {NULL}],
          attrs : [Addr -> [Fields -> Addr \cup {NULL}]],
          next : 1..MaxAddr + 1, key : [KeyAttrs -> Addr \cup {NULL}],
          fuel : Int, crash : BOOLEAN]

EmptyWorld ==
    [rc |-> [a \in Addr |-> 0], kind |-> [a \in Addr |-> "none"],
     child |-> [a \in Addr |-> NULL], mat |-> [a \in Addr |-> NULL],
     wire |-> [a \in Addr |-> NULL],
     attrs |-> [a \in Addr |-> NoFields],
     next |-> 1, key |-> [k \in KeyAttrs |-> NULL], fuel |-> -1, crash |-> FALSE]

Live(w, a) == a # NULL /\ w.rc[a] > 0

\* The result of a C function that returns a pointer: NULL on failure.
Fail(w)   == [w |-> w, ok |-> FALSE, out |-> NULL]
Ok(w, a)  == [w |-> w, ok |-> TRUE, out |-> a]

\* A library call that may fail: it fails iff the fuel is exhausted, and
\* the failure uses the fuel up.
Fails(w) == w.fuel = 0
Call(w)  == [w EXCEPT !.fuel = IF @ >= 0 THEN @ - 1 ELSE @]

\* The result r of one call, named for the rest of a C function, Rest:
\* Bind(Call(w), LAMBDA w1: ...) reads "w1 = call(w); ...".
Bind(r, Rest(_)) == Rest(r)

\* A fresh object with reference count 1.
Alloc(w, k, c, m) ==
    [w EXCEPT !.rc[w.next] = 1, !.kind[w.next] = k, !.child[w.next] = c,
              !.mat[w.next] = m, !.wire[w.next] = NULL,
              !.attrs[w.next] = NoFields, !.next = w.next + 1]

\* A fallible allocation (malloc, PyBytes_From..., EVP_PKEY_new, ...):
\* the new address, or NULL when the call fails.
TryNew(w, k, c, m) ==
    IF Fails(w) THEN [w |-> Call(w), a |-> NULL]
                ELSE [w |-> Alloc(Call(w), k, c, m), a |-> w.next]

\* Py_INCREF, and the reference an OpenSSL get1/set1 call takes.
Incref(w, a) == [w EXCEPT !.rc[a] = @ + 1]

\* Py_XDECREF / EVP_PKEY_free / RSA_free / BIO_free / free: the last
\* reference runs the destructor, which releases the owned child and the
\* owned fields.  A release of an object already at 0 drives the count
\* negative.
RECURSIVE Decref(_, _), DecrefAll(_, _)
Decref(w, a) ==
    CASE a = NULL      -> w
      [] w.rc[a] = 1   -> DecrefAll(Decref([w EXCEPT !.rc[a] = 0], w.child[a]),
                                    [i \in 1..Len(FieldSeq) |-> w.attrs[a][FieldSeq[i]]])
      [] OTHER         -> [w EXCEPT !.rc[a] = @ - 1]

\* Releases each address of the sequence s in turn.
DecrefAll(w, s) ==
    IF s = <<>> THEN w ELSE DecrefAll(Decref(w, Head(s)), Tail(s))

\* The material an EVP_PKEY carries: its RSA's, or its own if it is not RSA.
PKeyMat(w, p) == IF w.child[p] # NULL THEN w.mat[w.child[p]] ELSE w.mat[p]

\* The number of references to each address held by the Python program
\* (the Key attributes and the set held) and by live owners (an owned child
\* or an owned field).
RefCount(w, held) ==
    LET live   == {b \in Addr : w.rc[b] > 0}
        owners == {b \in live : w.child[b] # NULL}
        fields == {bf \in live \X Fields : w.attrs[bf[1]][bf[2]] # NULL}
    IN  [a \in Addr |->
            Cardinality({k \in KeyAttrs : w.key[k] = a})
            + (IF a \in held THEN 1 ELSE 0)
            + Cardinality({b \in owners : w.child[b] = a})
            + Cardinality({bf \in fields : w.attrs[bf[1]][bf[2]] = a})]

=============================================================================
