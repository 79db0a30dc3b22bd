------------------------------ MODULE KeyUtils ------------------------------
(***************************************************************************)
(* Key lifecycle glue of the binding: src/csrc/key_utils.c and the         *)
(* generate_RSA_key command of src/csrc/methods.c.                         *)
(*                                                                         *)
(* Each C function is an operator from a world (module Heap) to a result   *)
(* record; its guards and gotos become the arms of a CASE, each arm being  *)
(* the exit path the code takes when the named call fails.  A Python-level *)
(* command is one action: it picks the fuel (which library call fails, if *)
(* any) and the input, and applies the whole C function.                   *)
(***************************************************************************)
EXTENDS Heap

CONSTANTS
    Ops,        \* the commands the Python program may call in this run
    InitKey,    \* "none" or "generated": the Key object at the start
    MaxCalls    \* number of commands a behaviour may make

VARIABLES
    heap,           \* the world of module Heap, fuel = -1 between commands
    held,           \* objects returned to and still held by the Python program
    g_seeded,       \* key_utils.c g_seeded
    g_seed_file,    \* key_utils.c g_seed_file is non-empty
    seedFileExists, \* the PRNG seed file exists on disk
    panicked,       \* panic() aborted the process
    calls           \* commands made so far (bounded by MaxCalls)

vars == <<heap, held, g_seeded, g_seed_file, seedFileExists, panicked, calls>>

\* The contents a PEM or DER input may have.
Pems == {"rsa_private", "rsa_public", "dsa_private", "garbage"}

-----------------------------------------------------------------------------
(* OpenSSL calls whose outcome depends on the data.                        *)

\* EVP_PKEY_get0_RSA used where get1 is needed: no reference is taken.
Get0RSA(w, p) ==
    IF w.kind[p] = "EVP_PKEY" /\ w.child[p] # NULL
    THEN [w |-> w, r |-> w.child[p]] ELSE [w |-> w, r |-> NULL]

\* EVP_PKEY_get1_RSA: a new reference to the key's RSA, NULL if not RSA.
Get1RSA(w, p) ==
    IF w.kind[p] = "EVP_PKEY" /\ w.child[p] # NULL
    THEN [w |-> Incref(w, w.child[p]), r |-> w.child[p]]
    ELSE [w |-> w, r |-> NULL]

\* EVP_PKEY_assign_RSA used where set1 is needed: the RSA is owned without
\* a reference of its own.
Set1RSAWithoutRef(w, p, r) == [w EXCEPT !.child[p] = r]

\* EVP_PKEY_set1_RSA on a fresh EVP_PKEY: it takes its own reference.
Set1RSA(w, p, r) == Incref([w EXCEPT !.child[p] = r], r)

\* Whether PEM_read_*PrivateKey / PEM_read_*PUBKEY / d2i_* accept the input.
Readable(pem, asPublic) ==
    IF asPublic THEN pem = "rsa_public" ELSE pem \in {"rsa_private", "dsa_private"}

\* The read: a new EVP_PKEY (owning a new RSA unless DSA), or NULL.
ParseKey(w, pem, asPublic) ==
    CASE Fails(w) \/ ~Readable(pem, asPublic) -> [w |-> Call(w), a |-> NULL]
      [] pem = "dsa_private" ->
            [w |-> Alloc(Call(w), "EVP_PKEY", NULL, w.next), a |-> w.next]
      [] OTHER ->
            LET w1 == Alloc(Call(w), IF asPublic THEN "RSApub" ELSE "RSA",
                            NULL, w.next)
            IN  [w |-> Alloc(w1, "EVP_PKEY", w.next, NULL), a |-> w.next + 1]

\* PEM_read_PrivateKey failed with reason 108 (no start line): the input is
\* not a private key PEM, and not a failure of the library.
NoStartLine(w, pem) == ~Fails(w) /\ pem \in {"rsa_public", "garbage"}

\* The key cannot be written as a private key: it only has a public half.
PublicOnlyKey(w, p) == w.child[p] # NULL /\ w.kind[w.child[p]] = "RSApub"

-----------------------------------------------------------------------------
(* key_utils.c                                                             *)

\* create_key_digest: SHA-256 of the DER key into a malloc'd buffer.
CreateKeyDigest(w, m) ==
    Bind(TryNew(w, "Digest", NULL, NULL), LAMBDA d:   \* ndn_digest_create
    Bind(TryNew(d.w, "Buf", NULL, m), LAMBDA b:       \* malloc(key_digest_size)
    Bind(Call(Call(b.w)), LAMBDA u:                   \* ndn_digest_update, _final
        CASE d.a = NULL          -> Fail(d.w)
          [] b.a = NULL          -> Fail(Decref(b.w, d.a))
          [] b.w.fuel \in {0, 1} -> Fail(Decref(Decref(u, b.a), d.a))
          [] OTHER               -> Ok(Decref(u, d.a), b.a))))

\* create_public_key_digest: a Python bytes of the digest of the public key.
\* The buffer create_key_digest returns is never freed.
CreatePublicKeyDigest(w, key) ==
    LET m == PKeyMat(w, key) IN
    Bind(TryNew(w, "Buf", NULL, m), LAMBDA der:       \* i2d_PUBKEY
    Bind(CreateKeyDigest(der.w, m), LAMBDA kd:
    Bind(Decref(kd.w, der.a), LAMBDA w2:              \* free(public_key_der)
    Bind(TryNew(w2, "PyBytes", NULL, m), LAMBDA py:   \* PyBytes_FromStringAndSize
        CASE der.a = NULL  -> Fail(der.w)
          [] ~kd.ok        -> Fail(w2)
          [] py.a = NULL   -> Fail(py.w)
          [] OTHER         -> Ok(py.w, py.a)))))

\* One half of ndn_keypair: a new EVP_PKEY wrapped in a capsule, holding a
\* duplicate (dupKind) of the RSA of pkey.  freeCopy: the error path frees
\* the EVP_PKEY when the capsule could not be made (only the public half).
\* The reference get1 takes is never released.
KeyHalf(w, pkey, dupKind, freeCopy) ==
    Bind(TryNew(w, "EVP_PKEY", NULL, NULL), LAMBDA c:     \* EVP_PKEY_new
    Bind(TryNew(c.w, "PyCapsule", c.a, NULL), LAMBDA p:   \* NDNObject_New
        CASE c.a = NULL  -> Fail(c.w)
          [] p.a = NULL  -> Fail(IF freeCopy THEN Decref(p.w, c.a) ELSE p.w)
          [] pkey = NULL -> [Fail(p.w) EXCEPT !.w.crash = TRUE]
          [] OTHER ->
        Bind(Get1RSA(p.w, pkey), LAMBDA g:                \* EVP_PKEY_get1_RSA
        Bind(TryNew(g.w, dupKind, NULL, g.w.mat[g.r]), LAMBDA d: \* RSA*Key_dup
            CASE g.r = NULL  -> Fail(Decref(g.w, p.a))
              [] d.a = NULL  -> Fail(Decref(d.w, p.a))
              [] OTHER       -> Ok(Decref(Set1RSA(d.w, c.a, d.a), d.a), p.a)))))

\* ndn_keypair: the private capsule (None when public_only) and the public one.
NdnKeypair(w, publicOnly, pkey) ==
    Bind(IF publicOnly THEN Ok(w, NULL)
                       ELSE KeyHalf(w, pkey, "RSA", FALSE), LAMBDA pv:
    Bind(KeyHalf(pv.w, pkey, "RSApub", TRUE), LAMBDA pb:
        CASE ~pv.ok -> [w |-> pv.w, ok |-> FALSE, priv |-> NULL, pub |-> NULL]
          [] ~pb.ok -> [w |-> Decref(pb.w, pv.out), ok |-> FALSE,
                        priv |-> NULL, pub |-> NULL]
          [] OTHER  -> [w |-> pb.w, ok |-> TRUE, priv |-> pv.out, pub |-> pb.out]))

\* _pyndn_privatekey_dup without the RSA_free of the get1 reference.
PrivateKeyDupNoRsaFree(w, key) ==
    Bind(TryNew(w, "EVP_PKEY", NULL, NULL), LAMBDA c:
    Bind(TryNew(c.w, "PyCapsule", c.a, NULL), LAMBDA p:
    Bind(Get1RSA(p.w, key), LAMBDA g:
        CASE c.a = NULL -> Fail(c.w)
          [] p.a = NULL -> Fail(Decref(p.w, c.a))
          [] g.r = NULL -> Fail(Decref(g.w, p.a))
          [] OTHER      -> Ok(Set1RSA(g.w, c.a, g.r), p.a))))

\* _pyndn_privatekey_dup: a private-key capsule sharing key's RSA.
PrivateKeyDup(w, key) ==
    Bind(TryNew(w, "EVP_PKEY", NULL, NULL), LAMBDA c:     \* EVP_PKEY_new
    Bind(TryNew(c.w, "PyCapsule", c.a, NULL), LAMBDA p:   \* NDNObject_New
    Bind(Get1RSA(p.w, key), LAMBDA g:                     \* EVP_PKEY_get1_RSA
        CASE c.a = NULL -> Fail(c.w)
          [] p.a = NULL -> Fail(Decref(p.w, c.a))
          [] g.r = NULL -> Fail(Decref(g.w, p.a))
          [] OTHER      -> Ok(Decref(Set1RSA(g.w, c.a, g.r), g.r), p.a))))

LoadResult(w, ok, pv, pb, dg) ==
    [w |-> w, ok |-> ok, priv |-> pv, pub |-> pb, digest |-> dg]

\* generate_key, after seed_prng: an RSA key, its two capsules and digest.
\* On a digest failure the capsules are already in the out parameters.
GenerateKey(w) ==
    Bind(TryNew(w, "RSA", NULL, w.next), LAMBDA r:        \* RSA_generate_key
    Bind(TryNew(r.w, "EVP_PKEY", r.a, NULL), LAMBDA p:    \* EVP_PKEY_new, _assign_RSA
    Bind(NdnKeypair(p.w, FALSE, p.a), LAMBDA kp:
    Bind(CreatePublicKeyDigest(kp.w, p.a), LAMBDA dg:
        CASE r.a = NULL \/ p.a = NULL -> LoadResult(p.w, FALSE, NULL, NULL, NULL)
          [] ~kp.ok -> LoadResult(kp.w, FALSE, NULL, NULL, NULL)
          [] ~dg.ok -> LoadResult(dg.w, FALSE, kp.priv, kp.pub, NULL)
          [] OTHER  -> LoadResult(Decref(dg.w, p.a), TRUE,  \* EVP_PKEY_free
                                  kp.priv, kp.pub, dg.out)))))

\* read_key_pem: a private key PEM, else (reason 108) a public key PEM.
\* On success the key that was read is never freed.
ReadKeyPem(w, pem) ==
    Bind(Call(w), LAMBDA p0:                              \* fgetpos
    Bind(ParseKey(p0, pem, FALSE), LAMBDA k1:             \* PEM_read_PrivateKey
    Bind(Call(k1.w), LAMBDA p1:                           \* fsetpos
    Bind(ParseKey(p1, pem, TRUE), LAMBDA k2:              \* PEM_read_PUBKEY
    Bind(IF k1.a # NULL THEN k1 ELSE k2, LAMBDA k:
    Bind(NdnKeypair(k.w, k1.a = NULL, k.a), LAMBDA kp:
    Bind(CreatePublicKeyDigest(kp.w, k.a), LAMBDA dg:
        CASE Fails(w)                             -> LoadResult(p0, FALSE, NULL, NULL, NULL)
          [] k1.a = NULL /\ ~NoStartLine(p0, pem) -> LoadResult(k1.w, FALSE, NULL, NULL, NULL)
          [] k1.a = NULL /\ Fails(k1.w)           -> LoadResult(p1, FALSE, NULL, NULL, NULL)
          [] k.a = NULL -> LoadResult(k2.w, FALSE, NULL, NULL, NULL)
          [] ~kp.ok     -> LoadResult(Decref(kp.w, k.a), FALSE, NULL, NULL, NULL)
          [] ~dg.ok     -> LoadResult(Decref(dg.w, k.a), FALSE, kp.priv, kp.pub, NULL)
          [] OTHER      -> LoadResult(dg.w, TRUE, kp.priv, kp.pub, dg.out))))))))

\* put_key_pem: the key from a PEM held in a Python bytes, through a BIO.
\* On success neither the key nor the BIO is freed.
PutKeyPem(w, isPublicOnly, pem) ==
    Bind(Call(w), LAMBDA s:                               \* PyBytes_AsStringAndSize
    Bind(TryNew(s, "BIO", NULL, NULL), LAMBDA b:          \* BIO_new_mem_buf
    Bind(ParseKey(b.w, pem, isPublicOnly), LAMBDA k:      \* PEM_read_bio_*
    Bind(NdnKeypair(k.w, isPublicOnly, k.a), LAMBDA kp:
    Bind(CreatePublicKeyDigest(kp.w, k.a), LAMBDA dg:
    LET cleanup(x) == Decref(Decref(x, k.a), b.a) IN
        CASE Fails(w)   -> LoadResult(s, FALSE, NULL, NULL, NULL)
          [] b.a = NULL -> LoadResult(b.w, FALSE, NULL, NULL, NULL)
          [] k.a = NULL -> LoadResult(Decref(k.w, b.a), FALSE, NULL, NULL, NULL)
          [] ~kp.ok     -> LoadResult(cleanup(kp.w), FALSE, NULL, NULL, NULL)
          [] ~dg.ok     -> LoadResult(cleanup(dg.w), FALSE, kp.priv, kp.pub, NULL)
          [] OTHER      -> LoadResult(dg.w, TRUE, kp.priv, kp.pub, dg.out))))))

\* put_key_der: the key from DER bytes.  The result of d2i_* is passed to
\* ndn_keypair unchecked, and the key is never freed.
PutKeyDer(w, isPublicOnly, der) ==
    Bind(Call(w), LAMBDA s:                               \* PyBytes_AsStringAndSize
    Bind(ParseKey(s, der, isPublicOnly), LAMBDA k:        \* d2i_PUBKEY / d2i_PrivateKey
    Bind(NdnKeypair(k.w, isPublicOnly, k.a), LAMBDA kp:
    Bind(CreatePublicKeyDigest(kp.w, k.a), LAMBDA dg:
        CASE Fails(w) -> LoadResult(s, FALSE, NULL, NULL, NULL)
          [] ~kp.ok   -> LoadResult(kp.w, FALSE, NULL, NULL, NULL)
          [] ~dg.ok   -> LoadResult(dg.w, FALSE, kp.priv, kp.pub, NULL)
          [] OTHER    -> LoadResult(dg.w, TRUE, kp.priv, kp.pub, dg.out)))))

\* get_key_pem_private / get_key_pem_public: the PEM text as Python bytes,
\* written through a memory BIO.  BIO_free of a live BIO returns 1, so the
\* code's check of its result never fails.
GetKeyPem(w, key, private) ==
    Bind(TryNew(w, "BIO", NULL, NULL), LAMBDA b:                   \* BIO_new
    Bind(Call(b.w), LAMBDA wr:                                     \* PEM_write_bio_*
    Bind(TryNew(wr, "PyBytes", NULL, PKeyMat(w, key)), LAMBDA py:  \* PyBytes_FromStringAndSize
        CASE b.a = NULL -> Fail(b.w)
          [] Fails(b.w) \/ (private /\ PublicOnlyKey(w, key)) -> Fail(Decref(wr, b.a))
          [] py.a = NULL -> Fail(Decref(py.w, b.a))
          [] OTHER       -> Ok(Decref(py.w, b.a), py.a))))

\* get_key_der_private / get_key_der_public: the DER encoding as Python
\* bytes.  i2d_* allocates nothing when it fails (a private encoding of a
\* public-only key fails); the buffer it allocates is never freed.
GetKeyDer(w, key, private) ==
    Bind(IF private /\ PublicOnlyKey(w, key) THEN [w |-> Call(w), a |-> NULL]
         ELSE TryNew(w, "Buf", NULL, PKeyMat(w, key)), LAMBDA der:  \* i2d_PrivateKey / i2d_PUBKEY
    Bind(TryNew(der.w, "PyBytes", NULL, PKeyMat(w, key)), LAMBDA py:
        CASE der.a = NULL -> Fail(der.w)
          [] py.a = NULL  -> Fail(py.w)
          [] OTHER        -> Ok(py.w, py.a)))

\* get_ASN_public_key: i2d_PUBKEY(key, 0) measures the DER (-1 on
\* failure), calloc(len, 1) allocates it, and i2d_PUBKEY(key, &pub)
\* writes it.  Neither result is checked.  A key i2d_PUBKEY cannot encode
\* fails both calls, and the length -1 becomes a huge size_t calloc
\* refuses: nothing is allocated.  Otherwise calloc may fail (oom) while
\* OpenSSL's own smaller allocation succeeds: with pub NULL, i2d_PUBKEY
\* allocates a buffer of its own into the local pub, which is lost.  The
\* function returns 0 in every case, with *public_key_der the calloc result.
GetASNPublicKey(w, key, oom) ==
    IF Fails(w) THEN [w |-> Call(w), ok |-> TRUE, out |-> NULL]
    ELSE
    Bind(IF oom THEN [w |-> Call(w), a |-> NULL]
         ELSE TryNew(Call(w), "Buf", NULL, PKeyMat(w, key)), LAMBDA der:
    Bind(IF der.a # NULL THEN [w |-> Call(der.w), a |-> der.a]
         ELSE TryNew(der.w, "Buf", NULL, PKeyMat(w, key)), LAMBDA pub:
        [w |-> pub.w, ok |-> TRUE, out |-> der.a]))

\* build_keylocator_from_key: *keylocator = ndn_charbuf_create(), not
\* checked, then the KeyLocator and Key tags, the public key blob and two
\* closers are appended to it.  An append to a NULL charbuf dereferences
\* NULL.  Only the blob's result is returned; the caller owns *keylocator
\* either way.
BuildKeylocatorFromKey(w, key) ==
    Bind(TryNew(w, "Buf", NULL, NULL), LAMBDA kl:
        IF kl.a = NULL THEN [w |-> [kl.w EXCEPT !.crash = TRUE], ok |-> FALSE,
                             out |-> NULL]
        ELSE Bind(Call(Call(kl.w)), LAMBDA w1:                 \* append_tt x2
             Bind([w1 EXCEPT !.mat[kl.a] = PKeyMat(w, key)], LAMBDA w2:
             [w |-> Call(Call(Call(w2))), ok |-> ~Fails(w1),   \* blob, closers
              out |-> kl.a])))

-----------------------------------------------------------------------------
(* methods.c: _ndn_cmd_generate_RSA_key                                    *)

\* PyObject_SetAttrString on the Key: the new value gains a reference, the
\* old one loses one; on failure the attribute is left as it was.
SetAttr(w, attr, v) ==
    IF Fails(w) THEN [w |-> Call(w), ok |-> FALSE]
    ELSE Bind(Incref(Call(w), v), LAMBDA w1:
         [w |-> Decref([w1 EXCEPT !.key[attr] = v], w.key[attr]), ok |-> TRUE])

\* The command after seeding: generate_key, then the four attributes of
\* the Key, each local released right after its SetAttr; the error label
\* releases the digest, the public and the private key once more.
GenerateRSAKeyCmd(w) ==
    Bind(GenerateKey(w), LAMBDA g:
    Bind(SetAttr(g.w, "ccn_data_private", g.priv), LAMBDA s1:
    Bind(Decref(s1.w, g.priv), LAMBDA a1:                 \* Py_CLEAR(py_private_key)
    Bind(SetAttr(a1, "ccn_data_public", g.pub), LAMBDA s2:
    Bind(Decref(s2.w, g.pub), LAMBDA a2:                  \* Py_CLEAR(py_public_key)
    Bind(TryNew(a2, "PyStr", NULL, NULL), LAMBDA o:       \* PyUnicode_FromString("RSA")
    Bind(SetAttr(o.w, "type", o.a), LAMBDA s3:
    Bind(Decref(s3.w, o.a), LAMBDA a3:                    \* Py_DECREF(py_o)
    Bind(SetAttr(a3, "publicKeyID", g.digest), LAMBDA s4:
    Bind(Decref(s4.w, g.digest), LAMBDA a4:               \* Py_DECREF(py_public_key_digest)
        CASE ~g.ok      -> g.w
          [] ~s1.ok     -> Decref(Decref(a1, g.digest), g.pub)
          [] ~s2.ok     -> Decref(a2, g.digest)
          [] o.a = NULL -> Decref(o.w, g.digest)
          [] ~s3.ok     -> Decref(a3, g.digest)
          [] ~s4.ok     -> Decref(a4, g.digest)
          [] OTHER      -> a4))))))))))

-----------------------------------------------------------------------------
(* The Python program.  The wrappers of read_key_pem, put_key_* and        *)
(* get_key_* live in methods_key.c, which is not part of src/: they are    *)
(* modelled as keeping what a call returns on success and releasing the   *)
(* out parameters already written when it fails.                          *)

Running == ~heap.crash /\ ~panicked

\* A command that may allocate n objects fits in the bounds.
CanRun(n) == /\ Running /\ calls < MaxCalls /\ heap.next + n <= MaxAddr + 1
             /\ calls' = calls + 1

\* The fuel values that make each of the first n fallible calls fail, or none.
Fuel(n) == -1..(n - 1)

Start(f)  == [heap EXCEPT !.fuel = f]
Commit(w) == [w EXCEPT !.fuel = -1]

\* The EVP_PKEYs behind the key capsules the Python program can pass in.
PKeys ==
    {heap.child[c] : c \in {x \in held \cup {heap.key[k] : k \in KeyAttrs} :
                               x # NULL /\ heap.kind[x] = "PyCapsule"
                               /\ heap.rc[x] > 0}}

LoaderReturn(r) ==
    IF r.ok THEN /\ heap' = Commit(r.w)
                 /\ held' = held \cup ({r.priv, r.pub, r.digest} \ {NULL})
            ELSE /\ heap' = Commit(Decref(Decref(r.w, r.priv), r.pub))
                 /\ held' = held

ExportReturn(r) ==
    /\ heap' = Commit(r.w)
    /\ held' = IF r.ok THEN held \cup {r.out} ELSE held

SeedVars == <<g_seeded, g_seed_file, seedFileExists, panicked>>

\* _ndn_cmd_generate_RSA_key, with seed_prng and save_seed of generate_key:
\* the seed file is loaded if it exists, else /dev/urandom and /dev/random;
\* no name for the seed file, or no entropy, is a panic.
GenerateRSAKey ==
    /\ "GenerateRSAKey" \in Ops /\ CanRun(13)
    /\ \E f \in Fuel(19), nameOk, devOk, wrote \in BOOLEAN :
        LET named  == g_seed_file \/ nameOk
            loaded == named /\ seedFileExists
        IN  IF ~named \/ (~loaded /\ ~devOk)
            THEN /\ panicked' = TRUE
                 /\ g_seed_file' = named
                 /\ UNCHANGED <<heap, held, g_seeded, seedFileExists>>
            ELSE /\ heap' = Commit(GenerateRSAKeyCmd(Start(f)))
                 /\ g_seeded' = TRUE
                 /\ g_seed_file' = TRUE
                 /\ seedFileExists' = (seedFileExists \/ wrote)
                 /\ UNCHANGED <<held, panicked>>

ReadKeyPemCmd ==
    /\ "ReadKeyPem" \in Ops /\ CanRun(12)
    /\ \E f \in Fuel(16), pem \in Pems : LoaderReturn(ReadKeyPem(Start(f), pem))
    /\ UNCHANGED SeedVars

PutKeyPemCmd ==
    /\ "PutKeyPem" \in Ops /\ CanRun(13)
    /\ \E f \in Fuel(15), pub \in BOOLEAN, pem \in Pems :
            LoaderReturn(PutKeyPem(Start(f), pub, pem))
    /\ UNCHANGED SeedVars

PutKeyDerCmd ==
    /\ "PutKeyDer" \in Ops /\ CanRun(12)
    /\ \E f \in Fuel(14), pub \in BOOLEAN, der \in Pems :
            LoaderReturn(PutKeyDer(Start(f), pub, der))
    /\ UNCHANGED SeedVars

GetKeyPemCmd ==
    /\ "GetKeyPem" \in Ops /\ CanRun(2)
    /\ \E f \in Fuel(3), key \in PKeys, private \in BOOLEAN :
            ExportReturn(GetKeyPem(Start(f), key, private))
    /\ UNCHANGED SeedVars

GetKeyDerCmd ==
    /\ "GetKeyDer" \in Ops /\ CanRun(2)
    /\ \E f \in Fuel(2), key \in PKeys, private \in BOOLEAN :
            ExportReturn(GetKeyDer(Start(f), key, private))
    /\ UNCHANGED SeedVars

PrivateKeyDupCmd ==
    /\ "PrivateKeyDup" \in Ops /\ CanRun(2)
    /\ \E f \in Fuel(2), key \in PKeys :
            ExportReturn(PrivateKeyDup(Start(f), key))
    /\ UNCHANGED SeedVars

\* A caller of get_ASN_public_key or build_keylocator_from_key keeps the
\* buffer it is handed back (a 0 result, or any result for a keylocator).
BufferReturn(r) ==
    /\ heap' = Commit(r.w)
    /\ held' = held \cup ({r.out} \ {NULL})

GetASNPublicKeyCmd ==
    /\ "GetASNPublicKey" \in Ops /\ CanRun(2)
    /\ \E f \in Fuel(3), key \in PKeys, oom \in BOOLEAN :
            BufferReturn(GetASNPublicKey(Start(f), key, oom))
    /\ UNCHANGED SeedVars

BuildKeylocatorFromKeyCmd ==
    /\ "BuildKeylocatorFromKey" \in Ops /\ CanRun(1)
    /\ \E f \in Fuel(6), key \in PKeys :
            BufferReturn(BuildKeylocatorFromKey(Start(f), key))
    /\ UNCHANGED SeedVars

\* The Python program lets go of an object it holds.
Drop ==
    /\ "Drop" \in Ops /\ CanRun(0)
    /\ \E a \in held : /\ held' = held \ {a}
                       /\ heap' = Decref(heap, a)
    /\ UNCHANGED SeedVars

-----------------------------------------------------------------------------
\* The Key as a successful generate_RSA_key leaves it, without what that
\* call leaked: private capsule 3 -> EVP_PKEY 2 -> RSA 1, public capsule
\* 6 -> EVP_PKEY 5 -> RSApub 4, type 7, publicKeyID 8; material 1.
GeneratedWorld ==
    LET kinds == <<"RSA", "EVP_PKEY", "PyCapsule", "RSApub", "EVP_PKEY",
                   "PyCapsule", "PyStr", "PyBytes">>
        owns  == <<NULL, 1, 2, NULL, 4, 5, NULL, NULL>>
        mats  == <<1, NULL, NULL, 1, NULL, NULL, NULL, 1>>
    IN  [EmptyWorld EXCEPT
            !.rc    = [a \in Addr |-> IF a <= 8 THEN 1 ELSE 0],
            !.kind  = [a \in Addr |-> IF a <= 8 THEN kinds[a] ELSE "none"],
            !.child = [a \in Addr |-> IF a <= 8 THEN owns[a] ELSE NULL],
            !.mat   = [a \in Addr |-> IF a <= 8 THEN mats[a] ELSE NULL],
            !.next  = 9,
            !.key   = [ccn_data_private |-> 3, ccn_data_public |-> 6,
                       type |-> 7, publicKeyID |-> 8]]

ASSUME InitKey \in {"none", "generated"} /\ MaxAddr >= 8 /\ MaxCalls \in Nat

Init ==
    /\ heap = IF InitKey = "generated" THEN GeneratedWorld ELSE EmptyWorld
    /\ held = {}
    /\ g_seeded = (InitKey = "generated")
    /\ g_seed_file = (InitKey = "generated")
    /\ seedFileExists \in BOOLEAN
    /\ panicked = FALSE
    /\ calls = 0

Next ==
    \/ GenerateRSAKey
    \/ ReadKeyPemCmd
    \/ PutKeyPemCmd
    \/ PutKeyDerCmd
    \/ GetKeyPemCmd
    \/ GetKeyDerCmd
    \/ PrivateKeyDupCmd
    \/ GetASNPublicKeyCmd
    \/ BuildKeylocatorFromKeyCmd
    \/ Drop

Spec == Init /\ [][Next]_vars

-----------------------------------------------------------------------------
(* Properties                                                              *)

\* No object is freed while the Python program, the Key or a live owner
\* (capsule -> EVP_PKEY -> RSA) still refers to it: every exit path of
\* every command releases only references it took.
NoUseAfterFree ==
    LET refs == RefCount(heap, held)
    IN  \A a \in Addr : refs[a] > 0 => heap.rc[a] >= refs[a]

\* No object is released more often than it was referenced: no exit path
\* of a command releases a local that an earlier step already released.
NoDoubleFree == \A a \in Addr : heap.rc[a] >= 0

\* Every reference count is accounted for by a reference: on every exit
\* path each command releases what it allocated and does not hand out.
NoLeak == LET refs == RefCount(heap, held) IN \A a \in Addr : heap.rc[a] <= refs[a]

\* No command dereferences NULL, whatever the input bytes.
NoCrash == ~heap.crash

\* The Key's public half is the public half of its private key, and its
\* publicKeyID is the digest of that public key, whichever step of
\* generate_RSA_key failed.
KeyHalvesMatch ==
    LET k == heap.key
        CapsMat(c) == PKeyMat(heap, heap.child[c])
    IN  /\ k.ccn_data_private # NULL /\ k.ccn_data_public # NULL
            => CapsMat(k.ccn_data_private) = CapsMat(k.ccn_data_public)
        /\ k.publicKeyID # NULL /\ k.ccn_data_public # NULL
            => heap.mat[k.publicKeyID] = CapsMat(k.ccn_data_public)

=============================================================================
