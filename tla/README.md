# TLA+ models of the PyCCN C extension

This directory models the C part of PyCCN (`src/csrc/`) with TLA+ and checks
the models with TLC. The extension binds Python to an NDN/CCNx C library and
to OpenSSL. There are no threads and no network code in `src/`, so the hard
part is ownership. Every command runs a chain of library calls. Any of those
calls may fail, and each failure takes a different exit path. Each exit path
must release exactly what the command allocated and does not hand out.
Unit tests hardly ever reach those paths, because they need a library call
to fail at one particular point. A model checker reaches all of them.

## Inventory

| Component | Source | State it keeps | Operations | Interacts with |
|---|---|---|---|---|
| key lifecycle | `key_utils.c` | `g_seed_file`, `g_seeded` (PRNG seeding); per call: EVP_PKEY, RSA, BIO, malloc buffers, Python capsules and bytes | `seed_prng`, `save_seed`, `create_key_digest`, `create_public_key_digest`, `ndn_keypair`, `_pyndn_privatekey_dup`, `generate_key`, `read_key_pem`, `put_key_pem`, `put_key_der`, `get_key_pem_*`, `get_key_der_*`, `write_key_pem_*`, `release_key`, `build_keylocator_from_key`, `get_ASN_public_key`, `ndn_key_to_rsa` | OpenSSL (reference counts of EVP_PKEY and RSA), CPython (reference counts of objects), the capsule type of `objects.c` (not in src/) |
| module commands | `methods.c` | none | `_ndn_cmd_generate_RSA_key`, `_ndn_cmd_dump_charbuf`, `_ndn_cmd_new_charbuf` | writes four attributes of the Python `Key` object |
| Data marshalling | `methods_contentobject.c` | a content-object capsule's context: the cached parse `pco` and the name component index `comps` | `parse_Data`, `_pyndn_content_object_get/set_pco`, `get/set_comps`, `Data_obj_from_ndn(_buffer)`, `content_to_bytes/bytearray`, `encode_Data`, `digest_contentobject`, `content_matches_interest`, `verify_content`, `verify_signature` | the NDN library parser and verifier; Python code runs during `PyObject_CallObject` and `PyObject_SetAttrString` |
| utilities | `util.c` | none | `dump_charbuf`, `panic`, `print_object`, `_pyccn_unicode_to_utf8`, `_pyccn_open_file_handle`, `_pyccn_close_file_handle` | stdio, file descriptors |
| other methods | `methods_handle.h`, `methods_interest.h` | not given | prototypes only | not in src/ |

How the components interact: Python calls a command. The command calls
helpers in `key_utils.c` or the parse cache in `methods_contentobject.c`.
Those helpers call OpenSSL or the NDN library, and the results come back as
capsules, which are Python objects that own a C pointer and free it in their
destructor. A key capsule owns an `EVP_PKEY`, and that `EVP_PKEY` owns an
`RSA`. Each of the three has its own reference count. When a count reaches
zero, the object's destructor releases the object it owns, so the ownership
graph unwinds along these links.

The hard behaviours:
- partial failure: any allocation, `PyObject_SetAttrString`, or OpenSSL
  call can fail part way through a command;
- reference counting across three systems: Python references, OpenSSL
  `get1`/`set1` references, and `free` of plain buffers;
- a cached parse (`pco`) that is read first and used later, after calls
  that can run Python code or parse the object again;
- inputs that fail to parse (PEM, DER, Data), together with the code's
  retry of `PEM_read_PUBKEY` after error reason 108.

What makes each component correct:
- key lifecycle and commands:
  - no object is freed while anything still refers to it;
  - nothing is released twice;
  - on every exit path, everything allocated is released or handed out;
  - no NULL is dereferenced;
  - the Key object's private key, public key and publicKeyID belong together.
- Data marshalling:
  - the context's `pco` and `comps` are NULL or live;
  - a `pco` a handler holds stays live until its last use;
  - `pco` and `comps` come from the same parse;
  - every buffer export is released.

## Modules

- `Heap.tla` is the contract of CPython and OpenSSL that the binding relies
  on. It is not code of this repository. A *world* is a record that holds:
  - the reference count, kind, owned child and key material of each address;
  - the next free address;
  - the attributes of the Python `Key` object;
  - `fuel`, the number of library calls that will still succeed;
  - a crash flag.

  `TryNew` is a fallible allocation. `Incref` and `Decref` change reference
  counts, and `Decref` is RECURSIVE so that a release runs the destructor
  chain. A call fails exactly when the fuel is 0, and the failure uses the
  fuel up, so the calls after it succeed. Each command picks its fuel from
  `-1..n-1`, so one run explores "no call fails" and "only the k-th call
  fails" for every k, including the paths where the code calls on after an
  unchecked failure (`EVP_PKEY_new` after a failed `RSA_generate_key`).
- `KeyUtils.tla` models `key_utils.c` and `_ndn_cmd_generate_RSA_key`.
  - Each C function is one operator from a world to a result record, and each
    arm of its `CASE` is one exit path of the C code: `CreateKeyDigest`,
    `CreatePublicKeyDigest`, `KeyHalf`/`NdnKeypair` (the two halves of
    `ndn_keypair`), `PrivateKeyDup`, `GenerateKey`, `ReadKeyPem`, `PutKeyPem`,
    `PutKeyDer`, `GetKeyPem`, `GetKeyDer`.
  - `GenerateRSAKeyCmd` is the whole command: `generate_key`, then the four
    attribute stores, each followed by its release, then the error label.
  - The actions are the Python-level calls. `GenerateRSAKey` also models
    `seed_prng`/`save_seed`: a missing seed file name, or missing entropy,
    is a panic that stops the process.
  - Inputs are abstract. A PEM or DER input is one of `rsa_private`,
    `rsa_public`, `dsa_private` or `garbage`. A key is the address of the
    `EVP_PKEY` inside a capsule the program holds.
  - The Python wrappers in `methods_key.c` are not in `src/`. Their contract
    is modelled instead (`LoaderReturn`, `ExportReturn` and the `*Cmd`
    actions): on success they keep what the call returned, and on failure
    they release the out parameters that were already written.
  - `GetASNPublicKey` and `BuildKeylocatorFromKey` model the two exported
    helpers that no code under `src/` calls. Their `*Cmd` actions stand for a
    caller that keeps the buffer it gets back (`BufferReturn`).
- `MCKeyUtils.tla` names the sets of commands that each run enables.
- `Heap.tla` also carries, for content objects:
  - `wire`, the bytes an object holds, abstracted to one of three forms:
    `wire_ok` (a Data packet with a name), `wire_noname` (a Data packet whose
    name is missing) and `wire_bad` (bytes that do not parse);
  - `attrs`, the owned fields of an object. These are the Python attributes
    of `Data`, and the capsule context of a content object (`pco`, `comps`).
    `Decref` releases them when the owner dies.
  - `RefCount(w, held)`: the references each address should have, counted
    once per state from key attributes, the program's variables, children and
    fields.
  - `Bind(r, Rest(_))`: chains one call's result into the next step. It is
    written with `LAMBDA` so that TLC evaluates each result once.
- `ContentObject.tla` models `methods_contentobject.c`.
  - State: `heap`, `held` (the objects the Python program holds) and `calls`.
  - The parse cache: `ParseData` is `parse_Data`. It frees the old `pco`,
    destroys `comps`, and then allocates and parses. Its error label,
    `ParseError`, releases both and sets both to NULL. `GetPco` and
    `GetComps` parse only when the context is empty.
  - Handlers, one operator per C function, one `CASE` arm or `Bind` step per
    exit path: `ContentFromNdnParsed`, `NameObjFromNdnParsed`,
    `DataObjFromNdn` with `AddPart` (the signature and signed-info blocks),
    `DataObjFromNdnBuffer`, `DigestContentObject`, `ContentMatchesInterest`,
    `VerifyContent`, `VerifySignature`, `EncodeData`, `ContentToBytes` and
    `ContentToBytearray`. The conversions follow the Python 3 branch of the
    `#if`; `EncodeNumber` is their shared number branch.
  - From `methods.c`: `CmdNewCharbuf` (`_ndn_cmd_new_charbuf`) and
    `CmdDumpCharbuf` (`_ndn_cmd_dump_charbuf`). From `util.c`:
    `UnicodeToUtf8`.
  - `NewCharbuf` and `CharbufAppend` stand for `objects.c` and the NDN
    library. The first makes a `Buf` and a capsule that owns it, and the
    second sets the bytes. Both may fail.
  - Each `*Cmd` action is one Python call of a command on objects the program
    holds, with the fuel picked nondeterministically.
- `ParseCache.tla` is the abstract specification of the cache. A live content
  object has no parse or one parse, and it keeps that parse until it dies.
  `ContentObject` is shown to implement it: `alive` is mapped to the live
  `CONTENT_OBJECT` capsules and `parse[c]` to their context's `pco`
  (`ParseCacheRefined`).
- `MCContentObject.tla` gives the initial objects and the command sets:
  - three content objects, one per wire form;
  - the three Python values a program may pass as a buffer: bytes, a
    bytearray, and a str;
  - one value of each kind the conversions tell apart (None, a number, str,
    bytes, bytearray, and a content object, which is none of them).
- `FileHandle.tla` models `_pyccn_open_file_handle` and
  `_pyccn_close_file_handle` of `util.c`.
  - State: `fdtab`, the process descriptor table (number -> open file
    description, named by the Python file that opened it); `pyfd`, each
    Python file's descriptor; `hfd`, each FILE handle's descriptor;
    `target`, the description each handle was opened on (a history
    variable, read only by properties).
  - `AsFileDescriptor`, `Dup` (lowest free number; EBADF, EMFILE),
    `OpenFileHandle` (with fdopen failing on a mode the descriptor does not
    allow, or on ENOMEM) and `CloseOnError` follow the function's lines.
    `CloseFileHandle` is `fclose`.
  - `OpenCmd`/`CloseCmd` stand for the callers in `methods_key.c` (not under
    `src/`). `PyOpen`/`PyClose` are the Python program opening and closing
    its own files between calls.
  - `FO == INSTANCE FileOwnership WITH ...` maps the state to the abstract
    one: a Python file is open when it has a descriptor, and a handle is
    bound to the description its descriptor is open on.
- `FileOwnership.tla` is what the handles promise: each handle is an owner
  of its own, bound to a file some owner had open when it was made, and
  unbound only by its own close; Python opening and closing its files never
  changes a handle. `FileOwnershipRefined` checks that `FileHandle`
  implements it.
- `MCFileHandle.tla`: stdin (read) at 0, stdout (write) at 1, a log file not
  yet open, four descriptors and three FILE structures.
- The program keeps one reference per object. When a command returns an
  object the program already holds (None, or the bytes given to
  `content_to_bytes`), `Return` releases the second reference at once.

## Runs

| Run | Expect | Bounds | What it shows |
|---|---|---|---|
| `loaders_memory_safety` | pass | 2 calls, 26 objects, fresh Key | `NoUseAfterFree`: any two of generate/read/put_pem/put_der, with any one library call failing, never free a referenced object |
| `export_memory_safety` | pass | 4 calls, 16 objects, generated Key | `NoUseAfterFree` for PEM/DER/ASN export, keylocator building, `_pyndn_privatekey_dup` and releases in any order |
| `export_no_leak` | pass | 4 calls, 16 objects, generated Key | `NoLeak`: `get_key_pem_*` and `_pyndn_privatekey_dup` release everything on every exit path |
| `generate_double_free` | violation | 1 call | `NoDoubleFree`: the digest is released twice when storing `publicKeyID` fails |
| `generate_partial_update` | violation | 1 call, generated Key | `KeyHalvesMatch`: new private key beside old public key |
| `key_leaks` | violation | 1 call, 21 objects, generated Key | `NoLeak`: `generate_RSA_key`, `read_key_pem`, `get_key_der_*` and `get_ASN_public_key` each leak (TLC prints one counterexample; restrict `Ops` to one command to see its own) |
| `key_null_deref` | violation | 1 call, generated Key | `NoCrash`: `put_key_der` passes NULL to `ndn_keypair`; `build_keylocator_from_key` appends to an unchecked NULL charbuf |
| `content_memory_safety` | pass | 2 calls, 39 addresses, all content commands | `NoUseAfterFree`, `NoCrash`, `ParseCacheSound` (pco and comps are NULL together; a pco is the parse of the object's own bytes and never of bytes that fail to parse), `ParseCacheRefined` |
| `data_no_leak` | pass | 2 calls, 32 addresses, commands on capsules | `NoLeak`: `Data_obj_from_ndn` and the verify, match, digest and comps paths release every temporary on every exit path |
| `convert_ownership` | pass | 4 calls, 19 addresses, 77732 states | `NoUseAfterFree`, `NoLeak` for `content_to_bytes`/`content_to_bytearray`, `new_charbuf`, `dump_charbuf` and `unicode_to_utf8`, including the paths that return their argument or drop the intermediate str |
| `buffer_export_leak` | violation | 1 call | `NoLeak`: `Data_obj_from_ndn_buffer` never releases its buffer export |
| `fd_ownership` | pass | 4 descriptors, 3 FILEs, unbounded steps, 8101 states | `NoFdLeak` (every open descriptor has an owner), `HandleKeepsTarget` (a handle and a Python file never share a descriptor, so closing or reopening one never redirects the other), `FileOwnershipRefined` (the handles implement `FileOwnership`; a close that left the FILE allocated on a closed number would let a later Python `open()` re-bind the handle) |

The bounds are enough for these reasons:
- Every library call of a command gets its own fuel value, so one call
  already covers every exit path of that command.
- Two calls cover a second load or generate over the result of the first,
  which is where attribute replacement releases the old key.
- Four export calls cover duplicating a key, releasing either the copy or
  the original first, and exporting the survivor after that release, or
  a duplicate of a duplicate. The address bound, 8 objects of the Key
  plus 2 per call, is the most four commands allocate.
- For content objects, two calls cover a handler that finds the cache
  already filled (or left empty by a failed parse) by the first call. The
  three wire forms reach every outcome of `ndn_parse_Data` and the missing
  name check of `Name_obj_from_ndn_parsed`.
- The address bound is set to the most the run's commands allocate
  together (two for content objects, four conversions at 3 objects each
  over the 7 initial values), so `CanRun` never cuts off a command the run
  enables. Four conversions let a result of one conversion be converted
  again, released, and its argument converted once more.
- For file handles, four descriptors with two held by stdin and stdout let
  the table fill up (EMFILE) with the log file open and one handle held, or
  with three handles, and let Python close stdin so that `dup` returns
  descriptor 0, the boundary of the `fd > -1` check. Three FILE structures
  let a handle be made from another handle's descriptor number while one on
  a Python file is held, and let fdopen run out (ENOMEM). The state
  space is finite, so no step bound is needed.

`fd_ownership` checks deadlock: `OpenCmd` with a bad argument is always
enabled. Elsewhere `CHECK_DEADLOCK FALSE` is used because a Python program may stop calling the
module at any point. The bound on calls ends every behaviour.

No fairness is assumed and no liveness is stated. The code is synchronous
and every command returns in one step. Everything that might "eventually"
happen, such as a handle being closed or an object being dropped, is up to
the Python program. That is a user, and nothing obliges it to act, so weak
fairness on its actions would not be justified by the code.

## Findings

Each violation run is a bug in the code (see `findings` in PROJECT.json):
- `methods.c:64`: the digest is released twice (again at line 70).
- `methods.c:53`: the Key is updated in part and not restored.
- `key_utils.c`: keys, RSA references, digest buffers and DER buffers leak.
  The sources are `read_key_pem`, `put_key_*`, `ndn_keypair` (get1
  references that are never released), `create_public_key_digest` and
  `get_key_der_*` (on success and when the bytes object cannot be made).
- `key_utils.c:304`: `generate_key` calls `EVP_PKEY_new` even when
  `RSA_generate_key` failed, and frees neither on its error path, so the
  one that succeeded leaks.
- `methods.c:43`: when the digest fails inside `generate_key`, the two key
  capsules already written to the out parameters are never released.
- `key_utils.c:612`: `put_key_der` dereferences NULL when the DER is
  malformed.
- `key_utils.c:666`: `get_ASN_public_key` checks neither `calloc` nor
  `i2d_PUBKEY`. When `calloc` fails while OpenSSL's smaller allocation
  succeeds, `i2d_PUBKEY` allocates a buffer of its own into the local
  `pub`, and that buffer is lost. The function still returns 0, with a NULL
  result. (A key `i2d_PUBKEY` cannot encode fails both calls and leaks
  nothing.)
- `key_utils.c:648`: `build_keylocator_from_key` appends to
  `ndn_charbuf_create()`'s result without a NULL check.
- `methods_contentobject.c:243`: `Data_obj_from_ndn_buffer` calls
  `PyObject_GetBuffer` and never `PyBuffer_Release`. The bytes object passed
  in is never freed, even on success. When the append fails, the new capsule
  leaks as well.

## What is not modelled, and why

- Byte contents, PEM/DER encodings, digests and signatures. They are kept
  only as key material identities, which is enough to tell two key pairs
  apart.
- `release_key`, `release_keypair`, `ndn_key_to_rsa`: they free or hand out
  raw pointers that no caller under `src/` owns. Which references a caller
  holds cannot be read from the code.
- `util.c` output helpers (`dump_charbuf`, `panic`, `print_object`): stdio
  output and abort only.
- `write_key_pem_private`/`_public`: they write to a FILE and change no
  reference count or descriptor. Where their data lands is the file the
  handle's descriptor is open on, which `HandleKeepsTarget` already fixes.
- Type invariants: the shape of every variable follows from the
  definitions, so no run checks one. The runs spend their properties on
  reference counts, descriptors and the parse cache.
- `_pyndn_content_object_set_pco`/`set_comps`: nothing in the repository
  calls them, and `methods_contentobject.h` declares them under another
  name (`_ndn_content_object_set_*`) that nothing defines. Which parse a
  caller would install, and whether a handler still uses the old one,
  cannot be read from the code. With no caller, they are not a hazard of
  this program and are not listed as one.
- Python code that runs during `PyObject_SetAttrString` or
  `PyObject_CallObject` while a handler holds `pco`. A handler is one atomic
  step. A re-parse inside the handler is covered: `Name_obj_from_ndn_parsed`
  calls `get_pco` again. A Python callback that calls another command on the
  same object is not covered. This is sound as far as `src/` goes, because
  `set_pco` is the only way to replace a filled cache, and `get_pco` never
  re-parses a filled one.
- The handle, interest, name and signature methods. Only their prototypes
  are in `src/`.

## Plan

1. Done: `Heap`, `KeyUtils` and their runs.
2. Done: `ContentObject` and `ParseCache`, with the conversions, the charbuf
   commands of `methods.c` and `unicode_to_utf8`.
3. Done: `FileHandle`, the descriptor ownership of `util.c`, shown to
   implement `FileOwnership`.
4. Not done, and not possible from this source: a refinement of an abstract
   key store (the Key holds no key or one whole key pair) for the loaders.
   Their attribute stores are in `methods_key.c`, which is not under
   `src/`, so the model would be written from guesses about that code.
   For the one store that is in `src/`, `_ndn_cmd_generate_RSA_key`,
   `generate_partial_update` already shows the property fails.
5. The remaining hazards without a property depend on code outside `src/`:
   `Key_to_ndn_private` and `NDNObject_New`.
   The seed-file hazard has none because `seed_prng` always names the file
   or panics before `save_seed` runs, so any property about it would hold
   whatever the code did.
6. Liveness stays out: the code is synchronous and every "eventually" is
   up to the Python program, so no fairness is justified.
