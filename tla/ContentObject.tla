---------------------------- MODULE ContentObject ----------------------------
(***************************************************************************)
(* The content-object (Data) marshalling of src/csrc/methods_contentobject.c *)
(*                                                                         *)
(* A content object is a CONTENT_OBJECT capsule that owns the wire bytes   *)
(* (a charbuf) and a context holding a cached parse: pco, the parsed       *)
(* offsets, and comps, the name component index.  Both are filled by       *)
(* parse_Data the first time a command asks for them, and are released by  *)
(* the capsule's destructor.  The context is modelled as the owned fields  *)
(* "pco" and "comps" of the capsule (module Heap).                         *)
(*                                                                         *)
(* As in KeyUtils, each C function is an operator from a world to a result *)
(* and each Python-level command is one action applying the whole          *)
(* function, with the fuel choosing which fallible call fails.            *)
(***************************************************************************)
EXTENDS Heap

CONSTANTS
    Ops,        \* the commands the Python program may call in this run
    InitObjs,   \* the objects that exist at the start, see InitWorld
    MaxCalls    \* number of commands a behaviour may make

VARIABLES
    heap,       \* the world of module Heap, fuel = -1 between commands
    held,       \* objects the Python program holds a reference to
    calls       \* commands made so far (bounded by MaxCalls)

vars == <<heap, held, calls>>

Ctx(w, c, f) == w.attrs[c][f]
SetCtx(w, c, f, v) == [w EXCEPT !.attrs[c][f] = v]

\* A read of C memory through the pointer a: reading freed memory is
\* undefined behaviour, recorded as a crash.
Use(w, a) == IF Live(w, a) THEN w ELSE [w EXCEPT !.crash = TRUE]

\* NDNObject_New_charbuf(type, &cb): a new capsule of the given type owning
\* a new, empty charbuf (a content object's context starts with no parse).
NewCharbuf(w, type) ==
    IF Fails(w) THEN [w |-> Call(w), a |-> NULL]
    ELSE [w |-> Alloc(Alloc(Call(w), "Buf", NULL, NULL), type, w.next, NULL),
          a |-> w.next + 1]

\* ndn_charbuf_append of bytes m to the charbuf of capsule cap.
CharbufAppend(w, cap, m) ==
    IF Fails(w) THEN [w |-> Call(w), ok |-> FALSE]
    ELSE [w |-> [Call(w) EXCEPT !.wire[w.child[cap]] = m], ok |-> TRUE]

-----------------------------------------------------------------------------
(* The parse cache                                                         *)

\* The error label of parse_Data: free and clear pco, destroy comps.
ParseError(w, c) ==
    SetCtx(SetCtx(Decref(Decref(w, Ctx(w, c, "pco")), Ctx(w, c, "comps")),
                  c, "pco", NULL), c, "comps", NULL)

\* parse_Data without the check of ndn_parse_Data's result.
ParseDataUnchecked(w, c) ==
    Bind(Decref(w, Ctx(w, c, "pco")), LAMBDA w1:
    Bind(SetCtx(Decref(w1, Ctx(w, c, "comps")), c, "comps", NULL), LAMBDA w2:
    Bind(TryNew(w2, "Pco", NULL, NULL), LAMBDA p:
    Bind(SetCtx(p.w, c, "pco", p.a), LAMBDA w3:
    Bind(TryNew(w3, "IndexBuf", NULL, NULL), LAMBDA x:
    Bind(SetCtx(x.w, c, "comps", x.a), LAMBDA w4:
        CASE p.a = NULL -> [w |-> ParseError(w3, c), ok |-> FALSE]
          [] x.a = NULL -> [w |-> ParseError(w4, c), ok |-> FALSE]
          [] OTHER -> [w |-> [Call(w4) EXCEPT !.wire[p.a] = w.wire[w.child[c]]],
                       ok |-> TRUE]))))))

\* parse_Data: drop the old parse, then calloc a pco, create comps and
\* parse the capsule's bytes into them.  ndn_parse_Data may fail on memory
\* (it fills comps) or because the bytes are not a content object.
ParseData(w, c) ==
    Bind(Decref(w, Ctx(w, c, "pco")), LAMBDA w1:              \* free(context->pco)
    Bind(SetCtx(Decref(w1, Ctx(w, c, "comps")), c, "comps", NULL), LAMBDA w2:
    Bind(TryNew(w2, "Pco", NULL, NULL), LAMBDA p:               \* calloc
    Bind(SetCtx(p.w, c, "pco", p.a), LAMBDA w3:
    Bind(TryNew(w3, "IndexBuf", NULL, NULL), LAMBDA x:          \* ndn_indexbuf_create
    Bind(SetCtx(x.w, c, "comps", x.a), LAMBDA w4:
    LET bytes == w.wire[w.child[c]] IN
        CASE p.a = NULL -> [w |-> ParseError(w3, c), ok |-> FALSE]
          [] x.a = NULL -> [w |-> ParseError(w4, c), ok |-> FALSE]
          [] Fails(w4) \/ bytes = "wire_bad" ->                 \* ndn_parse_Data < 0
                [w |-> ParseError(Call(w4), c), ok |-> FALSE]
          [] OTHER -> [w |-> [Call(w4) EXCEPT !.wire[p.a] = bytes], ok |-> TRUE]))))))

\* get_pco without its cache check: it parses again on every call.
GetPcoUncached(w, c) ==
    Bind(ParseData(w, c), LAMBDA r:
        [w |-> r.w, a |-> IF r.ok THEN Ctx(r.w, c, "pco") ELSE NULL])

\* _pyndn_content_object_get_pco: the cached parse, else a new one.
GetPco(w, c) ==
    IF Ctx(w, c, "pco") # NULL THEN [w |-> w, a |-> Ctx(w, c, "pco")]
    ELSE Bind(ParseData(w, c), LAMBDA r:
         [w |-> r.w, a |-> IF r.ok THEN Ctx(r.w, c, "pco") ELSE NULL])

\* get_comps without its cache check: it parses again on every call.
GetCompsUncached(w, c) ==
    Bind(ParseData(w, c), LAMBDA r:
        [w |-> r.w, a |-> IF r.ok THEN Ctx(r.w, c, "comps") ELSE NULL])

\* _pyndn_content_object_get_comps: the cached index, else a new parse.
GetComps(w, c) ==
    IF Ctx(w, c, "comps") # NULL THEN [w |-> w, a |-> Ctx(w, c, "comps")]
    ELSE Bind(ParseData(w, c), LAMBDA r:
         [w |-> r.w, a |-> IF r.ok THEN Ctx(r.w, c, "comps") ELSE NULL])

-----------------------------------------------------------------------------
(* Building a Data object from a content object                            *)

\* PyObject_SetAttrString(o, f, v) on a Python object: v gains a reference,
\* the old value loses one; on failure nothing changes.
SetAttrOn(w, o, f, v) ==
    IF Fails(w) THEN [w |-> Call(w), ok |-> FALSE]
    ELSE [w |-> Decref([Incref(Call(w), v) EXCEPT !.attrs[o][f] = v], w.attrs[o][f]),
          ok |-> TRUE]

\* Content_from_ndn_parsed: the content bytes located through pco.
ContentFromNdnParsed(w, pco) ==
    Bind(TryNew(Use(w, pco), "PyBytes", NULL, NULL), LAMBDA py:  \* ndn_content_get_value,
        IF py.a = NULL THEN Fail(py.w) ELSE Ok(py.w, py.a))       \* PyBytes_FromStringAndSize

\* Name_obj_from_ndn_parsed releasing the Name it returns instead of the
\* NAME capsule.
NameObjFromNdnParsedWrongDecref(w, c) ==
    Bind(GetPco(w, c), LAMBDA g:
    Bind(Use(g.w, g.a), LAMBDA w1:
    Bind(NewCharbuf(w1, "NAME"), LAMBDA n:
    Bind(CharbufAppend(n.w, n.a, NULL), LAMBDA ap:
    Bind(TryNew(ap.w, "Name", NULL, NULL), LAMBDA nm:
    Bind(Decref(nm.w, nm.a), LAMBDA w2:
        CASE g.a = NULL                  -> Fail(g.w)
          [] w1.wire[g.a] = "wire_noname" -> Fail(w1)
          [] n.a = NULL                  -> Fail(n.w)
          [] ~ap.ok                      -> Fail(Decref(ap.w, n.a))
          [] nm.a = NULL                 -> Fail(w2)
          [] OTHER                       -> Ok(w2, nm.a)))))))

\* Name_obj_from_ndn_parsed: a Name object built from a NAME capsule holding
\* a copy of the name bytes; the capsule is released afterwards.
NameObjFromNdnParsed(w, c) ==
    Bind(GetPco(w, c), LAMBDA g:
    Bind(Use(g.w, g.a), LAMBDA w1:                        \* pco->name_ncomps
    Bind(NewCharbuf(w1, "NAME"), LAMBDA n:                \* NDNObject_New_charbuf(NAME)
    Bind(CharbufAppend(n.w, n.a, NULL), LAMBDA ap:
    Bind(TryNew(ap.w, "Name", NULL, NULL), LAMBDA nm:     \* Name_obj_from_ndn
    Bind(Decref(nm.w, n.a), LAMBDA w2:                    \* Py_DECREF(py_ndn_name)
        CASE g.a = NULL                  -> Fail(g.w)
          [] w1.wire[g.a] = "wire_noname" -> Fail(w1)
          [] n.a = NULL                  -> Fail(n.w)
          [] ~ap.ok                      -> Fail(Decref(ap.w, n.a))
          [] nm.a = NULL                 -> Fail(w2)
          [] OTHER                       -> Ok(w2, nm.a)))))))

\* The Signature block without the Py_DECREF of the capsule.
AddPartNoCapsuleRelease(w, d, pco, type, kind, f) ==
    Bind(NewCharbuf(w, type), LAMBDA s:
    Bind(CharbufAppend(Use(s.w, pco), s.a, NULL), LAMBDA ap:
    Bind(TryNew(ap.w, kind, NULL, NULL), LAMBDA o:
    Bind(SetAttrOn(o.w, d, f, o.a), LAMBDA st:
        CASE s.a = NULL -> [w |-> s.w, ok |-> FALSE]
          [] ~ap.ok     -> [w |-> Decref(ap.w, s.a), ok |-> FALSE]
          [] o.a = NULL -> [w |-> o.w, ok |-> FALSE]
          [] OTHER      -> [w |-> Decref(st.w, o.a), ok |-> st.ok]))))

\* The Signature (or SignedInfo) block of Data_obj_from_ndn: a capsule of
\* the given type holding a copy of the bytes pco locates, turned into a
\* Python object of the given kind and stored as attribute f of d.
AddPart(w, d, pco, type, kind, f) ==
    Bind(NewCharbuf(w, type), LAMBDA s:                   \* NDNObject_New_charbuf
    Bind(CharbufAppend(Use(s.w, pco), s.a, NULL), LAMBDA ap:
    Bind(TryNew(ap.w, kind, NULL, NULL), LAMBDA o:        \* *_obj_from_ndn
    Bind(Decref(o.w, s.a), LAMBDA w1:                     \* Py_DECREF(py_signature)
    Bind(SetAttrOn(w1, d, f, o.a), LAMBDA st:
        CASE s.a = NULL -> [w |-> s.w, ok |-> FALSE]
          [] ~ap.ok     -> [w |-> Decref(ap.w, s.a), ok |-> FALSE]
          [] o.a = NULL -> [w |-> w1, ok |-> FALSE]
          [] OTHER      -> [w |-> Decref(st.w, o.a), ok |-> st.ok])))))  \* Py_DECREF(py_o)

\* Data_obj_from_ndn: a new Data object with the name, content, signature,
\* signedInfo, digestAlgorithm (None) and ndn_data (the capsule itself)
\* attributes; the error label releases the Data object.
DataObjFromNdn(w, c) ==
    IF w.kind[c] # "CONTENT_OBJECT" THEN Fail(w)          \* NDNObject_ReqType
    ELSE
    Bind(GetPco(w, c), LAMBDA g:
    Bind(TryNew(g.w, "Data", NULL, NULL), LAMBDA d:       \* PyObject_CallObject(g_type_Data)
    Bind(NameObjFromNdnParsed(d.w, c), LAMBDA nm:
    Bind(SetAttrOn(nm.w, d.a, "name", nm.out), LAMBDA s1:
    Bind(Decref(s1.w, nm.out), LAMBDA w1:
    Bind(ContentFromNdnParsed(w1, g.a), LAMBDA ct:
    Bind(SetAttrOn(ct.w, d.a, "content", ct.out), LAMBDA s2:
    Bind(Decref(s2.w, ct.out), LAMBDA w2:
    Bind(AddPart(w2, d.a, g.a, "SIGNATURE", "Signature", "signature"), LAMBDA sg:
    Bind(AddPart(sg.w, d.a, g.a, "SIGNED_INFO", "SignedInfo", "signedInfo"), LAMBDA si:
    Bind(Call(si.w), LAMBDA w3:                           \* digestAlgorithm = None
    Bind(SetAttrOn(w3, d.a, "ndn_data", c), LAMBDA s3:
    LET Error(x) == Fail(Decref(x, d.a)) IN               \* Py_XDECREF(py_obj_Data)
        CASE g.a = NULL  -> Fail(g.w)
          [] d.a = NULL  -> Fail(d.w)
          [] ~nm.ok      -> Error(nm.w)
          [] ~s1.ok      -> Error(w1)
          [] ~ct.ok      -> Error(ct.w)
          [] ~s2.ok      -> Error(w2)
          [] ~sg.ok      -> Error(sg.w)
          [] ~si.ok      -> Error(si.w)
          [] Fails(si.w) -> Error(w3)
          [] ~s3.ok      -> Error(s3.w)
          [] OTHER       -> Ok(s3.w, d.a)))))))))))))

\* Data_obj_from_ndn_buffer: the bytes of a Python buffer copied into a new
\* content object, then Data_obj_from_ndn of it.  PyObject_GetBuffer makes
\* the view hold a reference to the buffer object (view.obj); the code never
\* calls PyBuffer_Release.
DataObjFromNdnBuffer(w, b) ==
    IF w.kind[b] \notin {"PyBytes", "PyByteArray"} THEN Fail(w)  \* PyObject_CheckBuffer
    ELSE
    Bind(Incref(w, b), LAMBDA w1:                         \* PyObject_GetBuffer
    Bind(NewCharbuf(w1, "CONTENT_OBJECT"), LAMBDA p:
    Bind(CharbufAppend(p.w, p.a, w.wire[b]), LAMBDA ap:
    Bind(DataObjFromNdn(ap.w, p.a), LAMBDA o:
    Bind(Decref(o.w, p.a), LAMBDA w2:                     \* Py_CLEAR(py_data)
        CASE p.a = NULL -> Fail(p.w)
          [] ~ap.ok     -> Fail(ap.w)
          [] ~o.ok      -> Fail(w2)
          [] OTHER      -> Ok(w2, o.out))))))

-----------------------------------------------------------------------------
(* The other commands that read the parse                                  *)

\* _pyndn_cmd_digest_contentobject: the digest, after checking that the
\* parse describes bytes of the capsule's length.
DigestContentObject(w, c) ==
    IF w.kind[c] # "CONTENT_OBJECT" THEN Fail(w)          \* NDNObject_IsValid
    ELSE
    Bind(GetPco(w, c), LAMBDA g:
    Bind(Use(g.w, g.a), LAMBDA w1:                        \* pco->offset[NDN_PCO_E], digest
    Bind(TryNew(w1, "PyBytes", NULL, NULL), LAMBDA py:    \* PyBytes_FromStringAndSize
        CASE g.a = NULL                         -> Fail(g.w)
          [] w1.wire[g.a] # w.wire[w.child[c]]  -> Fail(w1)
          [] py.a = NULL                        -> Fail(py.w)
          [] OTHER                              -> Ok(py.w, py.a))))

\* _pyndn_cmd_content_matches_interest: argOk is whether the interest
\* argument is an INTEREST capsule; _pyndn_interest_get_pi may fail.
ContentMatchesInterest(w, c, argOk) ==
    IF w.kind[c] # "CONTENT_OBJECT" \/ ~argOk THEN Fail(w)
    ELSE
    Bind(GetPco(w, c), LAMBDA g:
        CASE g.a = NULL     -> Fail(g.w)
          [] Fails(g.w)     -> Fail(g.w)                  \* _pyndn_interest_get_pi
          [] OTHER          -> Ok(Use(Call(g.w), g.a), NULL))  \* ndn_content_matches_interest

\* _pyndn_cmd_verify_content: argOk is whether the handle argument is a
\* HANDLE capsule.  The length assertion aborts on a parse of other bytes.
VerifyContent(w, c, argOk) ==
    IF ~argOk \/ w.kind[c] # "CONTENT_OBJECT" THEN Fail(w)
    ELSE
    Bind(GetPco(w, c), LAMBDA g:
        CASE g.a = NULL -> Fail(g.w)
          [] OTHER ->
             Bind(Use(g.w, g.a), LAMBDA w1:
                 IF w1.wire[g.a] # w.wire[w.child[c]]      \* assert(length == offset[E])
                 THEN Fail([w1 EXCEPT !.crash = TRUE])
                 ELSE Ok(w1, NULL)))                       \* ndn_verify_content

\* _pyndn_cmd_verify_signature: argOk is whether the key argument is a
\* PKEY_PUB capsule.
VerifySignature(w, c, argOk) ==
    IF w.kind[c] # "CONTENT_OBJECT" \/ ~argOk THEN Fail(w)
    ELSE
    Bind(GetPco(w, c), LAMBDA g:
        IF g.a = NULL THEN Fail(g.w)
        ELSE Ok(Use(g.w, g.a), NULL))                     \* ndn_verify_signature

\* _pyndn_cmd_encode_Data: argsOk is whether the five arguments pass the
\* type checks, named whether the Name has components.  A capsule that
\* NDNObject_New fails to make does not own the encoding.
EncodeData(w, argsOk, named) ==
    IF ~argsOk THEN Fail(w)
    ELSE
    Bind(TryNew(w, "Buf", NULL, NULL), LAMBDA co:         \* ndn_charbuf_create
    Bind([Call(co.w) EXCEPT !.wire[co.a] =                \* ndn_encode_ContentObject
             IF named THEN "wire_ok" ELSE "wire_noname"], LAMBDA w1:
    Bind(TryNew(w1, "CONTENT_OBJECT", co.a, NULL), LAMBDA cap:  \* NDNObject_New
        CASE co.a = NULL    -> Fail(co.w)
          [] Fails(co.w)    -> Fail(Decref(co.w, co.a))   \* ndn_charbuf_destroy
          [] cap.a = NULL   -> Fail(cap.w)
          [] OTHER          -> Ok(cap.w, cap.a))))

\* The kinds that export the buffer protocol.
BufferKinds == {"PyBytes", "PyByteArray"}

\* A fallible new object of kind k holding a copy of the bytes of a
\* (PyObject_Bytes of a bytearray, PyByteArray_FromObject of a buffer).
NewCopy(w, k, a) ==
    Bind(TryNew(w, k, NULL, NULL), LAMBDA r:
        IF r.a = NULL THEN r ELSE [r EXCEPT !.w.wire[r.a] = w.wire[a]])

\* The number branch without the Py_DECREF of the str.
EncodeNumberNoRelease(w) ==
    Bind(TryNew(w, "PyStr", NULL, NULL), LAMBDA o:
        IF o.a = NULL THEN o
        ELSE Bind(TryNew(o.w, "PyBytes", NULL, NULL), LAMBDA s:
                  [w |-> s.w, a |-> s.a]))

\* The number branch of content_to_bytes/bytearray (Python 3 build):
\* PyObject_Str, then PyUnicode_EncodeUTF8 of it, then Py_DECREF of the
\* str.  The bytes, or NULL.
EncodeNumber(w) ==
    Bind(TryNew(w, "PyStr", NULL, NULL), LAMBDA o:
        IF o.a = NULL THEN o
        ELSE Bind(TryNew(o.w, "PyBytes", NULL, NULL), LAMBDA s:
                  [w |-> Decref(s.w, o.a), a |-> s.a]))

\* _pyndn_cmd_content_to_bytes.  PyObject_Bytes returns a bytes argument
\* itself, copies a bytearray and raises TypeError for the rest.
ContentToBytes(w, a) ==
    LET k == w.kind[a]
        res(r) == IF r.a = NULL THEN Fail(r.w) ELSE Ok(r.w, r.a)
    IN  CASE k = "PyNone"      -> Ok(Incref(w, a), a)       \* Py_RETURN_NONE
          [] k = "PyNum"       -> res(EncodeNumber(w))
          [] k = "PyStr"       -> res(TryNew(w, "PyBytes", NULL, NULL))
          [] k = "PyBytes"     -> Ok(Incref(w, a), a)
          [] k = "PyByteArray" -> res(NewCopy(w, "PyBytes", a))
          [] OTHER             -> Fail(w)

\* The str of content_to_bytearray, taking arg itself without a reference.
BytearrayStrNoIncref(w, a) ==
    CASE w.kind[a] = "PyNum" -> EncodeNumber(w)
      [] w.kind[a] = "PyStr" -> TryNew(w, "PyBytes", NULL, NULL)
      [] OTHER               -> [w |-> w, a |-> a]

\* The str of content_to_bytearray: the UTF-8 bytes of a number or a str,
\* and otherwise a new reference to arg.
BytearrayStr(w, a) ==
    CASE w.kind[a] = "PyNum" -> EncodeNumber(w)
      [] w.kind[a] = "PyStr" -> TryNew(w, "PyBytes", NULL, NULL)
      [] OTHER               -> [w |-> Incref(w, a), a |-> a]

\* _pyndn_cmd_content_to_bytearray.
ContentToBytearray(w, a) ==
    IF w.kind[a] = "PyNone" THEN Ok(Incref(w, a), a)
    ELSE
    Bind(BytearrayStr(w, a), LAMBDA str:
        IF str.a = NULL THEN Fail(str.w)
        ELSE
        Bind(IF str.w.kind[str.a] \in BufferKinds
             THEN NewCopy(str.w, "PyByteArray", str.a)    \* PyByteArray_FromObject
             ELSE [w |-> str.w, a |-> NULL], LAMBDA r:      \* TypeError
        LET w1 == Decref(r.w, str.a)
        IN  IF r.a = NULL THEN Fail(w1) ELSE Ok(w1, r.a)))

\* The capsule types whose pointer is a charbuf (types[] of dump_charbuf).
CharbufTypes == {"CONTENT_OBJECT", "EXCLUSION_FILTER", "INTEREST",
                 "KEY_LOCATOR", "NAME", "SIGNATURE", "SIGNED_INFO"}

\* _ndn_cmd_dump_charbuf (methods.c): the bytes of any charbuf capsule.
CmdDumpCharbuf(w, c) ==
    IF w.kind[c] \notin CharbufTypes THEN Fail(w)         \* TypeError
    ELSE Bind(NewCopy(Use(w, w.child[c]), "PyBytes", w.child[c]), LAMBDA r:
             IF r.a = NULL THEN Fail(r.w) ELSE Ok(r.w, r.a))

\* _ndn_cmd_new_charbuf(type, data) (methods.c): typeOk is whether type is
\* "KeyLocator_ccn_data"; "ss#" takes the bytes of a str or bytes o.
CmdNewCharbuf(w, typeOk, o) ==
    IF w.kind[o] \notin {"PyStr", "PyBytes"} \/ ~typeOk THEN Fail(w)
    ELSE
    Bind(NewCharbuf(w, "KEY_LOCATOR"), LAMBDA r:
    Bind(CharbufAppend(r.w, r.a, w.wire[o]), LAMBDA ap:
        CASE r.a = NULL -> Fail(r.w)
          [] ~ap.ok     -> Fail(Decref(ap.w, r.a))            \* Py_XDECREF(result)
          [] OTHER      -> Ok(ap.w, r.a)))

\* _pyccn_unicode_to_utf8 (util.c, Python 3 build) of a str s: a new
\* reference to its UTF-8 bytes, into which *buffer points.
\* PyBytes_AsStringAndSize cannot fail on a bytes object with a length
\* pointer, so the Py_DECREF on its error path is never reached.
UnicodeToUtf8(w, s) ==
    Bind(TryNew(w, "PyBytes", NULL, NULL), LAMBDA u:
        IF u.a = NULL THEN Fail(u.w) ELSE Ok(u.w, u.a))

-----------------------------------------------------------------------------
(* The Python program                                                      *)

Running == ~heap.crash

\* A command that may allocate n objects fits in the bounds.
CanRun(n) == /\ Running /\ calls < MaxCalls /\ heap.next + n <= MaxAddr + 1
             /\ calls' = calls + 1

\* The fuel values that make each of the first n fallible calls fail, or none.
Fuel(n) == -1..(n - 1)

Start(f)  == [heap EXCEPT !.fuel = f]
Commit(w) == [w EXCEPT !.fuel = -1]

\* A command whose result is a new reference the program keeps.  The
\* program keeps one reference per object: a result it already holds (None,
\* or bytes given to content_to_bytes) is released again at once.
Return(r) ==
    /\ heap' = IF r.ok /\ r.out \in held THEN Decref(Commit(r.w), r.out)
                                          ELSE Commit(r.w)
    /\ held' = IF r.ok THEN held \cup {r.out} ELSE held

\* A command whose result is a bool or None: only the world changes.
ReturnFlag(r) == heap' = Commit(r.w) /\ UNCHANGED held

\* The content objects the program can pass to a command.
Capsules == {c \in held : heap.kind[c] = "CONTENT_OBJECT"}

GetCompsCmd ==
    /\ "GetComps" \in Ops /\ CanRun(2)
    /\ \E f \in Fuel(3), c \in Capsules : ReturnFlag(GetComps(Start(f), c))

DataObjFromNdnCmd ==
    /\ "DataObjFromNdn" \in Ops /\ CanRun(13)
    /\ \E f \in Fuel(20), c \in held : Return(DataObjFromNdn(Start(f), c))

DataObjFromNdnBufferCmd ==
    /\ "DataObjFromNdnBuffer" \in Ops /\ CanRun(15)
    /\ \E f \in Fuel(22), b \in held : Return(DataObjFromNdnBuffer(Start(f), b))

DigestContentObjectCmd ==
    /\ "DigestContentObject" \in Ops /\ CanRun(3)
    /\ \E f \in Fuel(4), c \in held : Return(DigestContentObject(Start(f), c))

ContentMatchesInterestCmd ==
    /\ "ContentMatchesInterest" \in Ops /\ CanRun(2)
    /\ \E f \in Fuel(4), c \in held, argOk \in BOOLEAN :
            ReturnFlag(ContentMatchesInterest(Start(f), c, argOk))

VerifyContentCmd ==
    /\ "VerifyContent" \in Ops /\ CanRun(2)
    /\ \E f \in Fuel(3), c \in held, argOk \in BOOLEAN :
            ReturnFlag(VerifyContent(Start(f), c, argOk))

VerifySignatureCmd ==
    /\ "VerifySignature" \in Ops /\ CanRun(2)
    /\ \E f \in Fuel(3), c \in held, argOk \in BOOLEAN :
            ReturnFlag(VerifySignature(Start(f), c, argOk))

EncodeDataCmd ==
    /\ "EncodeData" \in Ops /\ CanRun(2)
    /\ \E f \in Fuel(3), argsOk, named \in BOOLEAN :
            Return(EncodeData(Start(f), argsOk, named))

ContentToBytesCmd ==
    /\ "ContentToBytes" \in Ops /\ CanRun(2)
    /\ \E f \in Fuel(2), a \in held : Return(ContentToBytes(Start(f), a))

ContentToBytearrayCmd ==
    /\ "ContentToBytearray" \in Ops /\ CanRun(3)
    /\ \E f \in Fuel(3), a \in held : Return(ContentToBytearray(Start(f), a))

NewCharbufCmd ==
    /\ "NewCharbuf" \in Ops /\ CanRun(2)
    /\ \E f \in Fuel(2), typeOk \in BOOLEAN, o \in held :
            Return(CmdNewCharbuf(Start(f), typeOk, o))

DumpCharbufCmd ==
    /\ "DumpCharbuf" \in Ops /\ CanRun(1)
    /\ \E f \in Fuel(1), c \in held : Return(CmdDumpCharbuf(Start(f), c))

\* A caller of _pyccn_unicode_to_utf8 passes a str (the function asserts it).
UnicodeToUtf8Cmd ==
    /\ "UnicodeToUtf8" \in Ops /\ CanRun(1)
    /\ \E f \in Fuel(1), s \in {a \in held : heap.kind[a] = "PyStr"} :
            Return(UnicodeToUtf8(Start(f), s))

\* The Python program lets go of an object it holds.
Drop ==
    /\ "Drop" \in Ops /\ CanRun(0)
    /\ \E a \in held : /\ held' = held \ {a}
                       /\ heap' = Decref(heap, a)

-----------------------------------------------------------------------------
\* The world at the start: InitObjs is a sequence of records [kind, child,
\* wire, held] placed at addresses 1, 2, ... (child is an earlier address).
InitWorld ==
    LET n == Len(InitObjs)
        refs(a) == Cardinality({i \in 1..n : InitObjs[i].child = a})
                   + (IF InitObjs[a].held THEN 1 ELSE 0)
    IN  [EmptyWorld EXCEPT
            !.rc    = [a \in Addr |-> IF a <= n THEN refs(a) ELSE 0],
            !.kind  = [a \in Addr |-> IF a <= n THEN InitObjs[a].kind ELSE "none"],
            !.child = [a \in Addr |-> IF a <= n THEN InitObjs[a].child ELSE NULL],
            !.wire  = [a \in Addr |-> IF a <= n THEN InitObjs[a].wire ELSE NULL],
            !.next  = n + 1]

ASSUME MaxAddr >= Len(InitObjs) /\ MaxCalls \in Nat

Init ==
    /\ heap = InitWorld
    /\ held = {a \in 1..Len(InitObjs) : InitObjs[a].held}
    /\ calls = 0

Next ==
    \/ DataObjFromNdnCmd
    \/ DataObjFromNdnBufferCmd
    \/ DigestContentObjectCmd
    \/ ContentMatchesInterestCmd
    \/ VerifyContentCmd
    \/ VerifySignatureCmd
    \/ EncodeDataCmd
    \/ GetCompsCmd
    \/ ContentToBytesCmd
    \/ ContentToBytearrayCmd
    \/ NewCharbufCmd
    \/ DumpCharbufCmd
    \/ UnicodeToUtf8Cmd
    \/ Drop

Spec == Init /\ [][Next]_vars

-----------------------------------------------------------------------------
(* Properties                                                              *)

\* No object is freed while the program, a Data object's attribute, a
\* capsule's context or another owner still refers to it: every exit path
\* of Data_obj_from_ndn and its helpers releases only references it took.
NoUseAfterFree ==
    LET refs == RefCount(heap, held)
    IN  \A a \in Addr : refs[a] > 0 => heap.rc[a] >= refs[a]

\* Every reference count is accounted for by a reference: on every exit
\* path each command releases what it allocated and does not hand out.
NoLeak == LET refs == RefCount(heap, held) IN \A a \in Addr : heap.rc[a] <= refs[a]

\* No command reads a parse that has been freed: a handler keeps the pco
\* pointer across Name_obj_from_ndn_parsed, which may call get_pco again.
\* (The length assertion of verify_content also sets the flag, but every
\* cached parse is one of the object's own bytes, so it cannot fire.)
NoCrash == ~heap.crash

\* The cache of every live content object is consistent: pco and comps are
\* both set or both clear, whichever step of parse_Data failed, and a
\* cached parse is a successful parse of the object's own bytes.
ParseCacheSound ==
    \A c \in Addr :
        heap.rc[c] > 0 /\ heap.kind[c] = "CONTENT_OBJECT" =>
            LET p == Ctx(heap, c, "pco")
            IN  /\ (p = NULL) = (Ctx(heap, c, "comps") = NULL)
                /\ p # NULL => /\ heap.wire[p] = heap.wire[heap.child[c]]
                              /\ heap.wire[p] # "wire_bad"

\* The content objects alive, and the parse each one caches.
LiveCapsules == {c \in Addr : heap.rc[c] > 0 /\ heap.kind[c] = "CONTENT_OBJECT"}

PC == INSTANCE ParseCache WITH
        Capsules <- Addr, Parses <- Addr,
        alive <- LiveCapsules,
        parse <- [c \in Addr |-> IF c \in LiveCapsules THEN Ctx(heap, c, "pco") ELSE NULL]

\* The commands implement the parse cache's promise: a live content
\* object's parse, once made, is never replaced or dropped, so a pco a
\* handler fetched stays valid for the rest of the handler.
ParseCacheRefined == PC!Spec

=============================================================================
