--------------------------- MODULE MCContentObject ---------------------------
(* Initial objects and command sets for the runs of ContentObject.         *)
EXTENDS ContentObject

\* One content object per wire form: a CONTENT_OBJECT capsule owning its
\* charbuf, held by the program.
CapsuleObjs ==
    << [kind |-> "Buf", child |-> NULL, wire |-> "wire_ok", held |-> FALSE],
       [kind |-> "CONTENT_OBJECT", child |-> 1, wire |-> NULL, held |-> TRUE],
       [kind |-> "Buf", child |-> NULL, wire |-> "wire_noname", held |-> FALSE],
       [kind |-> "CONTENT_OBJECT", child |-> 3, wire |-> NULL, held |-> TRUE],
       [kind |-> "Buf", child |-> NULL, wire |-> "wire_bad", held |-> FALSE],
       [kind |-> "CONTENT_OBJECT", child |-> 5, wire |-> NULL, held |-> TRUE] >>

\* Python values the program can pass as a buffer: bytes of a content
\* object, a bytearray that does not parse, and a str (not a buffer).
BufferObjs ==
    << [kind |-> "PyBytes", child |-> NULL, wire |-> "wire_ok", held |-> TRUE],
       [kind |-> "PyByteArray", child |-> NULL, wire |-> "wire_bad", held |-> TRUE],
       [kind |-> "PyStr", child |-> NULL, wire |-> NULL, held |-> TRUE] >>

AllObjs == CapsuleObjs \o BufferObjs

AllOps == {"DataObjFromNdn", "DataObjFromNdnBuffer", "DigestContentObject",
           "ContentMatchesInterest", "VerifyContent", "VerifySignature",
           "EncodeData", "GetComps", "Drop"}

\* The commands that neither take a buffer nor make a capsule.
CapsuleOps == AllOps \ {"DataObjFromNdnBuffer", "EncodeData"}

BufferOps == {"DataObjFromNdnBuffer"}

\* One value of each kind content_to_bytes(array) tells apart, and a
\* content object, which is none of them.
ValueObjs ==
    << [kind |-> "PyNone", child |-> NULL, wire |-> NULL, held |-> TRUE],
       [kind |-> "PyNum", child |-> NULL, wire |-> NULL, held |-> TRUE],
       [kind |-> "PyStr", child |-> NULL, wire |-> NULL, held |-> TRUE],
       [kind |-> "PyBytes", child |-> NULL, wire |-> "wire_ok", held |-> TRUE],
       [kind |-> "PyByteArray", child |-> NULL, wire |-> "wire_bad", held |-> TRUE],
       [kind |-> "Buf", child |-> NULL, wire |-> "wire_ok", held |-> FALSE],
       [kind |-> "CONTENT_OBJECT", child |-> 6, wire |-> NULL, held |-> TRUE] >>

ConvertOps == {"ContentToBytes", "ContentToBytearray", "NewCharbuf",
               "DumpCharbuf", "UnicodeToUtf8", "Drop"}
====
