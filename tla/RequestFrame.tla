--------------------------- MODULE RequestFrame ---------------------------
(***************************************************************************)
(* The request builder of pyignite/queries/query.py: Query.from_python    *)
(* and ConfigQuery, as Query.perform calls it on a fresh stream.          *)
(*                                                                         *)
(* from_python reserves the header by seeking past it, lets each field's  *)
(* codec write its bytes (CacheInfo writes the cache id, the flags and    *)
(* the expiry policy, and may raise), then computes the length, seeks     *)
(* back to the start and writes the header over the reserved bytes.  The  *)
(* stream is abstracted to its position and its length; a field's bytes   *)
(* to their count.  from_python_async is the same code with awaits.       *)
(***************************************************************************)
EXTENDS Integers, Sequences

CONSTANTS
    None,          \* Python's None
    SuppliedIds,   \* query ids a caller may pass to Query(...)
    RandomIds,     \* values randint(MIN_LONG, MAX_LONG) may return
    FieldSizes,    \* the byte counts a codec may write for one field
    ExpirySizes,   \* the byte counts of an ExpiryPolicy payload
    MaxFields      \* the most fields a query has, bound of the model

VARIABLES
    kind,     \* "query" (Query) or "config" (ConfigQuery)
    qid,      \* self.query_id: a supplied id or None
    fields,   \* self.following: per field its codec, abstracted below
    header,   \* the ctypes header object _build_header returned, or None
    pos,      \* stream.tell()
    len,      \* the length of stream.getvalue()
    k,        \* the fields written so far
    pc,       \* where from_python is
    out       \* the frame perform sends, or Raised

vars == <<kind, qid, fields, header, pos, len, k, pc, out>>

\* sizeof of the header structures built by build_c_type: int, short and
\* long long, packed; ConfigQuery adds the int config_length.
HeaderLen(kd) == IF kd = "query" THEN 14 ELSE 18

\* A field's codec: the bytes it writes, or CacheInfo with or without an
\* expiry policy on a cluster that supports it or not.
Codecs ==
    [tag : {"plain"}, size : FieldSizes]
        \cup [tag : {"cacheinfo"}, expiry : {0} \cup ExpirySizes,
              supported : BOOLEAN]

Raised == [raised |-> TRUE]

Header ==
    [length : Int, query_id : Int, config_length : Int \cup {None}]

Frame == [length : Nat, query_id : Int, config_length : Int \cup {None},
          size : Nat]

ASSUME RequestFrameAssumption ==
    /\ None \notin Int /\ None \notin Frame
    /\ SuppliedIds \subseteq Int /\ RandomIds \subseteq Int
    /\ FieldSizes \subseteq Nat /\ ExpirySizes \subseteq Nat
    /\ MaxFields \in Nat

TypeOK ==
    /\ kind \in {"query", "config"}
    /\ qid \in SuppliedIds \cup {None}
    /\ fields \in Seq(Codecs) /\ Len(fields) <= MaxFields
    /\ header \in Header \cup {None}
    /\ pos \in Nat /\ len \in Nat
    /\ k \in 0..Len(fields)
    /\ pc \in {"start", "fields", "done"}
    /\ out \in Frame \cup {Raised, None}

Init ==
    /\ kind \in {"query", "config"}
    /\ qid \in SuppliedIds \cup {None}
    /\ fields \in UNION {[1..n -> Codecs] : n \in 0..MaxFields}
    /\ header = None
    /\ pos = 0
    /\ len = 0
    /\ k = 0
    /\ pc = "start"
    /\ out = None

\* stream.write of n bytes at the current position.
Write(n) ==
    /\ pos' = pos + n
    /\ len' = IF pos + n > len THEN pos + n ELSE len

\* ConfigQuery._build_header: config_length = header.length - sizeof(header)
\* on the header the base class built, while header.length is still 0.
ConfigBuildHeader(h) ==
    [h EXCEPT !.config_length = h.length - HeaderLen("config")]

(***************************************************************************)
(* Query._build_header: seek past the header and build a zeroed header    *)
(* object whose query_id is random when none was supplied.                *)
(***************************************************************************)
BuildHeader ==
    /\ pc = "start"
    /\ pos' = pos + HeaderLen(kind)
    /\ \E r \in RandomIds :
          LET h == [length |-> 0,
                    query_id |-> IF qid = None THEN r ELSE 0,
                    config_length |-> None]
          IN  header' = IF kind = "query" THEN h ELSE ConfigBuildHeader(h)
    /\ pc' = "fields"
    /\ UNCHANGED <<kind, qid, fields, len, k, out>>

\* CacheInfo.from_python: the cache id (4 bytes), then the flags (1 byte)
\* and the policy, unless a policy is asked of a cluster without support,
\* which raises NotSupportedByClusterError after the cache id.
WriteCacheInfo(c) ==
    IF c.expiry > 0 /\ ~c.supported
    THEN /\ Write(4)
         /\ out' = Raised
         /\ pc' = "done"
    ELSE /\ Write(4 + 1 + c.expiry)
         /\ UNCHANGED <<out, pc>>

\* c_type.from_python(stream, values[name]) for the next field.
WriteField ==
    /\ pc = "fields"
    /\ k < Len(fields)
    /\ LET c == fields[k + 1]
       IN  IF c.tag = "plain" THEN Write(c.size) /\ UNCHANGED <<out, pc>>
                              ELSE WriteCacheInfo(c)
    /\ k' = k + 1
    /\ UNCHANGED <<kind, qid, fields, header>>

\* Plausible bugs, used as mutants of PatchedLength: the length counts its
\* own prefix; the length is computed after the seek back to init_pos.
PatchedLengthWithPrefix == pos - 0

PatchedLengthAfterSeek == 0 - 0 - 4

\* header.length = stream.tell() - init_pos - ctypes.sizeof(ctypes.c_int)
PatchedLength == pos - 0 - 4

(***************************************************************************)
(* __write_header: header.length = stream.tell() - init_pos - 4, seek to  *)
(* init_pos (0) and write the header; then perform sends getvalue().      *)
(***************************************************************************)
WriteHeader ==
    /\ pc = "fields"
    /\ k = Len(fields)
    /\ LET h == [header EXCEPT !.length = PatchedLength]
           n == IF HeaderLen(kind) > len THEN HeaderLen(kind) ELSE len
       IN  /\ header' = h
           /\ pos' = HeaderLen(kind)
           /\ len' = n
           /\ out' = [length |-> h.length, query_id |-> h.query_id,
                      config_length |-> h.config_length, size |-> n]
    /\ pc' = "done"
    /\ UNCHANGED <<kind, qid, fields, k>>

Terminated ==
    /\ pc = "done"
    /\ UNCHANGED vars

Next == BuildHeader \/ WriteField \/ WriteHeader \/ Terminated

Spec == Init /\ [][Next]_vars

-----------------------------------------------------------------------------
(***************************************************************************)
(* Properties.                                                             *)
(***************************************************************************)

\* The field's codec raises: CacheInfo with a policy the cluster lacks.
FieldRaises(c) == c.tag = "cacheinfo" /\ c.expiry > 0 /\ ~c.supported

(***************************************************************************)
(* The length prefix perform sends is the frame's byte count minus the    *)
(* 4 bytes of the prefix (spec section 8), whatever fields were written,  *)
(* after the reserve, the fields and the seek back of __write_header.     *)
(***************************************************************************)
FrameLengthCorrect ==
    out \in Frame => out.length = out.size - 4

(***************************************************************************)
(* A correlation id the caller supplies to Query(query_id=...) is the one *)
(* in the header sent (spec sections 3 and 4.2: the response echoes it).  *)
(***************************************************************************)
QueryIdSent ==
    out \in Frame /\ qid # None => out.query_id = qid

(***************************************************************************)
(* A ConfigQuery whose fields encode is sent, with config_length the byte *)
(* count of the body after its 18-byte header (spec section 5).           *)
(***************************************************************************)
ConfigLengthSpansBody ==
    /\ kind = "config"
    /\ pc = "done"
    /\ \A j \in 1..Len(fields) : ~FieldRaises(fields[j])
    => out \in Frame /\ out.config_length = out.size - 18

=============================================================================
