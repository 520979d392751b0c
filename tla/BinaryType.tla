---------------------------- MODULE BinaryType ----------------------------
(***************************************************************************)
(* The binary type registry API of pyignite/api/binary.py.                *)
(*                                                                         *)
(* put_binary_type prepares the type description and, for a non-enum      *)
(* type, computes the schema id in the loop over the schema's fields: for *)
(* each field id and each of its four bytes, least significant first, the *)
(* accumulator is XORed with the byte and multiplied by the FNV prime,    *)
(* wrapped to a signed 32-bit integer by int_overflow.  It then performs  *)
(* the query and, on status 0, returns the type id and the schema id.     *)
(* get_binary_type builds its request through an older interface.         *)
(*                                                                         *)
(* Field ids are the signed 32-bit values entity_id returns; the hash of  *)
(* names itself is outside src/ and the ids are inputs.  TLC's integers   *)
(* are 32-bit, so int_overflow(h * FNV1_PRIME) is computed on 16-bit      *)
(* limbs, by what it does and never beyond 2^31.                          *)
(***************************************************************************)
EXTENDS Integers, Sequences

CONSTANTS
    FieldIds,   \* the field ids entity_id may return, signed 32-bit
    MaxFields,  \* the most fields a schema has, bound of the model
    None        \* Python's None

\* A signed 32-bit integer.
IsInt32(x) == x \in Int /\ -2147483647 - 1 <= x /\ x <= 2147483647

ASSUME BinaryTypeAssumption ==
    /\ \A f \in FieldIds : IsInt32(f)
    /\ MaxFields \in Nat
    /\ None \notin Int

VARIABLES
    op,        \* the API function called: "put" or "get"
    schema,    \* the field ids of the schema dict, in its iteration order
    isEnum,    \* put_binary_type's is_enum
    schemaId,  \* the local schema_id
    i,         \* the fields the loop has hashed so far
    pc,        \* where the call is
    result     \* the APIResult returned, or the exception raised

vars == <<op, schema, isEnum, schemaId, i, pc, result>>

Statuses == {0, 1}

Raised == [status |-> -2, value |-> None]

NoResult == [status |-> -1, value |-> None]

Schemas == UNION {[1..n -> FieldIds] : n \in 0..MaxFields}

(***************************************************************************)
(* The arithmetic of the loop.                                            *)
(***************************************************************************)
FNV1_PRIME == 16777619

\* FNV1_OFFSET_BASIS is 0x811C9DC5 = 2166136261.  The loop XORs a byte into
\* it and wraps the product before any other use, so the signed value with
\* the same 32 bits gives the same schema ids.
FNV1_OFFSET_BASIS == -2128831035

\* (field_id >> 8k) & 0xff: Python's shift floors, like \div.
Byte(f, k) == (f \div (256 ^ k)) % 256

\* The bit of weight w (a power of two) of x ^ y, for naturals x and y.
XorBit(x, y, w) == ((((x \div w) % 2) + ((y \div w) % 2)) % 2) * w

\* x ^ y for two bytes, bit by bit.
ByteXor(x, y) ==
    XorBit(x, y, 1) + XorBit(x, y, 2) + XorBit(x, y, 4) + XorBit(x, y, 8)
      + XorBit(x, y, 16) + XorBit(x, y, 32) + XorBit(x, y, 64)
      + XorBit(x, y, 128)

\* schema_id ^= byte: only the low byte changes, for a negative id too.
XorByte(h, b) == h - (h % 256) + ByteXor(h % 256, b)

\* int_overflow(h * FNV1_PRIME).  With h = hi * 2^16 + lo (mod 2^32) and
\* FNV1_PRIME = 256 * 2^16 + 403 the product mod 2^32 has the limbs below.
MulPrime(h) ==
    LET lo == h % 65536
        hi == (h \div 65536) % 65536
        t0 == lo * 403
        r0 == t0 % 65536
        r1 == (hi * 403 + lo * 256 + t0 \div 65536) % 65536
    IN  IF r1 >= 32768 THEN (r1 - 65536) * 65536 + r0 ELSE r1 * 65536 + r0

ByteStep(h, b) == MulPrime(XorByte(h, b))

\* A plausible bug, used as a mutant: the field's bytes are taken most
\* significant first.
FieldStepBigEndian(h, f) ==
    ByteStep(ByteStep(ByteStep(ByteStep(h, Byte(f, 3)), Byte(f, 2)),
                      Byte(f, 1)), Byte(f, 0))

\* One iteration of the loop: the four bytes of field_id in turn.
FieldStep(h, f) ==
    ByteStep(ByteStep(ByteStep(ByteStep(h, Byte(f, 0)), Byte(f, 1)),
                      Byte(f, 2)), Byte(f, 3))

-----------------------------------------------------------------------------

TypeOK ==
    /\ op \in {"put", "get"}
    /\ schema \in Schemas
    /\ isEnum \in BOOLEAN
    /\ schemaId = None \/ IsInt32(schemaId)
    /\ i \in 0..Len(schema)
    /\ pc \in {"start", "hash", "perform", "done"}
    /\ \/ result \in {Raised, NoResult}
       \/ /\ result \in [status : Statuses, value : {result.value}]
          /\ \/ result.value = None
             \/ result.status = 0 /\ IsInt32(result.value)

Init ==
    /\ op \in {"put", "get"}
    /\ schema \in Schemas
    /\ isEnum \in BOOLEAN
    /\ schemaId = None
    /\ i = 0
    /\ pc = "start"
    /\ result = NoResult

\* put_binary_type up to the loop.  An enum keeps schema_id None and lists
\* its literals; otherwise schema_id starts at the offset basis, or at 0 for
\* an empty schema.
Prepare ==
    /\ op = "put"
    /\ pc = "start"
    /\ schemaId' = IF isEnum THEN None
                   ELSE IF schema = <<>> THEN 0 ELSE FNV1_OFFSET_BASIS
    /\ pc' = IF isEnum THEN "perform" ELSE "hash"
    /\ UNCHANGED <<op, schema, isEnum, i, result>>

\* One iteration of `for field_name, data_type in schema.items()`.
HashField ==
    /\ pc = "hash"
    /\ i < Len(schema)
    /\ schemaId' = FieldStep(schemaId, schema[i + 1])
    /\ i' = i + 1
    /\ UNCHANGED <<op, schema, isEnum, pc, result>>

\* A plausible bug, used as a mutant: the value is filled in whatever the
\* status.
PerformValueAlways ==
    /\ \/ pc = "perform"
       \/ pc = "hash" /\ i = Len(schema)
    /\ \E s \in Statuses : result' = [status |-> s, value |-> schemaId]
    /\ pc' = "done"
    /\ UNCHANGED <<op, schema, isEnum, schemaId, i>>

\* The schema id goes into data['schema'] and the query is performed; on
\* status 0 the result's value carries type_id and schema_id.
Perform ==
    /\ \/ pc = "perform"
       \/ pc = "hash" /\ i = Len(schema)
    /\ \E s \in Statuses :
          result' = [status |-> s, value |-> IF s = 0 THEN schemaId ELSE None]
    /\ pc' = "done"
    /\ UNCHANGED <<op, schema, isEnum, schemaId, i>>

\* get_binary_type calls query_struct.from_python with the values dict in
\* the place of the stream; its first call, stream.tell(), raises
\* AttributeError before anything is sent.
GetBinaryType ==
    /\ op = "get"
    /\ pc = "start"
    /\ result' = Raised
    /\ pc' = "done"
    /\ UNCHANGED <<op, schema, isEnum, schemaId, i>>

Terminated ==
    /\ pc = "done"
    /\ UNCHANGED vars

Next == Prepare \/ HashField \/ Perform \/ GetBinaryType \/ Terminated

Spec == Init /\ [][Next]_vars

-----------------------------------------------------------------------------
(***************************************************************************)
(* Properties.                                                             *)
(***************************************************************************)

(***************************************************************************)
(* An enum type is registered with schema id 0 (spec section 3), and      *)
(* put_binary_type returns that id.                                       *)
(***************************************************************************)
EnumSchemaIdZero ==
    op = "put" /\ isEnum /\ pc = "done" /\ result.status = 0 =>
        result.value = 0

(***************************************************************************)
(* get_binary_type, like every public operation, answers with an          *)
(* APIResult and does not raise (spec section 7).                         *)
(***************************************************************************)
GetBinaryTypeAnswers ==
    op = "get" /\ pc = "done" => result # Raised

=============================================================================
