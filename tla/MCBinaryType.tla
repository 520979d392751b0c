--------------------------- MODULE MCBinaryType ---------------------------
(***************************************************************************)
(* Model-checking instance of BinaryType, and the reference the schema id *)
(* is checked against.  The reference uses the Bitwise module's XOR, so   *)
(* it is independent of the bit-by-bit ByteXor of the model.              *)
(***************************************************************************)
EXTENDS BinaryType, Bitwise

\* Field ids at the edges of int32 and of a byte, and an ordinary one.
MCFieldIds == {0, 255, -1, 2147483647, -2147483647 - 1, 97}

\* The model's XOR of two bytes is Python's ^ on them, for every pair.
ASSUME ByteXorIsXor == \A x, y \in 0..255 : ByteXor(x, y) = x ^^ y

-----------------------------------------------------------------------------
(***************************************************************************)
(* The reference: FNV over the byte string of the field ids as spec       *)
(* section 4.1 states it, computed on four unsigned bytes (little endian) *)
(* with schoolbook multiplication, and read as a signed 32-bit integer.   *)
(***************************************************************************)
RefBasis == <<197, 157, 28, 129>>      \* 0x811C9DC5

RefPrime == <<147, 1, 0, 1>>           \* 0x01000193

\* The two's-complement bytes of a field id; a negative id is the bytewise
\* complement of -(f + 1).
RefBytes(f) ==
    [k \in 1..4 |-> IF f >= 0 THEN (f \div 256 ^ (k - 1)) % 256
                   ELSE 255 - (((-(f + 1)) \div 256 ^ (k - 1)) % 256)]

RefXor(u, b) == [u EXCEPT ![1] = @ ^^ b]

RefMul(u) ==
    LET col(k) == u[1] * RefPrime[k] + (IF k > 1 THEN u[2] * RefPrime[k - 1] ELSE 0)
                  + (IF k > 2 THEN u[3] * RefPrime[k - 2] ELSE 0)
                  + (IF k > 3 THEN u[4] * RefPrime[k - 3] ELSE 0)
        v[k \in 1..4] == col(k) + (IF k = 1 THEN 0 ELSE v[k - 1] \div 256)
    IN  [k \in 1..4 |-> v[k] % 256]

RefSigned(u) ==
    (IF u[4] >= 128 THEN u[4] - 256 ELSE u[4]) * 16777216
        + u[3] * 65536 + u[2] * 256 + u[1]

\* The field ids' bytes, field after field, least significant first.
RefByteString(s) ==
    [n \in 1..4 * Len(s) |-> RefBytes(s[(n - 1) \div 4 + 1])[((n - 1) % 4) + 1]]

RefSchemaId(s) ==
    LET bs == RefByteString(s)
        h[n \in 0..Len(bs)] == IF n = 0 THEN RefBasis
                               ELSE RefMul(RefXor(h[n - 1], bs[n]))
    IN  IF s = <<>> THEN 0 ELSE RefSigned(h[Len(bs)])

(***************************************************************************)
(* The schema id put_binary_type computes, sends and returns for a        *)
(* non-enum type is bit-exact with FNV over the fields' bytes (spec 4.1): *)
(* the byte order within a field, the field order, the wraparound of      *)
(* int_overflow after every multiply and 0 for an empty schema.           *)
(***************************************************************************)
SchemaIdMatchesReference ==
    op = "put" /\ ~isEnum /\ pc = "done" =>
        /\ schemaId = RefSchemaId(schema)
        /\ result.status = 0 => result.value = schemaId

=============================================================================
