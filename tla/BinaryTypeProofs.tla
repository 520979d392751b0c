------------------------- MODULE BinaryTypeProofs -------------------------
(***************************************************************************)
(* Proofs about BinaryType: put_binary_type and get_binary_type keep      *)
(* their state well typed for every set of field ids and every bound on   *)
(* the schema's length.  The heart of it is that the loop's arithmetic,   *)
(* int_overflow(h * FNV1_PRIME) after each XOR, keeps schema_id a signed  *)
(* 32-bit integer whatever the field ids are.                             *)
(***************************************************************************)
EXTENDS BinaryType, TLAPS

-----------------------------------------------------------------------------
(***************************************************************************)
(* The arithmetic of the loop.                                            *)
(***************************************************************************)

\* int_overflow(h * FNV1_PRIME) is a signed 32-bit integer for every
\* integer h: both limbs lie in 0..65535.
LEMMA MulPrimeInt32 ==
    ASSUME NEW h \in Int
    PROVE  IsInt32(MulPrime(h))
BY DEF MulPrime, IsInt32

\* The powers of 256 Byte divides by.
LEMMA BytePowers ==
    /\ 256 ^ 0 = 1
    /\ 256 ^ 1 = 256
    /\ 256 ^ 2 = 65536
    /\ 256 ^ 3 = 16777216
OBVIOUS

\* Each of the four bytes of a field id is an integer.
LEMMA ByteInt ==
    ASSUME NEW f \in Int, NEW k \in 0..3
    PROVE  Byte(f, k) \in Int
<1>1. 256 ^ k \in Int \ {0}
  <2>1. CASE k = 0  BY <2>1, BytePowers
  <2>2. CASE k = 1  BY <2>2, BytePowers
  <2>3. CASE k = 2  BY <2>3, BytePowers
  <2>4. CASE k = 3  BY <2>4, BytePowers
  <2>. QED
    BY <2>1, <2>2, <2>3, <2>4
<1>. QED
  BY <1>1 DEF Byte

\* schema_id ^= byte leaves an integer.
LEMMA XorByteInt ==
    ASSUME NEW h \in Int, NEW b \in Int
    PROVE  XorByte(h, b) \in Int
BY DEF XorByte, ByteXor, XorBit

\* One byte of the loop gives a signed 32-bit integer.
LEMMA ByteStepInt32 ==
    ASSUME NEW h \in Int, NEW b \in Int
    PROVE  IsInt32(ByteStep(h, b))
BY XorByteInt, MulPrimeInt32 DEF ByteStep

\* One iteration of the loop, over the four bytes of a field id, gives a
\* signed 32-bit integer from any integer.
LEMMA FieldStepInt32 ==
    ASSUME NEW h \in Int, NEW f \in Int
    PROVE  IsInt32(FieldStep(h, f))
<1>. DEFINE b(k) == Byte(f, k)
<1>1. \A k \in 0..3 : b(k) \in Int
  BY ByteInt
<1>2. \A x \in Int, k \in 0..3 : ByteStep(x, b(k)) \in Int
  <2>. SUFFICES ASSUME NEW x \in Int, NEW k \in 0..3
                PROVE  ByteStep(x, b(k)) \in Int
    OBVIOUS
  <2>1. IsInt32(ByteStep(x, b(k)))
    BY <1>1, ByteStepInt32
  <2>. QED
    BY <2>1 DEF IsInt32
<1>3. ByteStep(ByteStep(ByteStep(h, b(0)), b(1)), b(2)) \in Int
  BY <1>2
<1>. QED
  BY <1>1, <1>3, ByteStepInt32 DEF FieldStep
-----------------------------------------------------------------------------
(***************************************************************************)
(* Type correctness.  TypeOK alone is not inductive: it allows the loop   *)
(* to run on a None schema_id.  The strengthening says the loop only runs *)
(* on the integer schema id Prepare set up.                               *)
(***************************************************************************)
IInv ==
    /\ TypeOK
    /\ pc = "hash" => IsInt32(schemaId)

\* A schema is a sequence of field ids.
LEMMA SchemaSeq ==
    ASSUME NEW s \in Schemas
    PROVE  s \in Seq(FieldIds)
<1>1. PICK n \in 0..MaxFields : s \in [1..n -> FieldIds]
  BY DEF Schemas
<1>. QED
  BY <1>1, BinaryTypeAssumption

\* Every field id is an integer.
LEMMA FieldIdsInt == FieldIds \subseteq Int
BY BinaryTypeAssumption DEF IsInt32

LEMMA IInvInit == Init => IInv
<1>. SUFFICES ASSUME Init PROVE IInv
  OBVIOUS
<1>1. schema \in Seq(FieldIds)
  BY SchemaSeq DEF Init
<1>. QED
  BY <1>1 DEF Init, IInv, TypeOK, NoResult

LEMMA IInvStep == IInv /\ [Next]_vars => IInv'
<1>. SUFFICES ASSUME IInv, [Next]_vars PROVE IInv'
  OBVIOUS
<1>. USE DEF IInv, TypeOK
<1>1. schema \in Seq(FieldIds)
  BY SchemaSeq
<1>2. CASE Prepare
  <2>1. CASE isEnum
    BY <1>2, <2>1 DEF Prepare
  <2>2. CASE ~isEnum
    <3>1. IsInt32(schemaId')
      BY <1>2, <2>2 DEF Prepare, FNV1_OFFSET_BASIS, IsInt32
    <3>. QED
      BY <1>2, <2>2, <3>1 DEF Prepare
  <2>. QED
    BY <2>1, <2>2
<1>3. CASE HashField
  <2>1. schema[i + 1] \in Int
    BY <1>1, <1>3, FieldIdsInt DEF HashField
  <2>2. IsInt32(schemaId')
    BY <1>3, <2>1, FieldStepInt32 DEF HashField, IsInt32
  <2>. QED
    BY <1>1, <1>3, <2>2 DEF HashField
<1>4. CASE Perform
  <2>1. PICK st \in Statuses :
          result' = [status |-> st, value |-> IF st = 0 THEN schemaId ELSE None]
    BY <1>4 DEF Perform
  <2>2. result' \in [status : Statuses, value : {result'.value}]
    BY <2>1
  <2>3. result'.value = None \/ (result'.status = 0 /\ IsInt32(result'.value))
    <3>1. CASE st = 0
      <4>1. result'.status = 0 /\ result'.value = schemaId
        BY <2>1, <3>1
      <4>. QED
        BY <4>1
    <3>2. CASE st # 0
      BY <2>1, <3>2
    <3>. QED
      BY <3>1, <3>2
  <2>. QED
    BY <1>4, <2>2, <2>3 DEF Perform
<1>5. CASE GetBinaryType
  BY <1>5 DEF GetBinaryType, Raised
<1>6. CASE Terminated \/ UNCHANGED vars
  BY <1>6 DEF Terminated, vars
<1>. QED
  BY <1>2, <1>3, <1>4, <1>5, <1>6 DEF Next

(***************************************************************************)
(* put_binary_type and get_binary_type keep their state well typed: in    *)
(* particular the schema id the loop computes, and the value returned on  *)
(* status 0, are signed 32-bit integers for every set of field ids.       *)
(***************************************************************************)
THEOREM TypeCorrect == Spec => []TypeOK
<1>1. Init => IInv
  BY IInvInit
<1>2. IInv /\ [Next]_vars => IInv'
  BY IInvStep
<1>3. IInv => TypeOK
  BY DEF IInv
<1>. QED
  BY <1>1, <1>2, <1>3, PTL DEF Spec

====
