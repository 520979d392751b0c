------------------------ MODULE RequestFrameProofs ------------------------
(***************************************************************************)
(* Proofs about RequestFrame for every set of ids, field sizes and bounds. *)
(*                                                                         *)
(* FrameCorrect: the length prefix of every frame Query.from_python       *)
(* produces is its size minus 4.  The frame is produced once, by          *)
(* __write_header, from the position and length the fields loop left, so *)
(* the invariant needs what the loop keeps: the position is past the      *)
(* reserved header, and the stream is either still empty (the header was *)
(* only seeked over) or ends at the position (every write appends).       *)
(***************************************************************************)
EXTENDS RequestFrame, TLAPS

\* What _build_header and the fields loop leave for __write_header.
StreamAtEnd ==
    pc = "fields" =>
        /\ header \in Header
        /\ pos >= HeaderLen(kind)
        /\ len = pos \/ (len = 0 /\ pos = HeaderLen(kind))
        /\ out = None

\* Nothing is sent before the header is built.
NothingSentYet ==
    pc = "start" => out = None /\ header = None /\ pos = 0 /\ len = 0

IInv ==
    /\ TypeOK
    /\ StreamAtEnd
    /\ NothingSentYet
    /\ FrameLengthCorrect

-----------------------------------------------------------------------------

\* A write leaves the stream ending at the new position when the position
\* was past the header and the stream was empty or ended there.
LEMMA WriteAppends ==
    ASSUME NEW n \in Nat, NEW h \in Nat, pos \in Nat, len \in Nat,
           pos >= h, len = pos \/ len = 0, Write(n)
    PROVE  pos' >= h /\ len' = pos' /\ pos' \in Nat /\ len' \in Nat
BY DEF Write

LEMMA IInvInit == Init => IInv
<1> USE RequestFrameAssumption DEF RequestFrameAssumption
<1> SUFFICES ASSUME Init PROVE IInv
  OBVIOUS
<1>1. fields \in Seq(Codecs) /\ Len(fields) <= MaxFields
  <2>1. PICK n \in 0..MaxFields : fields \in [1..n -> Codecs]
    BY DEF Init
  <2>2. QED
    BY <2>1
<1>2. k \in 0..Len(fields)
  BY <1>1 DEF Init
<1>3. TypeOK
  BY <1>1, <1>2 DEF Init, TypeOK
<1>4. QED
  BY <1>3 DEF Init, IInv, StreamAtEnd, NothingSentYet, FrameLengthCorrect,
              Frame

LEMMA IInvStep == IInv /\ [Next]_vars => IInv'
<1> USE RequestFrameAssumption DEF RequestFrameAssumption
<1> SUFFICES ASSUME IInv, [Next]_vars PROVE IInv'
  OBVIOUS
<1>1. CASE BuildHeader
  <2>1. PICK r \in RandomIds :
          header' = LET h == [length |-> 0,
                              query_id |-> IF qid = None THEN r ELSE 0,
                              config_length |-> None]
                    IN  IF kind = "query" THEN h ELSE ConfigBuildHeader(h)
    BY <1>1 DEF BuildHeader
  <2>2. header' \in Header
    BY <2>1 DEF IInv, TypeOK, ConfigBuildHeader, Header, HeaderLen
  <2>3. QED
    BY <1>1, <2>2 DEF BuildHeader, IInv, TypeOK, StreamAtEnd, NothingSentYet,
                      FrameLengthCorrect, HeaderLen
<1>2. CASE WriteField
  <2> DEFINE c == fields[k + 1]
  <2>1. c \in Codecs /\ k + 1 \in 1..Len(fields)
    BY <1>2 DEF WriteField, IInv, TypeOK
  <2>2. pos' >= HeaderLen(kind) /\ len' = pos' /\ pos' \in Nat /\ len' \in Nat
    <3>1. HeaderLen(kind) \in Nat /\ pos >= HeaderLen(kind)
          /\ (len = pos \/ len = 0) /\ pos \in Nat /\ len \in Nat
      BY <1>2 DEF WriteField, IInv, TypeOK, StreamAtEnd, HeaderLen
    <3>2. CASE c.tag = "plain"
      <4>1. Write(c.size) /\ c.size \in Nat
        BY <1>2, <2>1, <3>2 DEF WriteField, Codecs
      <4>2. QED
        BY <3>1, <4>1, WriteAppends
    <3>3. CASE c.tag = "cacheinfo"
      <4>0. c \in [tag : {"cacheinfo"}, expiry : {0} \cup ExpirySizes,
                   supported : BOOLEAN]
        BY <2>1, <3>3 DEF Codecs
      <4>1. c.expiry \in Nat
        <5>1. c.expiry \in {0} \cup ExpirySizes
          BY <4>0, Zenon
        <5>2. \A x \in {0} \cup ExpirySizes : x \in Nat
          OBVIOUS
        <5>3. QED
          BY <5>1, <5>2, Zenon
      <4>2. Write(4) \/ Write(4 + 1 + c.expiry)
        BY <1>2, <2>1, <3>3 DEF WriteField, WriteCacheInfo, Codecs
      <4>3. QED
        BY <3>1, <4>1, <4>2, WriteAppends
    <3>4. QED
      BY <2>1, <3>2, <3>3 DEF Codecs
  <2>3. /\ out' \in {out, Raised}
        /\ pc' \in {"fields", "done"}
        /\ pc' = "fields" => out' = out
    BY <1>2 DEF WriteField, WriteCacheInfo
  <2>4. QED
    BY <1>2, <2>2, <2>3 DEF WriteField, IInv, TypeOK, StreamAtEnd,
                            NothingSentYet, FrameLengthCorrect, Raised, Frame
<1>3. CASE WriteHeader
  <2>1. header \in Header /\ pos >= HeaderLen(kind)
        /\ (len = pos \/ (len = 0 /\ pos = HeaderLen(kind))) /\ pos \in Nat /\ len \in Nat /\ kind \in {"query", "config"}
    BY <1>3 DEF WriteHeader, IInv, TypeOK, StreamAtEnd
  <2> DEFINE h == [header EXCEPT !.length = PatchedLength]
             n == IF HeaderLen(kind) > len THEN HeaderLen(kind) ELSE len
  <2>2. n = pos /\ PatchedLength = pos - 4 /\ pos - 4 \in Nat
    BY <2>1 DEF PatchedLength, HeaderLen
  <2>3. out' = [length |-> pos - 4, query_id |-> header.query_id,
                config_length |-> header.config_length, size |-> pos]
    BY <1>3, <2>1, <2>2 DEF WriteHeader, Header
  <2>4. out' \in Frame /\ out'.length = out'.size - 4
    BY <2>1, <2>2, <2>3 DEF Frame, Header
  <2>5. header' \in Header
    BY <1>3, <2>1, <2>2 DEF WriteHeader, Header
  <2>6. QED
    BY <1>3, <2>1, <2>4, <2>5 DEF WriteHeader, IInv, TypeOK, StreamAtEnd,
                                  NothingSentYet, FrameLengthCorrect, HeaderLen
<1>4. CASE Terminated \/ UNCHANGED vars
  BY <1>4 DEF Terminated, vars, IInv, TypeOK, StreamAtEnd, NothingSentYet,
              FrameLengthCorrect
<1>5. QED
  BY <1>1, <1>2, <1>3, <1>4 DEF Next

(***************************************************************************)
(* Every reachable state is well typed (TypeOK, checked by                *)
(* request_frame_length): in particular a frame perform sends has a       *)
(* length in Nat, so the header never carries a negative length.          *)
(***************************************************************************)
THEOREM TypeCorrect == Spec => []TypeOK
BY IInvInit, IInvStep, PTL DEF Spec, IInv

(***************************************************************************)
(* The length prefix of every frame Query.from_python and __write_header  *)
(* produce is the frame's size minus 4 (FrameLengthCorrect, checked by    *)
(* request_frame_length), for any fields, field sizes and query ids.      *)
(***************************************************************************)
THEOREM FrameCorrect == Spec => []FrameLengthCorrect
BY IInvInit, IInvStep, PTL DEF Spec, IInv

=============================================================================
