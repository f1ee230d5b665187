------------------------- MODULE VerifierBlobProofs -------------------------
(***************************************************************************)
(* For every SRS, key, and damage to the blob: the decoder's cursor stays  *)
(* in the blob, every pod cast is aligned, and the length fields of the    *)
(* three point sections are honoured; and a blob yields the verifier that  *)
(* was encoded if it is whole, and none if it has been cut.                *)
(***************************************************************************)
EXTENDS VerifierBlob, SequenceTheorems, TLAPS

-----------------------------------------------------------------------------
\* The encoder writes bytes.

\* A length is written as bytes (write_u64_le).
LEMMA U64Bytes == ASSUME NEW n \in Nat PROVE u64_le(n) \in Seq(Byte)
  <1>1. /\ n % 256 \in Byte /\ (n \div 256) % 256 \in Byte
        /\ (n \div 65536) % 256 \in Byte /\ (n \div 16777216) % 256 \in Byte /\ 0 \in Byte
    BY DEF Byte
  <1> QED BY <1>1 DEF u64_le

\* Points are cast to bytes (bytemuck::cast_slice).
LEMMA PodBytes == ASSUME NEW ps \in Seq(Point) PROVE pod_bytes(ps) \in Seq(Byte)
  <1> DEFINE n == POD * Len(ps)
  <1>1. n \in Nat
    BY DEF POD
  <1>2. ASSUME NEW k \in 1..n
        PROVE  ps[((k - 1) \div POD) + 1][((k - 1) % POD) + 1] \in Byte
    <2>1. ((k - 1) \div POD) + 1 \in 1..Len(ps)
      BY DEF POD
    <2>2. ((k - 1) % POD) + 1 \in 1..POD
      BY DEF POD
    <2>3. ps[((k - 1) \div POD) + 1] \in Point
      BY <2>1
    <2> QED BY <2>2, <2>3 DEF Point
  <1> HIDE DEF n
  <1>3. pod_bytes(ps) \in [1..n -> Byte]
    BY <1>2 DEF pod_bytes, n
  <1> QED BY <1>1, <1>3

\* Bytes after bytes are bytes (Vec::extend_from_slice).
LEMMA ConcatBytes ==
    ASSUME NEW s \in Seq(Byte), NEW t \in Seq(Byte) PROVE s \o t \in Seq(Byte)
  OBVIOUS

\* The six sections are bytes, with any basis (encode_verifier_blob).
LEMMA SectionBytes ==
    ASSUME NEW in \in Inputs, NEW basis \in Seq(Point)
    PROVE  sections(in, basis) \in Seq(Byte)
  <1>1. /\ in.vesta_g \in Seq(Point) /\ in.wrap_g \in Seq(Point)
        /\ in.wrap_h \in Point /\ in.nc \in Nat /\ in.vk \in [id : Byte, domain : Byte]
    BY BlobAssumption DEF Inputs, Byte
  <1>2. ASSUME NEW ps \in Seq(Point) PROVE point_section(ps) \in Seq(Byte)
    <2>1. Len(ps) \in Nat
      OBVIOUS
    <2> QED BY <2>1, U64Bytes, PodBytes, ConcatBytes DEF point_section
  <1>3. pod_bytes(<<in.wrap_h>>) \in Seq(Byte)
    <2>1. <<in.wrap_h>> \in Seq(Point)
      BY <1>1
    <2> QED BY <2>1, PodBytes
  <1>4. bytes_section(postcard(in.vk)) \in Seq(Byte)
    <2>1. in.vk.id \in Byte /\ in.vk.domain \in Byte
      BY <1>1
    <2>2. postcard(in.vk) \in Seq(Byte)
      BY <2>1 DEF postcard
    <2>3. Len(postcard(in.vk)) \in Nat
      BY <2>2
    <2> QED BY <2>2, <2>3, U64Bytes, ConcatBytes DEF bytes_section
  <1>5. u64_le(in.nc) \in Seq(Byte)
    BY <1>1, U64Bytes
  <1>6. point_section(in.vesta_g) \o point_section(in.wrap_g) \in Seq(Byte)
    BY <1>1, <1>2, ConcatBytes
  <1>7. point_section(basis) \in Seq(Byte)
    BY <1>2
  <1> QED BY <1>3, <1>4, <1>5, <1>6, <1>7, ConcatBytes DEF sections

\* The basis the encoder computes is a sequence of points (get_lagrange_basis).
LEMMA BasisPoints ==
    ASSUME NEW in \in Inputs, NEW vk \in VKs
    PROVE  LagrangeBasis(in.wrap_g, vk.domain) \in Seq(Point)
  <1>1. in.wrap_g \in WrapGs
    BY DEF Inputs
  <1> QED BY <1>1, BlobAssumption

\* The blob is bytes (encode_verifier_blob).
LEMMA EncodedBytes ==
    ASSUME NEW in \in Inputs PROVE encode_verifier_blob(in) \in Seq(Byte)
  <1>1. in.vk \in VKs
    BY DEF Inputs
  <1> QED BY <1>1, BasisPoints, SectionBytes DEF encode_verifier_blob

-----------------------------------------------------------------------------
\* The decoder's primitives, at an offset of the blob.

\* A byte is a number.
LEMMA ByteIsNat == ASSUME NEW b \in Byte PROVE b \in Nat
  BY DEF Byte

\* The length field is a number, whatever its bytes (read_u64_le).
LEMMA U64Value ==
    ASSUME blob \in Seq(Byte), NEW o \in Nat, has(o, U64) PROVE u64_at(o) \in Nat
  <1> DEFINE b1 == blob[o + 1]  b2 == blob[o + 2]  b3 == blob[o + 3]  b4 == blob[o + 4]
             b5 == blob[o + 5]  b6 == blob[o + 6]  b7 == blob[o + 7]  b8 == blob[o + 8]
  <1>1. ASSUME NEW k \in 1..8 PROVE blob[o + k] \in Nat
    <2>1. o + k \in 1..Len(blob)
      BY DEF has, U64
    <2>2. blob[o + k] \in Byte
      BY <2>1
    <2> QED BY <2>2, ByteIsNat
  <1>2. /\ b1 \in Nat /\ b2 \in Nat /\ b3 \in Nat /\ b4 \in Nat
        /\ b5 \in Nat /\ b6 \in Nat /\ b7 \in Nat /\ b8 \in Nat
    BY <1>1
  <1>3. u64_at(o) = b1 + 256 * (b2 + 256 * (b3 + 256 * (b4 + 256 * (b5
                    + 256 * (b6 + 256 * (b7 + 256 * b8))))))
    BY DEF u64_at
  <1> HIDE DEF b1, b2, b3, b4, b5, b6, b7, b8
  <1> QED BY <1>2, <1>3

\* The cast of n bytes yields n / 72 points (bytemuck::cast_slice).
LEMMA PointsRead ==
    ASSUME blob \in Seq(Byte), NEW o \in Nat, NEW n \in Nat, has(o, n)
    PROVE  points_at(o, n) \in Seq(Point) /\ Len(points_at(o, n)) = n \div POD
  <1> DEFINE m == n \div POD
  <1>1. m \in Nat
    BY DEF POD
  <1>2. ASSUME NEW i \in 1..m
        PROVE  [k \in 1..POD |-> blob[o + POD * (i - 1) + k]] \in Point
    <2>1. ASSUME NEW k \in 1..POD PROVE blob[o + POD * (i - 1) + k] \in Byte
      <3>1. o + POD * (i - 1) + k \in 1..Len(blob)
        BY DEF has, POD
      <3> QED BY <3>1
    <2> QED BY <2>1 DEF Point
  <1>3. points_at(o, n) = [i \in 1..m |-> [k \in 1..POD |-> blob[o + POD * (i - 1) + k]]]
    BY DEF points_at
  <1> HIDE DEF m
  <1>4. points_at(o, n) \in [1..m -> Point]
    BY <1>2, <1>3
  <1>5. points_at(o, n) \in Seq(Point) /\ Len(points_at(o, n)) = m
    BY <1>1, <1>4
  <1> QED BY <1>5 DEF m

\* The sizes of a length, a pod and an alignment.
LEMMA U64At == U64 = 8 /\ POD = 72 /\ ALIGN = 8
  BY DEF U64, POD, ALIGN

-----------------------------------------------------------------------------
\* The inductive invariant: in the sections the cursor is a multiple of 8, and it
\* stands at the start of the blob until the first section is read.
Cursor == /\ stage \in Reading => off % 8 = 0
          /\ stage \in {"encode", "ship", "vesta_g"} => off = 0

IInv == TypeOK /\ Cursor

Stages == Reading \cup {"encode", "ship", "assemble", "done", "panic"}

\* A reader of a point section panics or consumes the length field and that many points.
LEMMA PointsStep ==
    ASSUME TypeOK, NEW at, NEW next, NEW field, ReadPoints(at, next, field)
    PROVE  \/ Panic
           \/ /\ has(off, U64) /\ u64_at(off) \in Nat
              /\ has(off + U64, u64_at(off) * POD)
              /\ Advance(off + U64 + u64_at(off) * POD, next, field,
                         points_at(off + U64, u64_at(off) * POD))
  <1>1. off \in Nat /\ blob \in Seq(Byte)
    BY DEF TypeOK
  <1>2. CASE ~has(off, U64)
    BY <1>2 DEF ReadPoints
  <1>3. CASE has(off, U64)
    <2>1. u64_at(off) \in Nat
      BY <1>1, <1>3, U64Value
    <2> DEFINE n == byte_len(u64_at(off))
    <2>2. n.some => n.value = u64_at(off) * POD
      BY DEF byte_len
    <2>3. CASE n.some /\ has(off + U64, n.value) /\ aligned(off + U64)
      BY <1>3, <2>1, <2>2, <2>3 DEF ReadPoints
    <2>4. CASE ~(n.some /\ has(off + U64, n.value) /\ aligned(off + U64))
      BY <1>3, <2>4 DEF ReadPoints
    <2> QED BY <2>3, <2>4
  <1> QED BY <1>2, <1>3

\* After a point section of n points the cursor is in the blob and still aligned.
LEMMA PointsCursor ==
    ASSUME TypeOK, off % 8 = 0, NEW n \in Nat, has(off, U64), has(off + U64, n * POD)
    PROVE  /\ off + U64 + n * POD \in 0..Len(blob)
           /\ (off + U64 + n * POD) % 8 = 0
           /\ points_at(off + U64, n * POD) \in Seq(Point)
           /\ Len(points_at(off + U64, n * POD)) = n
  <1>1. off \in Nat /\ Len(blob) \in Nat /\ blob \in Seq(Byte)
    BY DEF TypeOK
  <1>2. off + U64 + n * POD \in 0..Len(blob) /\ (off + U64 + n * POD) % 8 = 0
    BY <1>1, U64At DEF has
  <1>3. off + U64 \in Nat /\ n * POD \in Nat /\ (n * POD) \div POD = n
    BY <1>1, U64At
  <1>4. /\ points_at(off + U64, n * POD) \in Seq(Point)
        /\ Len(points_at(off + U64, n * POD)) = (n * POD) \div POD
    BY <1>1, <1>3, PointsRead
  <1> QED BY <1>2, <1>3, <1>4

\* A panic of the decoder keeps the invariant (Panic).
LEMMA PanicStep == ASSUME IInv, Panic PROVE IInv'
  <1>1. TypeOK'
    BY DEF IInv, Panic, TypeOK
  <1>2. Cursor'
    BY DEF Panic, Cursor, Reading
  <1> QED BY <1>1, <1>2 DEF IInv

\* A step of the decoder that stays in the blob and stores a section of the right type.
LEMMA AdvanceType ==
    ASSUME TypeOK, NEW o \in 0..Len(blob), NEW next \in Stages, NEW field, NEW value,
           Advance(o, next, field, value), [got EXCEPT ![field] = value] \in Sections
    PROVE  TypeOK'
  BY DEF TypeOK, Advance, Stages

\* The first section (read_vesta_section).
LEMMA ReadVestaGStep == ASSUME IInv, ReadVestaG PROVE IInv'
  <1>1. TypeOK /\ off = 0 /\ off % 8 = 0
    BY DEF IInv, ReadVestaG, ReadPoints, Cursor, Reading
  <1> DEFINE n == u64_at(off)
             ps == points_at(off + U64, n * POD)
  <1>2. SUFFICES ASSUME has(off, U64), n \in Nat, has(off + U64, n * POD),
                        Advance(off + U64 + n * POD, "wrap_g", "vesta_g", ps)
                 PROVE  IInv'
    BY <1>1, PointsStep, PanicStep DEF ReadVestaG
  <1>3. /\ off + U64 + n * POD \in 0..Len(blob) /\ (off + U64 + n * POD) % 8 = 0
        /\ ps \in Seq(Point) /\ Len(ps) = n
    BY <1>1, <1>2, PointsCursor
  <1> HIDE DEF n, ps
  <1>4. got \in Sections /\ "wrap_g" \in Stages
    BY <1>1 DEF TypeOK, Stages, Reading
  <1>5. [got EXCEPT !["vesta_g"] = ps] \in Sections
    BY <1>3, <1>4 DEF Sections
  <1>6. TypeOK'
    BY <1>1, <1>2, <1>3, <1>4, <1>5, AdvanceType
  <1>7. Cursor'
    BY <1>2, <1>3 DEF Advance, Cursor, Reading
  <1> QED BY <1>6, <1>7 DEF IInv

\* The other two point sections.
LEMMA ReadPointsStep ==
    ASSUME IInv, NEW at \in {"wrap_g", "basis"}, NEW next \in {"wrap_h", "nc"},
           NEW field \in {"wrap_g", "basis"}, ReadPoints(at, next, field)
    PROVE  IInv'
  <1>1. TypeOK /\ off % 8 = 0 /\ stage \in Reading \ {"vesta_g"}
    BY DEF IInv, ReadPoints, Cursor, Reading
  <1> DEFINE n == u64_at(off)
             ps == points_at(off + U64, n * POD)
  <1>2. SUFFICES ASSUME has(off, U64), n \in Nat, has(off + U64, n * POD),
                        Advance(off + U64 + n * POD, next, field, ps)
                 PROVE  IInv'
    BY <1>1, PointsStep, PanicStep
  <1>3. /\ off + U64 + n * POD \in 0..Len(blob) /\ (off + U64 + n * POD) % 8 = 0
        /\ ps \in Seq(Point)
    BY <1>1, <1>2, PointsCursor
  <1> HIDE DEF n, ps
  <1>4. got \in Sections /\ next \in Stages
    BY <1>1 DEF TypeOK, Stages, Reading
  <1>5. [got EXCEPT ![field] = ps] \in Sections
    BY <1>3, <1>4 DEF Sections
  <1>6. TypeOK'
    BY <1>1, <1>2, <1>3, <1>4, <1>5, AdvanceType
  <1>7. Cursor'
    BY <1>2, <1>3 DEF Advance, Cursor, Reading
  <1> QED BY <1>6, <1>7 DEF IInv

\* The blinder (read_one_pallas).
LEMMA ReadWrapHStep == ASSUME IInv, ReadWrapH PROVE IInv'
  <1>1. TypeOK /\ off % 8 = 0 /\ stage \in Reading \ {"vesta_g"}
    BY DEF IInv, ReadWrapH, ReadOnePoint, Cursor, Reading
  <1> DEFINE h == points_at(off, POD)[1]
  <1>2. SUFFICES ASSUME has(off, POD), Advance(off + POD, "basis", "wrap_h", h)
                 PROVE  IInv'
    BY PanicStep DEF ReadWrapH, ReadOnePoint
  <1>3. off \in Nat /\ Len(blob) \in Nat /\ blob \in Seq(Byte) /\ POD \in Nat
        /\ POD \div POD = 1
    BY <1>1, U64At DEF TypeOK
  <1>4. off + POD \in 0..Len(blob) /\ (off + POD) % 8 = 0
    BY <1>1, <1>2, <1>3, U64At DEF has
  <1>5. h \in Seq(Byte)
    <2>1. points_at(off, POD) \in Seq(Point) /\ Len(points_at(off, POD)) = 1
      BY <1>2, <1>3, PointsRead
    <2>2. h \in Point
      BY <2>1
    <2> QED BY <1>3, <2>2 DEF Point
  <1> HIDE DEF h
  <1>6. got \in Sections /\ "basis" \in Stages
    BY <1>1 DEF TypeOK, Stages, Reading
  <1>7. [got EXCEPT !["wrap_h"] = h] \in Sections
    BY <1>5, <1>6 DEF Sections
  <1>8. TypeOK'
    BY <1>1, <1>2, <1>4, <1>6, <1>7, AdvanceType
  <1>9. Cursor'
    BY <1>2, <1>4 DEF Advance, Cursor, Reading
  <1> QED BY <1>8, <1>9 DEF IInv

\* The number of chunks (read_u64_le).
LEMMA ReadNumChunksStep == ASSUME IInv, ReadNumChunks PROVE IInv'
  <1>1. TypeOK /\ off % 8 = 0 /\ stage \in Reading \ {"vesta_g"}
    BY DEF IInv, ReadNumChunks, ReadU64, Cursor, Reading
  <1> DEFINE n == u64_at(off)
  <1>2. SUFFICES ASSUME has(off, U64), Advance(off + U64, "vk", "nc", n) PROVE IInv'
    BY PanicStep DEF ReadNumChunks, ReadU64
  <1>3. off \in Nat /\ Len(blob) \in Nat /\ blob \in Seq(Byte)
    BY <1>1 DEF TypeOK
  <1>4. off + U64 \in 0..Len(blob) /\ (off + U64) % 8 = 0
    BY <1>1, <1>2, <1>3, U64At DEF has
  <1>5. n \in Nat
    BY <1>2, <1>3, U64Value
  <1> HIDE DEF n
  <1>6. got \in Sections /\ "vk" \in Stages
    BY <1>1 DEF TypeOK, Stages, Reading
  <1>7. [got EXCEPT !["nc"] = n] \in Sections
    BY <1>5, <1>6 DEF Sections
  <1>8. TypeOK'
    BY <1>1, <1>2, <1>4, <1>6, <1>7, AdvanceType
  <1>9. Cursor'
    BY <1>2, <1>4 DEF Advance, Cursor, Reading
  <1> QED BY <1>8, <1>9 DEF IInv

\* The only section that may end unaligned: nothing is cast after it.
LEMMA ReadVkStep == ASSUME IInv, ReadVk PROVE IInv'
  <1>1. TypeOK /\ stage \in Reading \ {"vesta_g"}
    BY DEF IInv, ReadVk, ReadBytes, Reading
  <1> DEFINE n == u64_at(off)
             o == off + U64
             bytes == SubSeq(blob, o + 1, o + n)
  <1>2. SUFFICES ASSUME has(off, U64), has(o, n),
                        Advance(o + n, "assemble", "vk_bytes", bytes)
                 PROVE  IInv'
    BY PanicStep DEF ReadVk, ReadBytes
  <1>3. off \in Nat /\ Len(blob) \in Nat /\ blob \in Seq(Byte)
    BY <1>1 DEF TypeOK
  <1>4. n \in Nat
    BY <1>2, <1>3, U64Value
  <1> HIDE DEF n
  <1>5. o + n \in 0..Len(blob)
    BY <1>2, <1>3, <1>4, U64At DEF has
  <1>6. bytes \in Seq(Byte)
    <2>1. o + 1 \in 1..(Len(blob) + 1)
      BY <1>3, <1>4, <1>5, U64At
    <2> QED BY <1>3, <1>5, <2>1
  <1> HIDE DEF bytes, o
  <1>7. got \in Sections /\ "assemble" \in Stages
    BY <1>1 DEF TypeOK, Stages, Reading
  <1>8. [got EXCEPT !["vk_bytes"] = bytes] \in Sections
    BY <1>6, <1>7 DEF Sections
  <1>9. TypeOK'
    BY <1>1, <1>2, <1>5, <1>7, <1>8, AdvanceType
  <1>10. Cursor'
    BY <1>2 DEF Advance, Cursor, Reading
  <1> QED BY <1>9, <1>10 DEF IInv

\* Putting the verifier together moves no cursor (decode_verifier_blob).
LEMMA AssembleStep == ASSUME IInv, Assemble PROVE IInv'
  <1>1. CASE Panic
    BY <1>1, PanicStep
  <1>2. CASE stage' = "done" /\ UNCHANGED <<input, blob, off, got>>
    <2>1. TypeOK'
      BY <1>2 DEF IInv, TypeOK
    <2>2. Cursor'
      BY <1>2 DEF Cursor, Reading
    <2> QED BY <2>1, <2>2 DEF IInv
  <1> QED BY <1>1, <1>2 DEF Assemble

\* Before the first section is read any sequence of bytes may stand in the blob.
LEMMA NewBlobStep ==
    ASSUME IInv, stage \in {"encode", "ship"}, NEW b \in Seq(Byte), blob' = b,
           stage' \in {"ship", "vesta_g"}, UNCHANGED <<input, off, got>>
    PROVE  IInv'
  <1>1. off' = 0
    BY DEF IInv, Cursor
  <1>2. off' \in 0..Len(blob')
    BY <1>1
  <1>3. stage' \in Stages
    BY DEF Stages, Reading
  <1>4. TypeOK'
    BY <1>2, <1>3 DEF IInv, TypeOK, Stages
  <1>5. Cursor'
    BY <1>1 DEF Cursor
  <1> QED BY <1>4, <1>5 DEF IInv

\* Nothing is encoded at first (Init).
LEMMA InitIInv == Init => IInv
  <1> SUFFICES ASSUME Init PROVE IInv
    OBVIOUS
  <1>1. Nothing \in Sections
    BY DEF Nothing, Sections
  <1>2. TypeOK
    BY <1>1 DEF Init, TypeOK
  <1>3. Cursor
    BY DEF Init, Cursor, Reading
  <1> QED BY <1>2, <1>3 DEF IInv

\* Every step keeps the invariant: one case for each action (Next).
LEMMA NextIInv == IInv /\ [Next]_vars => IInv'
  <1> SUFFICES ASSUME IInv, [Next]_vars PROVE IInv'
    OBVIOUS
  <1>0. input \in Inputs /\ blob \in Seq(Byte)
    BY DEF IInv, TypeOK
  <1>1. CASE Encode
    BY <1>0, <1>1, EncodedBytes, NewBlobStep DEF Encode
  <1>2. CASE EncodePanics
    BY <1>2, PanicStep DEF EncodePanics
  <1>3. CASE Ship
    BY <1>0, <1>3, NewBlobStep DEF Ship
  <1>4. CASE Truncate
    <2>1. PICK n \in 0..(Len(blob) - 1) : blob' = SubSeq(blob, 1, n)
      BY <1>4 DEF Truncate
    <2>2. SubSeq(blob, 1, n) \in Seq(Byte)
      BY <1>0
    <2> QED BY <1>4, <2>1, <2>2, NewBlobStep DEF Truncate
  <1>5. CASE Relength
    <2>1. PICK o \in length_fields(input), n \in Byte : blob' = [blob EXCEPT ![o + 3] = n]
      BY <1>5 DEF Relength
    <2>2. [blob EXCEPT ![o + 3] = n] \in Seq(Byte)
      <3>1. Len(blob) \in Nat /\ blob \in [1..Len(blob) -> Byte]
        BY <1>0
      <3>2. [blob EXCEPT ![o + 3] = n] \in [1..Len(blob) -> Byte]
        BY <3>1
      <3> QED BY <3>1, <3>2
    <2> QED BY <1>5, <2>1, <2>2, NewBlobStep DEF Relength
  <1>6. CASE Rebase
    <2>1. PICK vk \in VKs : blob' = sections(input, LagrangeBasis(input.wrap_g, vk.domain))
      BY <1>6 DEF Rebase
    <2>2. sections(input, LagrangeBasis(input.wrap_g, vk.domain)) \in Seq(Byte)
      BY <1>0, BasisPoints, SectionBytes
    <2> QED BY <1>6, <2>1, <2>2, NewBlobStep DEF Rebase
  <1>7. CASE ReadVestaG
    BY <1>7, ReadVestaGStep
  <1>8. CASE ReadWrapG
    BY <1>8, ReadPointsStep DEF ReadWrapG
  <1>9. CASE ReadWrapH
    BY <1>9, ReadWrapHStep
  <1>10. CASE ReadBasis
    BY <1>10, ReadPointsStep DEF ReadBasis
  <1>11. CASE ReadNumChunks
    BY <1>11, ReadNumChunksStep
  <1>12. CASE ReadVk
    BY <1>12, ReadVkStep
  <1>13. CASE Assemble
    BY <1>13, AssembleStep
  <1>14. CASE UNCHANGED vars
    BY <1>14 DEF vars, IInv, TypeOK, Cursor
  <1> QED BY <1>1, <1>2, <1>3, <1>4, <1>5, <1>6, <1>7, <1>8, <1>9, <1>10, <1>11, <1>12,
             <1>13, <1>14 DEF Next

-----------------------------------------------------------------------------
\* The decoder's cursor never leaves the blob, whatever its bytes (read_*_section).
THEOREM CursorInBlob == Spec => []TypeOK
  <1>1. IInv => TypeOK
    BY DEF IInv
  <1> QED BY InitIInv, NextIInv, <1>1, PTL DEF Spec

\* Every pod cast is made at an aligned address: the casts never panic when the blob
\* itself is aligned, as the guest's Aligned wrapper makes it (BaseAssumption).
THEOREM CastsAlwaysAligned == Spec => []CastsAligned
  <1>1. IInv => CastsAligned
    <2> SUFFICES ASSUME IInv, stage \in Reading
                 PROVE  (Base + off) % 8 = 0 /\ (Base + (off + 8)) % 8 = 0
      BY U64At DEF CastsAligned, aligned
    <2>1. off \in Nat /\ off % 8 = 0
      BY DEF IInv, TypeOK, Cursor
    <2>2. Base \in Nat /\ Base % 8 = 0
      BY BlobAssumption, BaseAssumption, U64At
    <2> QED BY <2>1, <2>2
  <1> QED BY InitIInv, NextIInv, <1>1, PTL DEF Spec

-----------------------------------------------------------------------------
\* The length fields.

\* Until the basis is read the cursor stands where its predecessors' lengths put it.
Places == /\ stage = "wrap_g" => off = WrapGField
          /\ stage = "wrap_h" => off + POD = BasisField
          /\ stage = "basis" => off = BasisField

Fields == Places /\ LengthFieldHonoured

\* Before a section is read, and after a panic, nothing is said.
LEMMA NoFields ==
    ASSUME stage' \in {"encode", "ship", "vesta_g", "panic"}  PROVE Fields'
  BY DEF Fields, Places, LengthFieldHonoured

\* A length field is where it was, and says the same, while the blob and the generators that
\* precede it stay.
LEMMA SameFields ==
    ASSUME blob' = blob
    PROVE  /\ u64_at(0)' = u64_at(0)
           /\ got'.vesta_g = got.vesta_g =>
                 /\ WrapGField' = WrapGField
                 /\ u64_at(WrapGField)' = u64_at(WrapGField)
           /\ got'.vesta_g = got.vesta_g /\ got'.wrap_g = got.wrap_g =>
                 /\ BasisField' = BasisField
                 /\ u64_at(BasisField)' = u64_at(BasisField)
  <1>1. \A o : u64_at(o)' = u64_at(o)
    BY DEF u64_at
  <1>2. ASSUME got'.vesta_g = got.vesta_g
        PROVE  /\ WrapGField' = WrapGField
               /\ u64_at(WrapGField)' = u64_at(WrapGField)
    BY <1>2 DEF WrapGField, u64_at
  <1>3. ASSUME got'.vesta_g = got.vesta_g, got'.wrap_g = got.wrap_g
        PROVE  /\ BasisField' = BasisField
               /\ u64_at(BasisField)' = u64_at(BasisField)
    BY <1>3 DEF BasisField, WrapGField, u64_at
  <1> QED BY <1>1, <1>2, <1>3

\* The first section (read_vesta_section).
LEMMA ReadVestaGFields == ASSUME IInv, ReadVestaG PROVE Fields'
  <1>1. TypeOK /\ off = 0 /\ off % 8 = 0
    BY DEF IInv, ReadVestaG, ReadPoints, Cursor, Reading
  <1> DEFINE n == u64_at(off)
             ps == points_at(off + U64, n * POD)
  <1>2. SUFFICES ASSUME has(off, U64), n \in Nat, has(off + U64, n * POD),
                        Advance(off + U64 + n * POD, "wrap_g", "vesta_g", ps)
                 PROVE  Fields'
    BY <1>1, PointsStep, NoFields DEF ReadVestaG, Panic
  <1>3. Len(ps) = n /\ u64_at(0) = n
    BY <1>1, <1>2, PointsCursor
  <1> HIDE DEF n, ps
  <1>4. /\ stage' = "wrap_g" /\ blob' = blob /\ got'.vesta_g = ps
        /\ off' = off + U64 + n * POD
    BY <1>1, <1>2 DEF Advance, TypeOK, Sections
  <1>5. off' = WrapGField'
    BY <1>1, <1>2, <1>3, <1>4, U64At DEF WrapGField
  <1>6. Len(got.vesta_g)' = u64_at(0)'
    BY <1>3, <1>4, SameFields
  <1> QED BY <1>4, <1>5, <1>6 DEF Fields, Places, LengthFieldHonoured

\* The wrap generators (read_pallas_section).
LEMMA ReadWrapGFields == ASSUME IInv, Fields, ReadWrapG PROVE Fields'
  <1>1. /\ TypeOK /\ off % 8 = 0 /\ stage = "wrap_g" /\ off = WrapGField
        /\ Len(got.vesta_g) = u64_at(0)
    BY DEF IInv, ReadWrapG, ReadPoints, Cursor, Reading, Fields, Places, LengthFieldHonoured
  <1> DEFINE n == u64_at(off)
             ps == points_at(off + U64, n * POD)
  <1>2. SUFFICES ASSUME has(off, U64), n \in Nat, has(off + U64, n * POD),
                        Advance(off + U64 + n * POD, "wrap_h", "wrap_g", ps)
                 PROVE  Fields'
    BY <1>1, PointsStep, NoFields DEF ReadWrapG, Panic
  <1>3. Len(ps) = n /\ u64_at(WrapGField) = n
    BY <1>1, <1>2, PointsCursor
  <1> HIDE DEF n, ps
  <1>4. /\ stage' = "wrap_h" /\ blob' = blob /\ got'.wrap_g = ps
        /\ got'.vesta_g = got.vesta_g /\ off' = off + U64 + n * POD
    BY <1>1, <1>2 DEF Advance, TypeOK, Sections
  <1>5. /\ WrapGField' = WrapGField /\ u64_at(0)' = u64_at(0)
        /\ u64_at(WrapGField)' = u64_at(WrapGField)
    BY <1>4, SameFields
  <1>6. off' + POD = BasisField'
    <2>1. off \in Nat
      BY <1>1 DEF TypeOK
    <2>2. BasisField' = WrapGField' + U64 + POD * Len(ps) + POD
      BY <1>4 DEF BasisField
    <2> QED BY <1>1, <1>2, <1>3, <1>4, <1>5, <2>1, <2>2, U64At
  <1>7. Len(got.vesta_g)' = u64_at(0)' /\ Len(got.wrap_g)' = u64_at(WrapGField)'
    BY <1>1, <1>3, <1>4, <1>5
  <1> QED BY <1>4, <1>6, <1>7 DEF Fields, Places, LengthFieldHonoured

\* The blinder (read_one_pallas).
LEMMA ReadWrapHFields == ASSUME IInv, Fields, ReadWrapH PROVE Fields'
  <1>1. /\ TypeOK /\ stage = "wrap_h" /\ off + POD = BasisField
        /\ Len(got.vesta_g) = u64_at(0) /\ Len(got.wrap_g) = u64_at(WrapGField)
    BY DEF IInv, ReadWrapH, ReadOnePoint, Fields, Places, LengthFieldHonoured
  <1> DEFINE h == points_at(off, POD)[1]
  <1>2. SUFFICES ASSUME Advance(off + POD, "basis", "wrap_h", h)  PROVE Fields'
    BY NoFields DEF ReadWrapH, ReadOnePoint, Panic
  <1> HIDE DEF h
  <1>3. /\ stage' = "basis" /\ blob' = blob /\ off' = off + POD
        /\ got'.vesta_g = got.vesta_g /\ got'.wrap_g = got.wrap_g
    BY <1>1, <1>2 DEF Advance, TypeOK, Sections
  <1> QED BY <1>1, <1>3, SameFields DEF Fields, Places, LengthFieldHonoured

\* The basis (read_pallas_section).
LEMMA ReadBasisFields == ASSUME IInv, Fields, ReadBasis PROVE Fields'
  <1>1. /\ TypeOK /\ off % 8 = 0 /\ stage = "basis" /\ off = BasisField
        /\ Len(got.vesta_g) = u64_at(0) /\ Len(got.wrap_g) = u64_at(WrapGField)
    BY DEF IInv, ReadBasis, ReadPoints, Cursor, Reading, Fields, Places, LengthFieldHonoured
  <1> DEFINE n == u64_at(off)
             ps == points_at(off + U64, n * POD)
  <1>2. SUFFICES ASSUME has(off, U64), n \in Nat, has(off + U64, n * POD),
                        Advance(off + U64 + n * POD, "nc", "basis", ps)
                 PROVE  Fields'
    BY <1>1, PointsStep, NoFields DEF ReadBasis, Panic
  <1>3. Len(ps) = n /\ u64_at(BasisField) = n
    BY <1>1, <1>2, PointsCursor
  <1> HIDE DEF n, ps
  <1>4. /\ stage' = "nc" /\ blob' = blob /\ got'.basis = ps
        /\ got'.vesta_g = got.vesta_g /\ got'.wrap_g = got.wrap_g
    BY <1>1, <1>2 DEF Advance, TypeOK, Sections
  <1>5. /\ Len(got.vesta_g)' = u64_at(0)' /\ Len(got.wrap_g)' = u64_at(WrapGField)'
        /\ Len(got.basis)' = u64_at(BasisField)'
    BY <1>1, <1>3, <1>4, SameFields
  <1> QED BY <1>4, <1>5 DEF Fields, Places, LengthFieldHonoured

\* What comes after the point sections stores nothing of theirs.
LEMMA LaterFields ==
    ASSUME IInv, Fields, ReadNumChunks \/ ReadVk \/ Assemble  PROVE Fields'
  <1>1. /\ TypeOK /\ stage \in {"nc", "vk", "assemble"}
        /\ Len(got.vesta_g) = u64_at(0) /\ Len(got.wrap_g) = u64_at(WrapGField)
        /\ Len(got.basis) = u64_at(BasisField)
    BY DEF IInv, ReadNumChunks, ReadU64, ReadVk, ReadBytes, Assemble, Fields,
       LengthFieldHonoured
  <1>2. \/ Panic
        \/ \E o, v : Advance(o, "vk", "nc", v) \/ Advance(o, "assemble", "vk_bytes", v)
        \/ stage' = "done" /\ blob' = blob /\ got' = got
    BY DEF ReadNumChunks, ReadU64, ReadVk, ReadBytes, Assemble
  <1>3. CASE Panic
    BY <1>3, NoFields DEF Panic
  <1>4. CASE ~Panic
    <2>1. /\ stage' \in {"vk", "assemble", "done"} /\ blob' = blob
          /\ got'.vesta_g = got.vesta_g /\ got'.wrap_g = got.wrap_g /\ got'.basis = got.basis
      BY <1>1, <1>2, <1>4 DEF Advance, TypeOK, Sections
    <2> QED BY <1>1, <2>1, SameFields DEF Fields, Places, LengthFieldHonoured
  <1> QED BY <1>3, <1>4

\* Every step keeps them: one case for each reader (Next).
LEMMA NextFields == IInv /\ Fields /\ [Next]_vars => Fields'
  <1> SUFFICES ASSUME IInv, Fields, [Next]_vars PROVE Fields'
    OBVIOUS
  <1>1. CASE Encode \/ EncodePanics \/ Ship \/ Truncate \/ Relength \/ Rebase
    BY <1>1, NoFields DEF Encode, EncodePanics, Panic, Ship, Truncate, Relength, Rebase
  <1>2. CASE UNCHANGED vars
    <2>1. stage' = stage /\ off' = off /\ got' = got /\ blob' = blob
      BY <1>2 DEF vars
    <2> QED BY <2>1, SameFields DEF Fields, Places, LengthFieldHonoured
  <1> QED BY <1>1, <1>2, ReadVestaGFields, ReadWrapGFields, ReadWrapHFields, ReadBasisFields,
             LaterFields DEF Next

\* Each point section holds as many points as its length field says, whatever the bytes of
\* the blob and the width of usize (checked_mul).
THEOREM LengthAlwaysHonoured == Spec => []LengthFieldHonoured
  <1>1. Init => Fields
    BY DEF Init, Fields, Places, LengthFieldHonoured
  <1>2. Fields => LengthFieldHonoured
    BY DEF Fields
  <1> QED BY InitIInv, NextIInv, NextFields, <1>1, <1>2, PTL DEF Spec

-----------------------------------------------------------------------------
\* What a whole blob holds where, and that the readers return it.

\* The bytes s stand in w from offset o on.
Holds(w, o, s) == o + Len(s) <= Len(w) /\ \A k \in 1..Len(s) : w[o + k] = s[k]

\* A concatenation holds its parts, one after the other.
LEMMA JoinHolds ==
    ASSUME NEW s \in Seq(Byte), NEW t \in Seq(Byte)
    PROVE  /\ s \o t \in Seq(Byte) /\ Len(s \o t) = Len(s) + Len(t)
           /\ Holds(s \o t, 0, s) /\ Holds(s \o t, Len(s), t)
<1>1. s \o t \in Seq(Byte) /\ Len(s \o t) = Len(s) + Len(t)
  OBVIOUS
<1>2. \A k \in 1..Len(s) : (s \o t)[0 + k] = s[k]
  OBVIOUS
<1>3. \A k \in 1..Len(t) : (s \o t)[Len(s) + k] = t[k]
  OBVIOUS
<1>. QED  BY <1>1, <1>2, <1>3 DEF Holds

\* A part of a part is a part.
LEMMA HoldsWithin ==
    ASSUME NEW w \in Seq(Byte), NEW s \in Seq(Byte), NEW u \in Seq(Byte),
           NEW o \in Nat, NEW p \in Nat, NEW q \in Nat, q = o + p,
           Holds(w, o, s), Holds(s, p, u)
    PROVE  Holds(w, q, u)
<1>1. Len(w) \in Nat /\ Len(s) \in Nat /\ Len(u) \in Nat
  OBVIOUS
<1>2. ASSUME NEW k \in 1..Len(u)  PROVE w[q + k] = u[k]
  <2>1. p + k \in 1..Len(s) /\ q + k = o + (p + k)
    BY <1>1 DEF Holds
  <2>. QED  BY <2>1 DEF Holds
<1>. QED  BY <1>1, <1>2 DEF Holds

\* The lengths of the encoded pieces (u64_le, pod_bytes, postcard).
LEMMA PieceLengths ==
    /\ \A n \in Nat : Len(u64_le(n)) = 8
    /\ \A ps \in Seq(Point) : Len(pod_bytes(ps)) = POD * Len(ps)
    /\ \A h \in Point : <<h>> \in Seq(Point) /\ Len(pod_bytes(<<h>>)) = POD
<1>1. ASSUME NEW ps \in Seq(Point)  PROVE Len(pod_bytes(ps)) = POD * Len(ps)
  <2>. DEFINE n == POD * Len(ps)
  <2>1. n \in Nat
    BY U64At
  <2>. HIDE DEF n
  <2>2. DOMAIN pod_bytes(ps) = 1..n
    BY DEF pod_bytes, n
  <2>3. pod_bytes(ps) \in Seq(Byte)
    BY PodBytes
  <2>4. Len(pod_bytes(ps)) = n
    BY <2>1, <2>2, <2>3
  <2>. QED  BY <2>4 DEF n
<1>2. ASSUME NEW h \in Point  PROVE <<h>> \in Seq(Point) /\ Len(pod_bytes(<<h>>)) = POD
  <2>1. <<h>> \in Seq(Point) /\ Len(<<h>>) = 1
    OBVIOUS
  <2>2. Len(pod_bytes(<<h>>)) = POD * 1
    BY <1>1, <2>1
  <2>. QED  BY <2>1, <2>2, U64At
<1>. QED  BY <1>1, <1>2 DEF u64_le

\* Where the sections begin, and where the blob ends (encode_verifier_blob).
Basis == LagrangeBasis(input.wrap_g, input.vk.domain)
AtWrapG == 8 + 72 * Len(input.vesta_g)
AtWrapH == AtWrapG + 8 + 72 * Len(input.wrap_g)
AtBasis == AtWrapH + 72
AtNumChunks == AtBasis + 8 + 72 * Len(Basis)
AtVk == AtNumChunks + 8
End == AtVk + 8 + 2

\* A point section is its length and its points (point_section).
HoldsPoints(w, o, ps) == Holds(w, o, u64_le(Len(ps))) /\ Holds(w, o + 8, pod_bytes(ps))

\* An encoded section holds its length, then its points (write_vesta_section).
LEMMA SectionHolds ==
    ASSUME NEW ps \in Seq(Point)
    PROVE  /\ point_section(ps) \in Seq(Byte) /\ Len(point_section(ps)) = 8 + 72 * Len(ps)
           /\ HoldsPoints(point_section(ps), 0, ps)
<1>1. /\ u64_le(Len(ps)) \in Seq(Byte) /\ pod_bytes(ps) \in Seq(Byte)
      /\ Len(u64_le(Len(ps))) = 8 /\ Len(pod_bytes(ps)) = 72 * Len(ps)
  BY U64Bytes, PodBytes, PieceLengths, U64At
<1>2. /\ point_section(ps) \in Seq(Byte) /\ Len(point_section(ps)) = 8 + 72 * Len(ps)
      /\ Holds(point_section(ps), 0, u64_le(Len(ps)))
      /\ Holds(point_section(ps), Len(u64_le(Len(ps))), pod_bytes(ps))
  BY <1>1, JoinHolds, Zenon DEF point_section
<1>3. 0 + 8 = 8
  OBVIOUS
<1>. QED  BY <1>1, <1>2, <1>3, Zenon DEF HoldsPoints

\* A section within a part of the blob is in the blob.
LEMMA PointsWithin ==
    ASSUME NEW w \in Seq(Byte), NEW s \in Seq(Byte), NEW ps \in Seq(Point),
           NEW o \in Nat, NEW p \in Nat, NEW q \in Nat, q = o + p,
           Holds(w, o, s), HoldsPoints(s, p, ps)
    PROVE  HoldsPoints(w, q, ps)
<1>. DEFINE p8 == p + 8
            q8 == q + 8
<1>1. u64_le(Len(ps)) \in Seq(Byte) /\ pod_bytes(ps) \in Seq(Byte)
  BY U64Bytes, PodBytes
<1>2. Holds(s, p, u64_le(Len(ps))) /\ Holds(s, p8, pod_bytes(ps))
  BY DEF HoldsPoints
<1>3. p8 \in Nat /\ q8 \in Nat /\ q8 = o + p8
  OBVIOUS
<1>. HIDE DEF p8, q8
<1>4. Holds(w, q, u64_le(Len(ps))) /\ Holds(w, q8, pod_bytes(ps))
  BY <1>1, <1>2, <1>3, HoldsWithin
<1>. QED  BY <1>4 DEF HoldsPoints, q8

\* Every section of a whole blob is in its place (sections).
Layout(w) ==
    /\ w \in Seq(Byte) /\ Len(w) = End
    /\ HoldsPoints(w, 0, input.vesta_g)
    /\ HoldsPoints(w, AtWrapG, input.wrap_g)
    /\ Holds(w, AtWrapH, pod_bytes(<<input.wrap_h>>))
    /\ HoldsPoints(w, AtBasis, Basis)
    /\ Holds(w, AtNumChunks, u64_le(input.nc))
    /\ Holds(w, AtVk, u64_le(2)) /\ Holds(w, AtVk + 8, postcard(input.vk))

\* The arguments of the encoder have their types and sizes (Inputs).
LEMMA InputTypes ==
    ASSUME input \in Inputs
    PROVE  /\ input.vesta_g \in Seq(Point) /\ input.wrap_g \in Seq(Point)
           /\ input.wrap_h \in Point /\ input.nc \in Byte /\ input.vk \in VKs
           /\ input.vk \in [id : Byte, domain : Byte]
           /\ Basis \in Seq(Point)
           /\ Fits(Len(input.vesta_g)) /\ Fits(Len(input.wrap_g)) /\ Fits(Len(Basis))
<1>1. /\ input.vesta_g \in VestaGs /\ input.wrap_g \in WrapGs /\ input.wrap_h = H
      /\ input.nc = NumChunks /\ input.vk \in VKs
  BY DEF Inputs
<1>. QED  BY <1>1, BlobAssumption, SizeAssumption DEF Basis

\* The positions are numbers.
LEMMA Positions ==
    ASSUME input \in Inputs
    PROVE  /\ AtWrapG \in Nat /\ AtWrapH \in Nat /\ AtBasis \in Nat /\ AtNumChunks \in Nat
           /\ AtVk \in Nat /\ End \in Nat
<1>. DEFINE a == Len(input.vesta_g)
            b == Len(input.wrap_g)
            c == Len(Basis)
<1>1. a \in Nat /\ b \in Nat /\ c \in Nat
  BY InputTypes
<1>2. /\ AtWrapG = 8 + 72 * a /\ AtWrapH = AtWrapG + 8 + 72 * b /\ AtBasis = AtWrapH + 72
      /\ AtNumChunks = AtBasis + 8 + 72 * c /\ AtVk = AtNumChunks + 8 /\ End = AtVk + 8 + 2
  BY Zenon DEF AtWrapG, AtWrapH, AtBasis, AtNumChunks, AtVk, End
<1>. HIDE DEF a, b, c
<1>. QED  BY <1>1, <1>2

\* The encoder puts every section in its place (encode_verifier_blob).
LEMMA EncodedLayout ==
    ASSUME input \in Inputs  PROVE Layout(encode_verifier_blob(input))
<1>. DEFINE p1 == point_section(input.vesta_g)
            p2 == point_section(input.wrap_g)
            p3 == pod_bytes(<<input.wrap_h>>)
            p4 == point_section(Basis)
            p5 == u64_le(input.nc)
            pc == postcard(input.vk)
            p6 == bytes_section(pc)
            j2 == p1 \o p2
            j3 == j2 \o p3
            j4 == j3 \o p4
            j5 == j4 \o p5
            j6 == j5 \o p6
<1>1. encode_verifier_blob(input) = j6
  BY DEF encode_verifier_blob, sections, Basis
<1>2. /\ p1 \in Seq(Byte) /\ Len(p1) = AtWrapG /\ HoldsPoints(p1, 0, input.vesta_g)
      /\ p2 \in Seq(Byte) /\ Len(p2) = 8 + 72 * Len(input.wrap_g)
      /\ HoldsPoints(p2, 0, input.wrap_g)
      /\ p4 \in Seq(Byte) /\ Len(p4) = 8 + 72 * Len(Basis) /\ HoldsPoints(p4, 0, Basis)
  BY InputTypes, SectionHolds DEF AtWrapG
<1>3. p3 \in Seq(Byte) /\ Len(p3) = 72
  BY InputTypes, PodBytes, PieceLengths, U64At
<1>4. p5 \in Seq(Byte) /\ Len(p5) = 8
  BY InputTypes, ByteIsNat, U64Bytes, PieceLengths
<1>5. pc \in Seq(Byte) /\ Len(pc) = 2
  <2>1. input.vk.id \in Byte /\ input.vk.domain \in Byte
    BY InputTypes
  <2>. QED  BY <2>1 DEF postcard
<1>. HIDE DEF pc
<1>6. /\ p6 \in Seq(Byte) /\ Len(p6) = 10
      /\ Holds(p6, 0, u64_le(2)) /\ Holds(p6, 8, pc) /\ u64_le(2) \in Seq(Byte)
  <2>1. u64_le(2) \in Seq(Byte) /\ Len(u64_le(2)) = 8
    BY U64Bytes, PieceLengths
  <2>2. p6 = u64_le(2) \o pc
    BY <1>5 DEF bytes_section
  <2>3. /\ p6 \in Seq(Byte) /\ Len(p6) = Len(u64_le(2)) + Len(pc)
        /\ Holds(p6, 0, u64_le(2)) /\ Holds(p6, Len(u64_le(2)), pc)
    BY <1>5, <2>1, <2>2, JoinHolds, Zenon
  <2>4. 8 + 2 = 10
    OBVIOUS
  <2>. QED  BY <1>5, <2>1, <2>3, <2>4, Zenon
<1>. HIDE DEF p1, p2, p3, p4, p5, p6
<1>7. /\ j2 \in Seq(Byte) /\ Len(j2) = Len(p1) + Len(p2)
      /\ Holds(j2, 0, p1) /\ Holds(j2, Len(p1), p2)
  BY <1>2, JoinHolds
<1>. HIDE DEF j2
<1>8. /\ j3 \in Seq(Byte) /\ Len(j3) = Len(j2) + Len(p3)
      /\ Holds(j3, 0, j2) /\ Holds(j3, Len(j2), p3)
  BY <1>3, <1>7, JoinHolds
<1>. HIDE DEF j3
<1>9. /\ j4 \in Seq(Byte) /\ Len(j4) = Len(j3) + Len(p4)
      /\ Holds(j4, 0, j3) /\ Holds(j4, Len(j3), p4)
  BY <1>2, <1>8, JoinHolds
<1>. HIDE DEF j4
<1>10. /\ j5 \in Seq(Byte) /\ Len(j5) = Len(j4) + Len(p5)
       /\ Holds(j5, 0, j4) /\ Holds(j5, Len(j4), p5)
  BY <1>4, <1>9, JoinHolds
<1>. HIDE DEF j5
<1>11. /\ j6 \in Seq(Byte) /\ Len(j6) = Len(j5) + Len(p6)
       /\ Holds(j6, 0, j5) /\ Holds(j6, Len(j5), p6)
  BY <1>6, <1>10, JoinHolds
<1>. HIDE DEF j6
<1>12. /\ Len(p1) = AtWrapG /\ Len(j2) = AtWrapH /\ Len(j3) = AtBasis /\ Len(j4) = AtNumChunks
       /\ Len(j5) = AtVk /\ Len(j6) = End
  <2>. DEFINE b == 72 * Len(input.wrap_g)
              c == 72 * Len(Basis)
  <2>1. /\ AtWrapH = AtWrapG + 8 + b /\ AtBasis = AtWrapH + 72 /\ AtNumChunks = AtBasis + 8 + c
        /\ AtVk = AtNumChunks + 8 /\ End = AtVk + 8 + 2 /\ Len(p2) = 8 + b /\ Len(p4) = 8 + c
        /\ Len(p1) = AtWrapG
    BY <1>2, Zenon DEF AtWrapH, AtBasis, AtNumChunks, AtVk, End
  <2>2. b \in Nat /\ c \in Nat /\ AtWrapG \in Nat
    BY InputTypes, Positions
  <2>. HIDE DEF b, c
  <2>3. Len(j2) = AtWrapH
    BY <1>7, <2>1, <2>2
  <2>4. Len(j3) = AtBasis
    BY <1>3, <1>8, <2>1, <2>3
  <2>5. Len(j4) = AtNumChunks
    BY <1>9, <2>1, <2>2, <2>4, Positions
  <2>6. Len(j5) = AtVk
    BY <1>4, <1>10, <2>1, <2>5
  <2>7. Len(j6) = End
    BY <1>6, <1>11, <2>1, <2>6, Positions
  <2>. QED  BY <1>2, <2>3, <2>4, <2>5, <2>6, <2>7
<1>13. /\ AtWrapG \in Nat /\ AtWrapH \in Nat /\ AtBasis \in Nat /\ AtNumChunks \in Nat
       /\ AtVk \in Nat /\ 0 \in Nat /\ 8 \in Nat
  BY Positions
<1>14. \A x \in Nat : x = 0 + x /\ x = x + 0
  OBVIOUS
\* Down from the whole to each section: everything before the last begins at 0.
<1>15. Holds(j6, 0, j4) /\ Holds(j6, AtNumChunks, p5)
  BY <1>4, <1>9, <1>10, <1>11, <1>12, <1>13, <1>14, HoldsWithin, Zenon
<1>16. Holds(j6, 0, j3) /\ Holds(j6, AtBasis, p4)
  BY <1>2, <1>8, <1>9, <1>11, <1>12, <1>13, <1>14, <1>15, HoldsWithin, Zenon
<1>17. Holds(j6, 0, j2) /\ Holds(j6, AtWrapH, p3)
  BY <1>3, <1>7, <1>8, <1>11, <1>12, <1>13, <1>14, <1>16, HoldsWithin, Zenon
<1>18. Holds(j6, 0, p1) /\ Holds(j6, AtWrapG, p2)
  <2>1. p1 \in Seq(Byte) /\ p2 \in Seq(Byte) /\ Holds(j2, AtWrapG, p2)
    BY <1>2, <1>7, Zenon
  <2>. QED  BY <1>7, <1>11, <1>13, <1>14, <1>17, <2>1, HoldsWithin, Zenon
<1>19. Holds(j6, AtVk, u64_le(2)) /\ Holds(j6, AtVk + 8, pc)
  <2>1. AtVk + 8 \in Nat /\ Holds(j6, AtVk, p6)
    BY <1>11, <1>12, <1>13
  <2>2. Holds(j6, AtVk, u64_le(2))
    BY <1>6, <1>11, <1>13, <1>14, <2>1, HoldsWithin, Zenon
  <2>. DEFINE q == AtVk + 8
  <2>3. q \in Nat /\ q = AtVk + 8
    BY <2>1
  <2>. HIDE DEF q
  <2>4. Holds(j6, q, pc)
    BY <1>5, <1>6, <1>11, <1>13, <2>1, <2>3, HoldsWithin
  <2>. QED  BY <2>2, <2>4 DEF q
<1>20. HoldsPoints(j6, 0, input.vesta_g)
  BY <1>2, <1>11, <1>13, <1>14, <1>18, InputTypes, PointsWithin, Zenon
<1>21. HoldsPoints(j6, AtWrapG, input.wrap_g)
  BY <1>2, <1>11, <1>13, <1>14, <1>18, InputTypes, PointsWithin, Zenon
<1>22. HoldsPoints(j6, AtBasis, Basis)
  BY <1>2, <1>11, <1>13, <1>14, <1>16, InputTypes, PointsWithin, Zenon
<1>23. Layout(j6)
  BY <1>11, <1>12, <1>15, <1>17, <1>19, <1>20, <1>21, <1>22, Zenon DEF Layout, p3, p5, pc
<1>. QED  BY <1>1, <1>23, Zenon

-----------------------------------------------------------------------------
\* The readers on a blob that is the whole one as far as it goes.

Whole == encode_verifier_blob(input)

\* A blob that begins like the whole one has its bytes, and is shorter if it is another.
LEMMA PrefixBytes ==
    ASSUME TypeOK, Prefix
    PROVE  /\ Whole \in Seq(Byte) /\ Len(blob) <= Len(Whole)
           /\ \A i \in 1..Len(blob) : blob[i] = Whole[i]
           /\ Len(blob) = Len(Whole) => blob = Whole
<1>1. Whole \in Seq(Byte) /\ blob \in Seq(Byte)
  BY EncodedBytes DEF TypeOK, Whole
<1>2. Len(blob) <= Len(Whole) /\ blob = SubSeq(Whole, 1, Len(blob))
  BY DEF Prefix, Whole
<1>. HIDE DEF Whole
<1>3. \A i \in 1..Len(blob) : SubSeq(Whole, 1, Len(blob))[i] = Whole[i]
  BY <1>1, <1>2
<1>4. \A i \in 1..Len(blob) : blob[i] = Whole[i]
  BY <1>2, <1>3, Zenon
<1>5. Len(blob) = Len(Whole) => blob = Whole
  BY <1>1, <1>4
<1>. QED  BY <1>1, <1>2, <1>4, <1>5

\* What the whole blob holds somewhere is there, unless the blob has been cut (has).
LEMMA ReadBack ==
    ASSUME TypeOK, Prefix, NEW o \in Nat, NEW s \in Seq(Byte), Holds(Whole, o, s)
    PROVE  /\ has(o, Len(s)) => \A k \in 1..Len(s) : blob[o + k] = s[k]
           /\ ~has(o, Len(s)) => blob # Whole
<1>1. /\ Whole \in Seq(Byte) /\ blob \in Seq(Byte) /\ \A i \in 1..Len(blob) : blob[i] = Whole[i]
  BY PrefixBytes DEF TypeOK
<1>. HIDE DEF Whole
<1>2. Len(blob) \in Nat /\ Len(Whole) \in Nat /\ Len(s) \in Nat
  BY <1>1
<1>3. ASSUME has(o, Len(s)), NEW k \in 1..Len(s)  PROVE blob[o + k] = s[k]
  <2>1. o + k \in 1..Len(blob)
    BY <1>2, <1>3 DEF has
  <2>. QED  BY <1>1, <2>1 DEF Holds
<1>4. ASSUME ~has(o, Len(s))  PROVE blob # Whole
  BY <1>2, <1>4 DEF has, Holds
<1>. QED  BY <1>3, <1>4

\* A number below 2^32 is what its four low bytes stand for (to_le_bytes, from_le_bytes).
LEMMA U64Digits ==
    ASSUME NEW x \in Nat, x \div 65536 < 65536
    PROVE  x = (x % 256) + 256 * (((x \div 256) % 256) + 256 * (((x \div 65536) % 256)
               + 256 * ((x \div 16777216) % 256)))
<1>. DEFINE q1 == x \div 256  q2 == q1 \div 256  q3 == q2 \div 256
<1>2. q1 \in Nat /\ x = (x % 256) + 256 * q1
  BY SMT
<1>3. q2 \in Nat /\ q1 = (q1 % 256) + 256 * q2 /\ q2 = x \div 65536
  BY SMT
<1>4. q3 \in Nat /\ q2 = (q2 % 256) + 256 * q3 /\ q3 = x \div 16777216
  BY SMT
<1>5. q3 % 256 = q3
  BY <1>3, <1>4, SMT
<1>. QED  BY <1>2, <1>3, <1>4, <1>5, SMT

\* The decoder reads the number that was written (write_u64_le, read_u64_le).
LEMMA U64Back ==
    ASSUME TypeOK, Prefix, NEW o \in Nat, NEW n \in Nat, IsU32(n),
           Holds(Whole, o, u64_le(n)), has(o, U64)
    PROVE  u64_at(o) = n
<1>1. u64_le(n) \in Seq(Byte) /\ Len(u64_le(n)) = 8
  BY U64Bytes, PieceLengths
<1>2. has(o, Len(u64_le(n))) /\ 8 = Len(u64_le(n))
  BY <1>1, U64At, Zenon
<1>3. \A k \in 1..8 : blob[o + k] = u64_le(n)[k]
  BY <1>1, <1>2, ReadBack, Zenon
<1>. DEFINE b1 == blob[o + 1]  b2 == blob[o + 2]  b3 == blob[o + 3]  b4 == blob[o + 4]
            b5 == blob[o + 5]  b6 == blob[o + 6]  b7 == blob[o + 7]  b8 == blob[o + 8]
<1>4. /\ b1 = u64_le(n)[1] /\ b2 = u64_le(n)[2] /\ b3 = u64_le(n)[3] /\ b4 = u64_le(n)[4]
      /\ b5 = u64_le(n)[5] /\ b6 = u64_le(n)[6] /\ b7 = u64_le(n)[7] /\ b8 = u64_le(n)[8]
  BY <1>3
<1>5. u64_at(o) = b1 + 256 * (b2 + 256 * (b3 + 256 * (b4 + 256 * (b5
                  + 256 * (b6 + 256 * (b7 + 256 * b8))))))
  BY DEF u64_at
<1>. HIDE DEF b1, b2, b3, b4, b5, b6, b7, b8
<1>6. /\ b1 = n % 256 /\ b2 = (n \div 256) % 256
      /\ b3 = (n \div 65536) % 256 /\ b4 = (n \div 16777216) % 256
      /\ b5 = 0 /\ b6 = 0 /\ b7 = 0 /\ b8 = 0
  BY <1>4 DEF u64_le
<1>7. u64_at(o) = b1 + 256 * (b2 + 256 * (b3 + 256 * b4))
  BY <1>5, <1>6
<1>8. n = b1 + 256 * (b2 + 256 * (b3 + 256 * b4))
  BY <1>6, U64Digits DEF IsU32
<1>. QED  BY <1>7, <1>8

\* The points cast from the bytes are the points that were cast to them (bytemuck).
LEMMA PointsBack ==
    ASSUME TypeOK, Prefix, NEW o \in Nat, NEW ps \in Seq(Point),
           Holds(Whole, o, pod_bytes(ps)), has(o, Len(ps) * POD)
    PROVE  points_at(o, Len(ps) * POD) = ps
<1>. DEFINE n == Len(ps)
            m == n * POD
            at(i) == [k \in 1..POD |-> blob[o + POD * (i - 1) + k]]
<1>1. n \in Nat /\ m \in Nat /\ m \div POD = n /\ m = POD * n
  BY U64At
<1>2. pod_bytes(ps) \in Seq(Byte) /\ Len(pod_bytes(ps)) = m
  BY <1>1, PodBytes, PieceLengths
<1>3. \A j \in 1..m : blob[o + j] = pod_bytes(ps)[j]
  BY <1>2, ReadBack
<1>4. ASSUME NEW i \in 1..n, NEW k \in 1..POD
      PROVE  blob[o + POD * (i - 1) + k] = ps[i][k]
  <2>. DEFINE j == POD * (i - 1) + k
  <2>1. /\ j \in 1..m /\ o + POD * (i - 1) + k = o + j
        /\ ((j - 1) \div POD) + 1 = i /\ ((j - 1) % POD) + 1 = k
    BY <1>1, U64At
  <2>2. pod_bytes(ps)[j] = ps[((j - 1) \div POD) + 1][((j - 1) % POD) + 1]
    BY <1>1, <2>1 DEF pod_bytes
  <2>. QED  BY <1>3, <2>1, <2>2, Zenon
<1>5. ASSUME NEW i \in 1..n  PROVE at(i) = ps[i]
  <2>1. ps[i] \in [1..POD -> Byte]
    BY DEF Point
  <2>. QED  BY <1>4, <2>1
<1>6. points_at(o, m) = [i \in 1..n |-> at(i)]
  BY <1>1 DEF points_at
<1>. HIDE DEF at
<1>7. [i \in 1..n |-> at(i)] = [i \in 1..n |-> ps[i]]
  BY <1>5
<1>8. ps = [i \in 1..n |-> ps[i]]
  OBVIOUS
<1>. QED  BY <1>6, <1>7, <1>8, Zenon

\* A point section of a whole blob is read, and the cursor ends where the section does; a
\* panic means that the blob has been cut (read_vesta_section, read_pallas_section).
LEMMA PointsFollow ==
    ASSUME TypeOK, off % 8 = 0, Prefix, NEW ps \in Seq(Point), Fits(Len(ps)),
           HoldsPoints(Whole, off, ps), NEW at, NEW next, NEW field, ReadPoints(at, next, field)
    PROVE  \/ Panic /\ blob # Whole
           \/ Advance(off + 8 + 72 * Len(ps), next, field, ps)
<1>. DEFINE n == Len(ps)
            o == off + U64
<1>1. off \in Nat /\ n \in Nat /\ o \in Nat /\ IsU32(n) /\ n * POD \in Nat /\ o = off + 8
  BY U64At DEF TypeOK, Fits
<1>2. /\ u64_le(n) \in Seq(Byte) /\ Len(u64_le(n)) = U64
      /\ pod_bytes(ps) \in Seq(Byte) /\ Len(pod_bytes(ps)) = n * POD
  BY <1>1, U64Bytes, PodBytes, PieceLengths, U64At
<1>3. Holds(Whole, off, u64_le(n)) /\ Holds(Whole, off + 8, pod_bytes(ps))
  BY DEF HoldsPoints
<1>4. CASE ~has(off, U64)
  <2>1. blob # Whole
    BY <1>1, <1>2, <1>3, <1>4, ReadBack, Zenon
  <2>. QED  BY <1>4, <2>1 DEF ReadPoints
<1>5. CASE has(off, U64)
  <2>1. u64_at(off) = n
    BY <1>1, <1>3, <1>5, U64Back
  <2>2. byte_len(n).some /\ byte_len(n).value = n * POD
    BY DEF byte_len, Fits
  <2>3. aligned(o)
    <3>1. Base \in Nat /\ Base % 8 = 0
      BY BlobAssumption, BaseAssumption, U64At
    <3>2. (Base + o) % 8 = 0
      BY <1>1, <3>1
    <3>. QED  BY <3>2, U64At DEF aligned
  <2>. HIDE DEF n, o
  <2>4. CASE ~has(o, n * POD)
    <3>1. blob # Whole
      BY <1>1, <1>2, <1>3, <2>4, ReadBack, Zenon
    <3>. QED  BY <1>5, <2>1, <2>2, <2>4, <3>1 DEF ReadPoints, o
  <2>5. CASE has(o, n * POD)
    <3>1. points_at(o, n * POD) = ps
      <4>1. Holds(Whole, o, pod_bytes(ps)) /\ has(o, Len(ps) * POD)
        BY <1>1, <1>3, <2>5, Zenon DEF n
      <4>. QED  BY <1>1, <4>1, PointsBack DEF n
    <3>2. o + n * POD = off + 8 + 72 * n
      BY <1>1, U64At
    <3>3. Advance(o + n * POD, next, field, points_at(o, n * POD))
      BY <1>5, <2>1, <2>2, <2>3, <2>5 DEF ReadPoints, o
    <3>. QED  BY <3>1, <3>2, <3>3, Zenon DEF n
  <2>. QED  BY <2>4, <2>5
<1>. QED  BY <1>4, <1>5

\* The same of the blinder (read_one_pallas).
LEMMA OnePointFollows ==
    ASSUME TypeOK, off % 8 = 0, Prefix, NEW h \in Point,
           Holds(Whole, off, pod_bytes(<<h>>)), NEW at, NEW next, NEW field,
           ReadOnePoint(at, next, field)
    PROVE  \/ Panic /\ blob # Whole
           \/ Advance(off + 72, next, field, h)
<1>1. /\ off \in Nat /\ <<h>> \in Seq(Point) /\ pod_bytes(<<h>>) \in Seq(Byte)
      /\ Len(pod_bytes(<<h>>)) = POD
  <2>1. <<h>> \in Seq(Point) /\ Len(pod_bytes(<<h>>)) = POD
    BY PieceLengths, Zenon
  <2>2. pod_bytes(<<h>>) \in Seq(Byte)
    BY <2>1, PodBytes, Zenon
  <2>. QED  BY <2>1, <2>2 DEF TypeOK
<1>2. aligned(off)
  <2>1. Base \in Nat /\ Base % 8 = 0
    BY BlobAssumption, BaseAssumption, U64At
  <2>2. (Base + off) % 8 = 0
    BY <1>1, <2>1
  <2>. QED  BY <2>2, U64At DEF aligned
<1>3. CASE ~has(off, POD)
  <2>1. blob # Whole
    BY <1>1, <1>3, ReadBack, Zenon
  <2>. QED  BY <1>3, <2>1 DEF ReadOnePoint
<1>4. CASE has(off, POD)
  <2>1. Len(<<h>>) * POD = POD /\ <<h>>[1] = h
    BY U64At
  <2>2. points_at(off, POD) = <<h>>
    <3>1. has(off, Len(<<h>>) * POD)
      BY <1>4, <2>1, Zenon
    <3>2. points_at(off, Len(<<h>>) * POD) = <<h>>
      BY <1>1, <3>1, PointsBack
    <3>. QED  BY <2>1, <3>2, Zenon
  <2>3. Advance(off + POD, next, field, points_at(off, POD)[1])
    BY <1>2, <1>4 DEF ReadOnePoint
  <2>4. POD = 72
    BY U64At
  <2>. QED  BY <2>1, <2>2, <2>3, <2>4
<1>. QED  BY <1>3, <1>4

\* The same of a number (read_u64_le).
LEMMA U64Follows ==
    ASSUME TypeOK, Prefix, NEW n \in Nat, IsU32(n), Holds(Whole, off, u64_le(n)),
           NEW at, NEW next, NEW field, ReadU64(at, next, field)
    PROVE  \/ Panic /\ blob # Whole
           \/ Advance(off + 8, next, field, n)
<1>1. off \in Nat /\ u64_le(n) \in Seq(Byte) /\ Len(u64_le(n)) = U64
  BY U64Bytes, PieceLengths, U64At DEF TypeOK
<1>2. CASE ~has(off, U64)
  <2>1. blob # Whole
    BY <1>1, <1>2, ReadBack, Zenon
  <2>. QED  BY <1>2, <2>1 DEF ReadU64
<1>3. CASE has(off, U64)
  <2>1. u64_at(off) = n
    BY <1>1, <1>3, U64Back
  <2>. QED  BY <1>3, <2>1, U64At DEF ReadU64
<1>. QED  BY <1>2, <1>3

\* The same of a section of bytes (read_bytes_section).
LEMMA BytesFollow ==
    ASSUME TypeOK, Prefix, NEW bytes \in Seq(Byte), IsU32(Len(bytes)),
           Holds(Whole, off, u64_le(Len(bytes))), Holds(Whole, off + 8, bytes),
           NEW at, NEW next, NEW field, ReadBytes(at, next, field)
    PROVE  \/ Panic /\ blob # Whole
           \/ Advance(off + 8 + Len(bytes), next, field, bytes)
<1>. DEFINE n == Len(bytes)
            o == off + U64
<1>1. /\ off \in Nat /\ n \in Nat /\ o \in Nat /\ o = off + 8 /\ blob \in Seq(Byte)
      /\ u64_le(n) \in Seq(Byte) /\ Len(u64_le(n)) = U64
  BY U64Bytes, PieceLengths, U64At DEF TypeOK
<1>2. CASE ~has(off, U64)
  <2>1. blob # Whole
    BY <1>1, <1>2, ReadBack, Zenon
  <2>. QED  BY <1>2, <2>1 DEF ReadBytes
<1>3. CASE has(off, U64)
  <2>1. u64_at(off) = n
    BY <1>1, <1>3, U64Back
  <2>2. Holds(Whole, o, bytes)
    BY <1>1, Zenon
  <2>3. CASE ~has(o, n)
    <3>1. blob # Whole
      BY <1>1, <2>2, <2>3, ReadBack, Zenon
    <3>. QED  BY <1>3, <2>1, <2>3, <3>1 DEF ReadBytes
  <2>4. CASE has(o, n)
    <3>1. \A k \in 1..n : blob[o + k] = bytes[k]
      BY <1>1, <2>2, <2>4, ReadBack, Zenon
    <3>2. SubSeq(blob, o + 1, o + n) = bytes
      <4>. HIDE DEF o
      <4>1. o + n <= Len(blob) /\ Len(blob) \in Nat
        BY <1>1, <2>4 DEF has
      <4>2. SubSeq(blob, o + 1, o + n) \in Seq(Byte) /\ Len(SubSeq(blob, o + 1, o + n)) = n
        BY <1>1, <4>1
      <4>3. \A k \in 1..n : SubSeq(blob, o + 1, o + n)[k] = blob[o + k]
        BY <1>1, <4>1
      <4>. HIDE DEF n
      <4>4. \A k \in 1..n : SubSeq(blob, o + 1, o + n)[k] = bytes[k]
        BY <3>1, <4>3, Zenon
      <4>. QED  BY <4>2, <4>4, SeqEqual DEF n
    <3>3. Advance(o + n, next, field, SubSeq(blob, o + 1, o + n))
      BY <1>3, <2>1, <2>4 DEF ReadBytes
    <3>4. o = off + 8
      BY <1>1
    <3>. QED  BY <3>2, <3>3, <3>4, Zenon
  <2>. QED  BY <2>3, <2>4
<1>. QED  BY <1>2, <1>3

-----------------------------------------------------------------------------
\* The decoded sections are the encoded ones, one section after the other, as long as the
\* blob is the whole one so far.
Got1 == got.vesta_g = input.vesta_g
Got2 == Got1 /\ got.wrap_g = input.wrap_g
Got3 == Got2 /\ got.wrap_h = input.wrap_h
Got4 == Got3 /\ got.basis = Basis
Got5 == Got4 /\ got.nc = input.nc
Got6 == Got5 /\ got.vk_bytes = postcard(input.vk)

\* What decode_verifier_blob returns for the sections of the input.
Decoded == [vesta_g |-> input.vesta_g, wrap_g |-> input.wrap_g, wrap_h |-> input.wrap_h,
            nc |-> input.nc, vk |-> input.vk, cache |-> seeded(input.vk.domain, Basis)]

Followed ==
    /\ stage = "wrap_g" => off = AtWrapG /\ Got1
    /\ stage = "wrap_h" => off = AtWrapH /\ Got2
    /\ stage = "basis" => off = AtBasis /\ Got3
    /\ stage = "nc" => off = AtNumChunks /\ Got4
    /\ stage = "vk" => off = AtVk /\ Got5
    /\ stage = "assemble" => off = End /\ Got6
    /\ stage = "done" => off = End /\ verifier = Decoded

\* The inductive invariant behind WholeBlobOrNothing: an empty blob is not a whole one, and a
\* blob that is whole so far is followed to its end or has been cut.
FollowsWhole ==
    /\ stage = "encode" => blob = <<>>
    /\ Prefix => Followed
    /\ stage = "panic" => blob # Whole

\* Where the cursor is in the blob does not depend on the cursor.
LEMMA SamePlaces ==
    ASSUME input' = input, blob' = blob
    PROVE  /\ Whole' = Whole /\ Basis' = Basis /\ AtWrapG' = AtWrapG /\ AtWrapH' = AtWrapH
           /\ AtBasis' = AtBasis /\ AtNumChunks' = AtNumChunks /\ AtVk' = AtVk /\ End' = End
           /\ Prefix' = Prefix
<1>1. Basis' = Basis /\ AtWrapG' = AtWrapG
  BY Zenon DEF Basis, AtWrapG
<1>2. AtWrapH' = AtWrapH /\ AtBasis' = AtBasis
  BY <1>1, Zenon DEF AtWrapH, AtBasis
<1>3. AtNumChunks' = AtNumChunks
  BY <1>1, <1>2, Zenon DEF AtNumChunks
<1>4. AtVk' = AtVk /\ End' = End
  BY <1>3, Zenon DEF AtVk, End
<1>5. Whole' = Whole
  BY Zenon DEF Whole
<1>6. Prefix' = Prefix
  BY Zenon DEF Prefix
<1>. QED  BY <1>1, <1>2, <1>3, <1>4, <1>5, <1>6

\* A panic of a reader leaves the blob alone; it was cut, or was never the whole one.
LEMMA PanicFollows ==
    ASSUME FollowsWhole, Panic, blob # Whole  PROVE FollowsWhole'
<1>1. stage' = "panic" /\ input' = input /\ blob' = blob
  BY DEF Panic
<1>. QED  BY <1>1, SamePlaces DEF FollowsWhole, Followed

\* A blob that does not begin like the whole one stays so: nothing is to be shown.
LEMMA NotWhole ==
    ASSUME ~Prefix, input' = input, blob' = blob, stage # "encode", stage' # "encode", TypeOK
    PROVE  FollowsWhole'
<1>1. blob # Whole
  <2>1. Whole \in Seq(Byte)
    BY EncodedBytes DEF TypeOK, Whole
  <2>2. SubSeq(Whole, 1, Len(Whole)) = Whole /\ Len(Whole) <= Len(Whole)
    BY <2>1
  <2>. QED  BY <2>2, Zenon DEF Prefix, Whole
<1>. QED  BY <1>1, SamePlaces DEF FollowsWhole

\* The layout, as a fact about the present input.
LEMMA WholeLayout == ASSUME TypeOK PROVE Layout(Whole)
  BY EncodedLayout DEF TypeOK, Whole

\* The first section of a whole blob is read back (read_vesta_section).
LEMMA ReadVestaGFollows ==
    ASSUME IInv, FollowsWhole, Prefix, ReadVestaG  PROVE FollowsWhole'
<1>1. TypeOK /\ off = 0 /\ off % 8 = 0
  BY DEF IInv, ReadVestaG, ReadPoints, Cursor
<1>2. input.vesta_g \in Seq(Point) /\ Fits(Len(input.vesta_g)) /\ Len(input.vesta_g) \in Nat
  BY <1>1, InputTypes DEF TypeOK
<1>3. HoldsPoints(Whole, off, input.vesta_g)
  BY <1>1, WholeLayout, Zenon DEF Layout
<1>4. \/ Panic /\ blob # Whole
      \/ Advance(off + 8 + 72 * Len(input.vesta_g), "wrap_g", "vesta_g", input.vesta_g)
  BY <1>1, <1>2, <1>3, PointsFollow DEF ReadVestaG
<1>5. ASSUME Advance(off + 8 + 72 * Len(input.vesta_g), "wrap_g", "vesta_g", input.vesta_g)
      PROVE  FollowsWhole'
  <2>1. /\ stage' = "wrap_g" /\ input' = input /\ blob' = blob
        /\ got' = [got EXCEPT !["vesta_g"] = input.vesta_g]
        /\ off' = off + 8 + 72 * Len(input.vesta_g)
    BY <1>5 DEF Advance
  <2>2. off' = AtWrapG
    BY <1>1, <1>2, <2>1 DEF AtWrapG
  <2>3. Got1'
    BY <1>1, <2>1 DEF Got1, TypeOK, Sections
  <2>. QED  BY <2>1, <2>2, <2>3, SamePlaces DEF FollowsWhole, Followed
<1>. QED  BY <1>4, <1>5, PanicFollows

\* The same for the sections that follow, each from where the one before it ends.
LEMMA ReadWrapGFollows ==
    ASSUME IInv, FollowsWhole, Prefix, ReadWrapG  PROVE FollowsWhole'
<1>1. TypeOK /\ stage = "wrap_g" /\ off % 8 = 0 /\ off = AtWrapG /\ Got1
  BY DEF IInv, ReadWrapG, ReadPoints, Cursor, Reading, FollowsWhole, Followed
<1>2. input.wrap_g \in Seq(Point) /\ Fits(Len(input.wrap_g)) /\ Len(input.wrap_g) \in Nat
  BY <1>1, InputTypes DEF TypeOK
<1>3. HoldsPoints(Whole, off, input.wrap_g)
  BY <1>1, WholeLayout, Zenon DEF Layout
<1>4. \/ Panic /\ blob # Whole
      \/ Advance(off + 8 + 72 * Len(input.wrap_g), "wrap_h", "wrap_g", input.wrap_g)
  BY <1>1, <1>2, <1>3, PointsFollow DEF ReadWrapG
<1>5. ASSUME Advance(off + 8 + 72 * Len(input.wrap_g), "wrap_h", "wrap_g", input.wrap_g)
      PROVE  FollowsWhole'
  <2>1. /\ stage' = "wrap_h" /\ input' = input /\ blob' = blob
        /\ got' = [got EXCEPT !["wrap_g"] = input.wrap_g]
        /\ off' = off + 8 + 72 * Len(input.wrap_g)
    BY <1>5 DEF Advance
  <2>2. off' = AtWrapH
    BY <1>1, <1>2, <2>1, Positions DEF TypeOK, AtWrapH
  <2>3. Got2'
    <3>1. got \in Sections /\ Basis' = Basis
      BY <1>1, <2>1, SamePlaces DEF TypeOK
    <3>. QED  BY <1>1, <2>1, <3>1 DEF Got1, Got2, Sections
  <2>. QED  BY <2>1, <2>2, <2>3, SamePlaces DEF FollowsWhole, Followed
<1>. QED  BY <1>4, <1>5, PanicFollows

\* The blinder (read_one_pallas).
LEMMA ReadWrapHFollows ==
    ASSUME IInv, FollowsWhole, Prefix, ReadWrapH  PROVE FollowsWhole'
<1>1. TypeOK /\ stage = "wrap_h" /\ off % 8 = 0 /\ off = AtWrapH /\ Got2
  BY DEF IInv, ReadWrapH, ReadOnePoint, Cursor, Reading, FollowsWhole, Followed
<1>2. input.wrap_h \in Point
  BY <1>1, InputTypes DEF TypeOK
<1>3. Holds(Whole, off, pod_bytes(<<input.wrap_h>>))
  BY <1>1, WholeLayout, Zenon DEF Layout
<1>4. \/ Panic /\ blob # Whole
      \/ Advance(off + 72, "basis", "wrap_h", input.wrap_h)
  BY <1>1, <1>2, <1>3, OnePointFollows DEF ReadWrapH
<1>5. ASSUME Advance(off + 72, "basis", "wrap_h", input.wrap_h)
      PROVE  FollowsWhole'
  <2>1. /\ stage' = "basis" /\ input' = input /\ blob' = blob
        /\ got' = [got EXCEPT !["wrap_h"] = input.wrap_h]
        /\ off' = off + 72
    BY <1>5 DEF Advance
  <2>2. off' = AtBasis
    BY <1>1, <1>2, <2>1, Positions DEF TypeOK, AtBasis
  <2>3. Got3'
    <3>1. got \in Sections /\ Basis' = Basis
      BY <1>1, <2>1, SamePlaces DEF TypeOK
    <3>. QED  BY <1>1, <2>1, <3>1 DEF Got1, Got2, Got3, Sections
  <2>. QED  BY <2>1, <2>2, <2>3, SamePlaces DEF FollowsWhole, Followed
<1>. QED  BY <1>4, <1>5, PanicFollows

\* The basis (read_pallas_section).
LEMMA ReadBasisFollows ==
    ASSUME IInv, FollowsWhole, Prefix, ReadBasis  PROVE FollowsWhole'
<1>1. TypeOK /\ stage = "basis" /\ off % 8 = 0 /\ off = AtBasis /\ Got3
  BY DEF IInv, ReadBasis, ReadPoints, Cursor, Reading, FollowsWhole, Followed
<1>2. Basis \in Seq(Point) /\ Fits(Len(Basis)) /\ Len(Basis) \in Nat
  BY <1>1, InputTypes DEF TypeOK
<1>3. HoldsPoints(Whole, off, Basis)
  BY <1>1, WholeLayout, Zenon DEF Layout
<1>4. \/ Panic /\ blob # Whole
      \/ Advance(off + 8 + 72 * Len(Basis), "nc", "basis", Basis)
  BY <1>1, <1>2, <1>3, PointsFollow DEF ReadBasis
<1>5. ASSUME Advance(off + 8 + 72 * Len(Basis), "nc", "basis", Basis)
      PROVE  FollowsWhole'
  <2>1. /\ stage' = "nc" /\ input' = input /\ blob' = blob
        /\ got' = [got EXCEPT !["basis"] = Basis]
        /\ off' = off + 8 + 72 * Len(Basis)
    BY <1>5 DEF Advance
  <2>2. off' = AtNumChunks
    BY <1>1, <1>2, <2>1, Positions DEF TypeOK, AtNumChunks
  <2>3. Got4'
    <3>1. got \in Sections /\ Basis' = Basis
      BY <1>1, <2>1, SamePlaces DEF TypeOK
    <3>. QED  BY <1>1, <2>1, <3>1 DEF Got1, Got2, Got3, Got4, Sections
  <2>. QED  BY <2>1, <2>2, <2>3, SamePlaces DEF FollowsWhole, Followed
<1>. QED  BY <1>4, <1>5, PanicFollows

\* The number of chunks (read_u64_le).
LEMMA ReadNumChunksFollows ==
    ASSUME IInv, FollowsWhole, Prefix, ReadNumChunks  PROVE FollowsWhole'
<1>1. TypeOK /\ stage = "nc" /\ off = AtNumChunks /\ Got4
  BY DEF IInv, ReadNumChunks, ReadU64, Cursor, Reading, FollowsWhole, Followed
<1>2. input.nc \in Nat /\ IsU32(input.nc)
  <2>1. \A b \in 0..255 : b \in Nat /\ b \div 65536 < 65536
    OBVIOUS
  <2>2. input.nc \in 0..255
    BY <1>1, InputTypes DEF TypeOK, Byte
  <2>. QED  BY <2>1, <2>2 DEF IsU32
<1>3. Holds(Whole, off, u64_le(input.nc))
  BY <1>1, WholeLayout, Zenon DEF Layout
<1>4. \/ Panic /\ blob # Whole
      \/ Advance(off + 8, "vk", "nc", input.nc)
  BY <1>1, <1>2, <1>3, U64Follows DEF ReadNumChunks
<1>5. ASSUME Advance(off + 8, "vk", "nc", input.nc)
      PROVE  FollowsWhole'
  <2>1. /\ stage' = "vk" /\ input' = input /\ blob' = blob
        /\ got' = [got EXCEPT !["nc"] = input.nc]
        /\ off' = off + 8
    BY <1>5 DEF Advance
  <2>2. off' = AtVk
    BY <1>1, <1>2, <2>1, Positions DEF TypeOK, AtVk
  <2>3. Got5'
    <3>1. got \in Sections /\ Basis' = Basis
      BY <1>1, <2>1, SamePlaces DEF TypeOK
    <3>. QED  BY <1>1, <2>1, <3>1 DEF Got1, Got2, Got3, Got4, Got5, Sections
  <2>. QED  BY <2>1, <2>2, <2>3, SamePlaces DEF FollowsWhole, Followed
<1>. QED  BY <1>4, <1>5, PanicFollows

\* The bytes of the key (read_bytes_section).
LEMMA ReadVkFollows ==
    ASSUME IInv, FollowsWhole, Prefix, ReadVk  PROVE FollowsWhole'
<1>1. TypeOK /\ stage = "vk" /\ off = AtVk /\ Got5
  BY DEF IInv, ReadVk, ReadBytes, Cursor, Reading, FollowsWhole, Followed
<1>2. /\ postcard(input.vk) \in Seq(Byte) /\ Len(postcard(input.vk)) = 2
      /\ IsU32(Len(postcard(input.vk)))
  <2>1. input.vk.id \in Byte /\ input.vk.domain \in Byte
    BY <1>1, InputTypes DEF TypeOK
  <2>2. postcard(input.vk) \in Seq(Byte) /\ Len(postcard(input.vk)) = 2
    BY <2>1 DEF postcard
  <2>. QED  BY <2>2 DEF IsU32
<1>3. /\ Holds(Whole, off, u64_le(Len(postcard(input.vk))))
      /\ Holds(Whole, off + 8, postcard(input.vk))
  BY <1>1, <1>2, WholeLayout, Zenon DEF Layout
<1>4. \/ Panic /\ blob # Whole
      \/ Advance(off + 8 + Len(postcard(input.vk)), "assemble", "vk_bytes", postcard(input.vk))
  BY <1>1, <1>2, <1>3, BytesFollow DEF ReadVk
<1>5. ASSUME Advance(off + 8 + Len(postcard(input.vk)), "assemble", "vk_bytes", postcard(input.vk))
      PROVE  FollowsWhole'
  <2>1. /\ stage' = "assemble" /\ input' = input /\ blob' = blob
        /\ got' = [got EXCEPT !["vk_bytes"] = postcard(input.vk)]
        /\ off' = off + 8 + Len(postcard(input.vk))
    BY <1>5 DEF Advance
  <2>2. off' = End
    BY <1>1, <1>2, <2>1, Positions DEF TypeOK, End
  <2>3. Got6'
    <3>1. got \in Sections /\ Basis' = Basis
      BY <1>1, <2>1, SamePlaces DEF TypeOK
    <3>. QED  BY <1>1, <2>1, <3>1 DEF Got1, Got2, Got3, Got4, Got5, Got6, Sections
  <2>. QED  BY <2>1, <2>2, <2>3, SamePlaces DEF FollowsWhole, Followed
<1>. QED  BY <1>4, <1>5, PanicFollows

\* The verifier is put together from the sections, its key from the two bytes of the last one
\* (postcard::from_bytes, seed_wrap_lagrange_basis).
LEMMA AssembleFollows ==
    ASSUME IInv, FollowsWhole, Prefix, Assemble  PROVE FollowsWhole'
<1>1. TypeOK /\ stage = "assemble" /\ off = End /\ Got6
  BY DEF IInv, Assemble, FollowsWhole, Followed
<1>2. /\ input.vk \in [id : Byte, domain : Byte]
      /\ got.vk_bytes = <<input.vk.id, input.vk.domain>>
  BY <1>1, InputTypes DEF TypeOK, Got6, postcard
<1>3. postcard_decodes /\ decoded_vk = input.vk
  <2>1. /\ Len(got.vk_bytes) = 2
        /\ got.vk_bytes[1] = input.vk.id /\ got.vk_bytes[2] = input.vk.domain
    BY <1>2
  <2>2. input.vk = [id |-> input.vk.id, domain |-> input.vk.domain]
    BY <1>2
  <2>. QED  BY <2>1, <2>2 DEF postcard_decodes, decoded_vk
<1>4. /\ stage' = "done" /\ input' = input /\ blob' = blob /\ off' = off
      /\ verifier' = [vesta_g |-> got.vesta_g, wrap_g |-> got.wrap_g,
                      wrap_h |-> got.wrap_h, nc |-> got.nc, vk |-> decoded_vk,
                      cache |-> seeded(decoded_vk.domain, got.basis)]
  BY <1>3 DEF Assemble
<1>5. verifier' = Decoded
  BY <1>1, <1>3, <1>4, Zenon DEF Decoded, Got1, Got2, Got3, Got4, Got5, Got6
<1>6. Decoded' = Decoded
  BY <1>4, SamePlaces, Zenon DEF Decoded
<1>. QED  BY <1>1, <1>4, <1>5, <1>6, SamePlaces DEF FollowsWhole, Followed

\* Before the first section is read there is nothing to follow (Encode, Ship, Truncate, Relength,
\* Rebase).
LEMMA NothingReadYet ==
    ASSUME stage' \in {"ship", "vesta_g"}  PROVE FollowsWhole'
  BY DEF FollowsWhole, Followed

\* Nothing is read at first (Init).
LEMMA InitFollows == Init => FollowsWhole
  BY DEF Init, FollowsWhole, Followed

\* Every step keeps it: one case for each reader, under the assumption that the blob is the
\* whole one so far (Next).
LEMMA NextFollows == IInv /\ FollowsWhole /\ [Next]_vars => FollowsWhole'
<1>. SUFFICES ASSUME IInv, FollowsWhole, [Next]_vars  PROVE FollowsWhole'
  OBVIOUS
<1>1. TypeOK
  BY DEF IInv
<1>2. CASE Encode \/ Ship \/ Truncate \/ Relength \/ Rebase
  BY <1>2, NothingReadYet DEF Encode, Ship, Truncate, Relength, Rebase
<1>3. CASE EncodePanics
  <2>1. Len(Whole) = End /\ blob = <<>> /\ Panic
    BY <1>1, <1>3, WholeLayout DEF Layout, EncodePanics, FollowsWhole
  <2>2. End # 0
    BY <1>1, Positions DEF TypeOK, End
  <2>. QED  BY <2>1, <2>2, PanicFollows
<1>4. CASE \/ ReadVestaG \/ ReadWrapG \/ ReadWrapH \/ ReadBasis \/ ReadNumChunks \/ ReadVk
           \/ Assemble
  <2>1. CASE Prefix
    BY <1>4, <2>1, ReadVestaGFollows, ReadWrapGFollows, ReadWrapHFollows, ReadBasisFollows,
       ReadNumChunksFollows, ReadVkFollows, AssembleFollows
  <2>2. CASE ~Prefix
    <3>1. input' = input /\ blob' = blob /\ stage # "encode" /\ stage' # "encode"
      BY <1>4 DEF ReadVestaG, ReadWrapG, ReadWrapH, ReadBasis, ReadNumChunks, ReadVk, Assemble,
         ReadPoints, ReadOnePoint, ReadU64, ReadBytes, Advance, Panic
    <3>. QED  BY <1>1, <2>2, <3>1, NotWhole
  <2>. QED  BY <2>1, <2>2
<1>5. CASE UNCHANGED vars
  <2>1. Decoded' = Decoded
    BY <1>5, SamePlaces, Zenon DEF vars, Decoded
  <2>2. /\ Got6' = Got6 /\ Got5' = Got5 /\ Got4' = Got4
        /\ Got3' = Got3 /\ Got2' = Got2 /\ Got1' = Got1
    BY <1>5, SamePlaces DEF vars, Got6, Got5, Got4, Got3, Got2, Got1
  <2>. QED  BY <1>5, <2>1, <2>2, SamePlaces DEF vars, FollowsWhole, Followed
<1>. QED  BY <1>2, <1>3, <1>4, <1>5 DEF Next

\* For every SRS and key: an intact blob decodes without a panic; a blob that is cut short
\* yields no verifier; a decoded verifier is the encoded one, with the basis for its domain in
\* the cache (encode_verifier_blob, decode_verifier_blob, seed_wrap_lagrange_basis).
THEOREM WholeAlwaysOrNothing == Spec => []WholeBlobOrNothing
<1>1. IInv /\ FollowsWhole => WholeBlobOrNothing
  <2>. SUFFICES ASSUME IInv, FollowsWhole  PROVE WholeBlobOrNothing
    OBVIOUS
  <2>1. Intact => stage # "panic"
    BY DEF Intact, FollowsWhole, Whole
  <2>2. ASSUME stage = "done", Prefix
        PROVE  off = Len(blob) /\ Intact /\ verifier = Decoded
    <3>1. off = End /\ verifier = Decoded /\ off \in 0..Len(blob) /\ Len(Whole) = End
      BY <2>2, WholeLayout DEF IInv, TypeOK, FollowsWhole, Followed, Layout
    <3>2. Len(blob) <= Len(Whole) /\ Len(blob) \in Nat
      BY <2>2, PrefixBytes DEF IInv, TypeOK
    <3>3. Len(blob) = Len(Whole) /\ off = Len(blob)
      BY <3>1, <3>2
    <3>. QED  BY <2>2, <3>1, <3>3, PrefixBytes DEF IInv, Intact, Whole
  <2>3. /\ Decoded.vesta_g = input.vesta_g /\ Decoded.wrap_g = input.wrap_g
        /\ Decoded.wrap_h = input.wrap_h /\ Decoded.nc = input.nc /\ Decoded.vk = input.vk
        /\ Decoded.vk.domain \in DOMAIN Decoded.cache
        /\ BasisUsed(Decoded) = Basis
    BY DEF Decoded, seeded, BasisUsed
  <2>. QED  BY <2>1, <2>2, <2>3 DEF WholeBlobOrNothing, Basis
<1>. QED  BY <1>1, InitIInv, NextIInv, InitFollows, NextFollows, PTL DEF Spec
=============================================================================
