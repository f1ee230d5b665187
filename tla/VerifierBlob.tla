---------------------------- MODULE VerifierBlob ----------------------------
(***************************************************************************)
(* crates/pickles-verifier/src/serialize.rs: the blob that carries a       *)
(* Verifier into the guest.  The guest's build script encodes it, the      *)
(* guest decodes it section by section with a cursor over raw bytes.       *)
(*                                                                         *)
(* The layout is byte by byte.  A point is its 72 bytes: decoding is a     *)
(* cast, not a parse.  The width of usize is scaled down (MaxUsize), so    *)
(* that a length field can overflow the multiplication by 72 within the    *)
(* integers TLC has.                                                       *)
(*                                                                         *)
(* An operator named Bug_... is a plausible mistake in the definition that *)
(* follows it; no specification uses it.                                   *)
(***************************************************************************)
EXTENDS Integers, Sequences

CONSTANTS VestaGs, WrapGs,   \* generator sequences the two SRSes may have
          H,                 \* the blinder of the wrap SRS
          VKs,               \* wrap VKs: records with an id and a domain size
          NumChunks,         \* step_num_chunks, a byte here
          LagrangeBasis(_, _),  \* generators, domain size |-> the canonical basis
          Base,              \* the address of the blob in memory
          MaxUsize,          \* usize::MAX
          Damages            \* what may happen to a blob between the two ends

U64 == 8            \* size_of::<u64>()
Bug_no_padding == 65
POD == 72           \* size_of::<PodVesta>() and size_of::<PodPallas>()
ALIGN == 8          \* align_of::<PodVesta>() and align_of::<PodPallas>()

Byte == 0..255
Point == [1..POD -> Byte]

ASSUME BlobAssumption ==
    /\ VestaGs \subseteq Seq(Point) /\ WrapGs \subseteq Seq(Point) /\ H \in Point
    /\ VKs \subseteq [id : Byte, domain : Byte]
    /\ NumChunks \in Byte
    /\ Base \in Nat /\ MaxUsize \in Nat
    /\ \A g \in WrapGs, vk \in VKs : LagrangeBasis(g, vk.domain) \in Seq(Point)

\* A number below 2^32, which is what u64_le writes here.
IsU32(n) == n \div 65536 < 65536

\* A slice of n points is in memory, so its size in bytes is a usize.
Fits(n) == n * POD <= MaxUsize /\ IsU32(n)

ASSUME SizeAssumption ==
    /\ \A g \in VestaGs \cup WrapGs : Fits(Len(g))
    /\ \A g \in WrapGs, vk \in VKs : Fits(Len(LagrangeBasis(g, vk.domain)))

\* Base is what `#[repr(C, align(8))] struct Aligned` around include_bytes! gives.
ASSUME BaseAssumption == Base % ALIGN = 0

\* The arguments encode_verifier_blob may be called with.
Inputs == [vesta_g : VestaGs, wrap_g : WrapGs, wrap_h : {H}, nc : {NumChunks}, vk : VKs]

VARIABLES input,    \* the arguments of encode_verifier_blob
          blob,     \* the bytes
          stage,    \* where encoder and decoder are
          off,      \* the decoder's cursor: the bytes consumed so far
          got,      \* the sections decoded so far
          verifier  \* the assembled verifier

vars == <<input, blob, stage, off, got, verifier>>

-----------------------------------------------------------------------------
\* Section primitives, encoding.

\* u64::to_le_bytes of a number below 2^32
u64_le(n) == <<n % 256, (n \div 256) % 256, (n \div 65536) % 256, (n \div 16777216) % 256,
               0, 0, 0, 0>>

\* bytemuck::cast_slice from pods to bytes
pod_bytes(points) ==
    [k \in 1..(POD * Len(points)) |-> points[((k - 1) \div POD) + 1][((k - 1) % POD) + 1]]

point_section(points) == u64_le(Len(points)) \o pod_bytes(points)

bytes_section(bytes) == u64_le(Len(bytes)) \o bytes

\* postcard of a wrap VK; the fields serde skips are not in it.
postcard(vk) == <<vk.id, vk.domain>>

\* The sections in their order, with a given basis.
sections(in, basis) ==
    point_section(in.vesta_g) \o point_section(in.wrap_g) \o pod_bytes(<<in.wrap_h>>)
    \o point_section(basis) \o u64_le(in.nc) \o bytes_section(postcard(in.vk))

Bug_basis_of_whole_srs(in) == sections(in, LagrangeBasis(in.wrap_g, Len(in.wrap_g)))

encode_verifier_blob(in) == sections(in, LagrangeBasis(in.wrap_g, in.vk.domain))

\* The basis at a domain larger than the SRS has polynomials of several chunks.
single_chunk(in) == Len(in.wrap_g) >= in.vk.domain

-----------------------------------------------------------------------------
\* Section primitives, decoding, at offset o of the blob.

has(o, n) == Len(blob) - o >= n

u64_at(o) ==
    blob[o + 1] + 256 * (blob[o + 2] + 256 * (blob[o + 3] + 256 * (blob[o + 4]
    + 256 * (blob[o + 5] + 256 * (blob[o + 6] + 256 * (blob[o + 7] + 256 * blob[o + 8]))))))

\* The condition of bytemuck's casts from bytes to pods.
aligned(o) == (Base + o) % ALIGN = 0

Bug_wrapping_byte_len(len) == [some |-> TRUE, value |-> (len * POD) % (MaxUsize + 1)]

\* len.checked_mul(size_of::<Pod>())
byte_len(len) ==
    IF len * POD <= MaxUsize THEN [some |-> TRUE, value |-> len * POD]
    ELSE [some |-> FALSE]

points_at(o, bytes) ==
    [i \in 1..(bytes \div POD) |-> [k \in 1..POD |-> blob[o + POD * (i - 1) + k]]]

Panic == stage' = "panic" /\ UNCHANGED <<input, blob, off, got, verifier>>

Bug_Advance_past_prefix(o, next, field, value) ==
    /\ off' = o + U64
    /\ stage' = next
    /\ got' = [got EXCEPT ![field] = value]
    /\ UNCHANGED <<input, blob, verifier>>

\* The reader returns the value and the rest of the bytes.
Advance(o, next, field, value) ==
    /\ off' = o
    /\ stage' = next
    /\ got' = [got EXCEPT ![field] = value]
    /\ UNCHANGED <<input, blob, verifier>>

\* read_vesta_section, read_pallas_section
ReadPoints(at, next, field) ==
    /\ stage = at
    /\ IF ~has(off, U64) THEN Panic
       ELSE LET n == byte_len(u64_at(off))
                o == off + U64
            IN  IF n.some /\ has(o, n.value) /\ aligned(o)
                THEN Advance(o + n.value, next, field, points_at(o, n.value))
                ELSE Panic

\* read_one_pallas
ReadOnePoint(at, next, field) ==
    /\ stage = at
    /\ IF has(off, POD) /\ aligned(off)
       THEN Advance(off + POD, next, field, points_at(off, POD)[1])
       ELSE Panic

\* read_u64_le
ReadU64(at, next, field) ==
    /\ stage = at
    /\ IF has(off, U64) THEN Advance(off + U64, next, field, u64_at(off)) ELSE Panic

\* read_bytes_section
ReadBytes(at, next, field) ==
    /\ stage = at
    /\ IF ~has(off, U64) THEN Panic
       ELSE LET n == u64_at(off)
                o == off + U64
            IN  IF has(o, n) THEN Advance(o + n, next, field, SubSeq(blob, o + 1, o + n))
                ELSE Panic

-----------------------------------------------------------------------------
Sections == [vesta_g : Seq(Point), wrap_g : Seq(Point), wrap_h : Seq(Byte),
             basis : Seq(Point), nc : Nat, vk_bytes : Seq(Byte)]

Nothing == [vesta_g |-> <<>>, wrap_g |-> <<>>, wrap_h |-> <<>>, basis |-> <<>>,
            nc |-> 0, vk_bytes |-> <<>>]

Init ==
    /\ input \in Inputs
    /\ blob = <<>> /\ stage = "encode" /\ off = 0 /\ got = Nothing /\ verifier = <<>>

Encode ==
    /\ stage = "encode"
    /\ single_chunk(input)
    /\ blob' = encode_verifier_blob(input)
    /\ stage' = "ship"
    /\ UNCHANGED <<input, off, got, verifier>>

EncodePanics ==
    /\ stage = "encode"
    /\ ~single_chunk(input)
    /\ Panic

\* The blob reaches the guest: whole, cut short, with one of its length fields
\* overwritten, or with the basis section of another domain.
Ship ==
    /\ stage = "ship"
    /\ stage' = "vesta_g"
    /\ UNCHANGED <<input, blob, off, got, verifier>>

Truncate ==
    /\ stage = "ship" /\ "truncate" \in Damages
    /\ \E n \in 0..(Len(blob) - 1) : blob' = SubSeq(blob, 1, n)
    /\ stage' = "vesta_g"
    /\ UNCHANGED <<input, off, got, verifier>>

\* Where the encoder wrote the length fields of the three point sections.
length_fields(in) ==
    LET wrap_g == U64 + POD * Len(in.vesta_g)
    IN  {0, wrap_g, wrap_g + U64 + POD * Len(in.wrap_g) + POD}

\* With the third byte at 32 a length of 1 becomes one whose product with 72 is 72
\* modulo 2^24.
Relength ==
    /\ stage = "ship" /\ "relength" \in Damages
    /\ \E o \in length_fields(input), n \in Byte : blob' = [blob EXCEPT ![o + 3] = n]
    /\ stage' = "vesta_g"
    /\ UNCHANGED <<input, off, got, verifier>>

Rebase ==
    /\ stage = "ship" /\ "rebase" \in Damages
    /\ \E vk \in VKs : blob' = sections(input, LagrangeBasis(input.wrap_g, vk.domain))
    /\ stage' = "vesta_g"
    /\ UNCHANGED <<input, off, got, verifier>>

ReadVestaG == ReadPoints("vesta_g", "wrap_g", "vesta_g")
ReadWrapG == ReadPoints("wrap_g", "wrap_h", "wrap_g")
ReadWrapH == ReadOnePoint("wrap_h", "basis", "wrap_h")
ReadBasis == ReadPoints("basis", "nc", "basis")
ReadNumChunks == ReadU64("nc", "vk", "nc")
ReadVk == ReadBytes("vk", "assemble", "vk_bytes")

\* postcard::from_bytes ignores trailing bytes and fails on missing ones.
postcard_decodes == Len(got.vk_bytes) >= 2
decoded_vk == [id |-> got.vk_bytes[1], domain |-> got.vk_bytes[2]]

\* The cache of the fresh wrap SRS after seed_wrap_lagrange_basis.
seeded(domain_size, basis) == [d \in {domain_size} |-> basis]

Assemble ==
    /\ stage = "assemble"
    /\ IF postcard_decodes
       THEN /\ verifier' = [vesta_g |-> got.vesta_g, wrap_g |-> got.wrap_g,
                            wrap_h |-> got.wrap_h, nc |-> got.nc, vk |-> decoded_vk,
                            cache |-> seeded(decoded_vk.domain, got.basis)]
            /\ stage' = "done"
            /\ UNCHANGED <<input, blob, off, got>>
       ELSE Panic

Next == \/ Encode \/ EncodePanics
        \/ Ship \/ Truncate \/ Relength \/ Rebase
        \/ ReadVestaG \/ ReadWrapG \/ ReadWrapH \/ ReadBasis \/ ReadNumChunks \/ ReadVk
        \/ Assemble

Spec == Init /\ [][Next]_vars

-----------------------------------------------------------------------------
Reading == {"vesta_g", "wrap_g", "wrap_h", "basis", "nc", "vk"}

\* The cursor never leaves the blob and every section has its type, whatever the bytes.
TypeOK ==
    /\ input \in Inputs
    /\ blob \in Seq(Byte)
    /\ stage \in Reading \cup {"encode", "ship", "assemble", "done", "panic"}
    /\ off \in 0..Len(blob)
    /\ got \in Sections

\* kimchi's get_lagrange_basis at the domain of the VK: the cached entry under the
\* domain's size, the FFT over the generators when there is none.
BasisUsed(v) ==
    IF v.vk.domain \in DOMAIN v.cache THEN v.cache[v.vk.domain]
    ELSE LagrangeBasis(v.wrap_g, v.vk.domain)

Intact == stage # "encode" /\ blob = encode_verifier_blob(input)

Prefix == LET whole == encode_verifier_blob(input)
          IN  Len(blob) <= Len(whole) /\ blob = SubSeq(whole, 1, Len(blob))

\* An intact blob decodes without a panic; a blob cut short at any byte never yields a
\* verifier; and a decoded verifier is the encoded one, to the last byte, with the
\* canonical basis for the VK's domain waiting in the cache of its SRS
\* (encode_verifier_blob, decode_verifier_blob, seed_wrap_lagrange_basis).
WholeBlobOrNothing ==
    /\ Intact => stage # "panic"
    /\ (stage = "done" /\ Prefix) =>
         LET v == verifier IN
         /\ off = Len(blob) /\ Intact
         /\ v.vesta_g = input.vesta_g /\ v.wrap_g = input.wrap_g
         /\ v.wrap_h = input.wrap_h /\ v.nc = input.nc /\ v.vk = input.vk
         /\ v.vk.domain \in DOMAIN v.cache
         /\ BasisUsed(v) = LagrangeBasis(input.wrap_g, input.vk.domain)

\* Whatever the length fields say, every pod cast is made at an aligned address, so the
\* only panics are the bound checks (the casts of the read_* functions; the layout
\* comment "sections 8-byte aligned at start").
CastsAligned ==
    stage \in Reading => aligned(off) /\ aligned(off + U64)

\* Where the decoder found the length of the wrap generators, and of the basis, after what
\* it had read before.
WrapGField == U64 + POD * Len(got.vesta_g)
BasisField == WrapGField + U64 + POD * Len(got.wrap_g) + POD

\* Each of the three point sections that have been read has as many points as its length
\* field says: the product with the size of a point cannot have wrapped around, in either
\* reader (checked_mul in read_vesta_section and read_pallas_section).
LengthFieldHonoured ==
    LET after == [vesta_g |-> {"wrap_g", "wrap_h", "basis"}, wrap_g |-> {"wrap_h", "basis"},
                  basis |-> {}]
        Read(field) == stage \in after[field] \cup {"nc", "vk", "assemble", "done"}
    IN  /\ Read("vesta_g") => Len(got.vesta_g) = u64_at(0)
        /\ Read("wrap_g") => Len(got.wrap_g) = u64_at(WrapGField)
        /\ Read("basis") => Len(got.basis) = u64_at(BasisField)

\* serialize.rs on the decoded basis: "any mismatch surfaces as a cache miss + on-the-fly
\* fallback rather than wrong output".
MismatchFallsBack ==
    stage = "done" =>
        BasisUsed(verifier) = LagrangeBasis(verifier.wrap_g, verifier.vk.domain)
=============================================================================
