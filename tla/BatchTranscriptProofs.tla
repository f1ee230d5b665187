----------------------- MODULE BatchTranscriptProofs -----------------------
(***************************************************************************)
(* For batches of every size, with proofs and public inputs of every       *)
(* length: the seed of the batched check is bound to the whole batch.      *)
(*                                                                         *)
(* While the loops run, the two hashers either agree so far, and then so   *)
(* do the items, or differ at a byte that stays where it is, or one of     *)
(* them has ended and is behind for good.                                  *)
(***************************************************************************)
EXTENDS BatchTranscript, SequenceTheorems, TLAPS

Item == [proof : Bytes, pi : Bytes]
Phases == {"proof_len", "proof", "pi_len", "pi"}

Types ==
    /\ batch \in [Two -> Seq(Item)]
    /\ hasher \in [Two -> Seq(Byte)]
    /\ at \in Nat \ {0}
    /\ phase \in Phases

\* What the items have in common when the hashers agree.
Agree ==
    /\ hasher[1] = hasher[2]
    /\ \A j \in 1..(at - 1) : /\ j <= Len(batch[1]) /\ j <= Len(batch[2])
                              /\ batch[1][j] = batch[2][j]
    /\ phase # "proof_len" => at <= Len(batch[1]) /\ at <= Len(batch[2])
    /\ phase = "proof" => Len(batch[1][at].proof) = Len(batch[2][at].proof)
    /\ phase \in {"pi_len", "pi"} => batch[1][at].proof = batch[2][at].proof
    /\ phase = "pi" => Len(batch[1][at].pi) = Len(batch[2][at].pi)

Differ(g, h) == \E k \in Nat : /\ k \in 1..Len(g) /\ k \in 1..Len(h) /\ g[k] # h[k]

Behind(a, b) == at > Len(batch[a]) /\ Len(hasher[a]) < Len(hasher[b])

Shape == Agree \/ Differ(hasher[1], hasher[2]) \/ Behind(1, 2) \/ Behind(2, 1)

IInv == Types /\ Shape

-----------------------------------------------------------------------------
\* to_le_bytes yields bytes, eight of them (u64_le).
LEMMA U64Bytes ==
    ASSUME NEW n \in Nat  PROVE u64_le(n) \in Seq(Byte) /\ Len(u64_le(n)) = 8
<1>1. /\ n % 256 \in Byte /\ (n \div 256) % 256 \in Byte
      /\ (n \div 65536) % 256 \in Byte /\ (n \div 16777216) % 256 \in Byte /\ 0 \in Byte
  BY SMT DEF Byte
<1>. QED  BY <1>1, SMT DEF u64_le

\* A length is the number its four low bytes stand for (u64_le).
LEMMA U64Digits ==
    ASSUME NEW x \in Nat, x <= MaxLen
    PROVE  x = (x % 256) + 256 * ((x \div 256) % 256) + 65536 * ((x \div 65536) % 256)
               + 16777216 * ((x \div 16777216) % 256)
<1>. DEFINE q1 == x \div 256  q2 == q1 \div 256  q3 == q2 \div 256
<1>1. x <= 2147483647
  BY SMT DEF MaxLen
<1>2. q1 \in Nat /\ x = (x % 256) + 256 * q1
  BY SMT
<1>3. q2 \in Nat /\ q1 = (q1 % 256) + 256 * q2 /\ q2 = x \div 65536
  BY SMT
<1>4. q3 \in Nat /\ q2 = (q2 % 256) + 256 * q3 /\ q3 = x \div 16777216
  BY SMT
<1>5. q3 % 256 = q3
  BY <1>1, SMT
<1>. QED  BY <1>2, <1>3, <1>4, <1>5, SMT

\* No two lengths have one prefix (u64_le).
LEMMA U64Injective ==
    ASSUME NEW n \in Nat, n <= MaxLen, NEW m \in Nat, m <= MaxLen, u64_le(n) = u64_le(m)
    PROVE  n = m
<1>1. /\ n % 256 = m % 256 /\ (n \div 256) % 256 = (m \div 256) % 256
      /\ (n \div 65536) % 256 = (m \div 65536) % 256
      /\ (n \div 16777216) % 256 = (m \div 16777216) % 256
  BY SMT DEF u64_le
<1>. QED  BY <1>1, U64Digits, SMT

\* What is in a hasher stays where it is when more is added (Hasher::update).
LEMMA DifferStays ==
    ASSUME NEW g \in Seq(Byte), NEW h \in Seq(Byte), NEW x \in Seq(Byte), NEW y \in Seq(Byte),
           Differ(g, h)
    PROVE  Differ(g \o x, h \o y)
<1>1. PICK k \in Nat : k \in 1..Len(g) /\ k \in 1..Len(h) /\ g[k] # h[k]
  BY DEF Differ
<1>2. (g \o x)[k] = g[k] /\ (h \o y)[k] = h[k]
  BY <1>1
<1>3. k \in 1..Len(g \o x) /\ k \in 1..Len(h \o y)
  BY <1>1
<1>. QED  BY <1>1, <1>2, <1>3 DEF Differ

\* Two different strings of one length added to one hasher leave a difference.
LEMMA DifferArises ==
    ASSUME NEW h \in Seq(Byte), NEW x \in Seq(Byte), NEW y \in Seq(Byte),
           Len(x) = Len(y), x # y
    PROVE  Differ(h \o x, h \o y)
<1>1. PICK i \in 1..Len(x) : x[i] # y[i]
  BY SeqEqual
<1>2. (h \o x)[Len(h) + i] = x[i] /\ (h \o y)[Len(h) + i] = y[i]
  OBVIOUS
<1>3. /\ Len(h) + i \in Nat /\ Len(h) + i \in 1..Len(h \o x) /\ Len(h) + i \in 1..Len(h \o y)
  OBVIOUS
<1>. QED  BY <1>1, <1>2, <1>3 DEF Differ

\* What update is called with is bytes (update).
LEMMA UpdateBytes ==
    ASSUME Types, NEW k \in Two, NEW p \in Phases
    PROVE  update(p, at, batch[k]) \in Seq(Byte)
<1>1. CASE at > Len(batch[k])
  BY <1>1 DEF update, Types
<1>2. CASE at <= Len(batch[k])
  <2>1. batch[k][at] \in Item
    BY <1>2 DEF Types
  <2>2. batch[k][at].proof \in Bytes /\ batch[k][at].pi \in Bytes
    BY <2>1 DEF Item
  <2>3. ASSUME NEW b \in Bytes  PROVE b \in Seq(Byte) /\ len_prefix(b) \in Seq(Byte)
    BY U64Bytes DEF Bytes, len_prefix
  <2>4. ~(at > Len(batch[k]))
    BY <1>2 DEF Types
  <2>. QED  BY <2>2, <2>3, <2>4 DEF update, Phases
<1>3. Len(batch[k]) \in Nat /\ at \in Nat
  BY DEF Types
<1>. QED  BY <1>1, <1>2, <1>3

\* The types, and a difference or a lead once there is one, survive every update (Update).
LEMMA UpdateKeeps ==
    ASSUME Types, NEW p \in Phases, NEW next \in Phases, Update(p, next),
           at' = at \/ at' = at + 1
    PROVE  /\ Types'
           /\ Differ(hasher[1], hasher[2]) => Differ(hasher[1], hasher[2])'
           /\ Behind(1, 2) => Behind(1, 2)'
           /\ Behind(2, 1) => Behind(2, 1)'
<1>. DEFINE u(k) == update(p, at, batch[k])
<1>1. \A k \in Two : u(k) \in Seq(Byte) /\ hasher[k] \in Seq(Byte)
  BY UpdateBytes DEF Types
<1>. HIDE DEF u
<1>2. /\ hasher' = [k \in Two |-> hasher[k] \o u(k)]
      /\ phase' = next /\ batch' = batch /\ at \in Nat \ {0} /\ at' \in Nat \ {0}
  BY DEF Update, Types, u
<1>3. Types'
  <2>1. \A k \in Two : hasher[k] \o u(k) \in Seq(Byte)
    BY <1>1
  <2>. QED  BY <1>2, <2>1 DEF Types
<1>4. hasher'[1] = hasher[1] \o u(1) /\ hasher'[2] = hasher[2] \o u(2)
  BY <1>2 DEF Two
<1>5. Differ(hasher[1], hasher[2]) => Differ(hasher'[1], hasher'[2])
  BY <1>1, <1>4, DifferStays DEF Two
<1>6. ASSUME NEW a \in Two, NEW b \in Two, Behind(a, b)  PROVE Behind(a, b)'
  <2>1. Len(batch[a]) \in Nat
    BY DEF Types
  <2>2. at > Len(batch[a]) /\ Len(hasher[a]) < Len(hasher[b])
    BY <1>6 DEF Behind
  <2>3. u(a) = <<>>
    BY <2>2 DEF u, update
  <2>4. hasher'[a] = hasher[a] /\ hasher'[b] = hasher[b] \o u(b)
    <3>1. hasher[a] \o u(a) = hasher[a]
      BY <1>1, <2>3
    <3>. QED  BY <1>2, <3>1
  <2>5. Len(hasher'[b]) >= Len(hasher[b])
    <3>1. Len(hasher[b] \o u(b)) = Len(hasher[b]) + Len(u(b))
      BY <1>1
    <3>2. Len(u(b)) \in Nat /\ Len(hasher[b]) \in Nat
      BY <1>1
    <3>. QED  BY <2>4, <3>1, <3>2
  <2>6. Len(hasher[a]) \in Nat /\ Len(hasher[b]) \in Nat /\ Len(hasher'[b]) \in Nat
    BY <1>1, <1>3 DEF Types
  <2>7. Len(hasher'[a]) < Len(hasher'[b])
    BY <2>2, <2>4, <2>5, <2>6
  <2>8. at' > Len(batch'[a])
    BY <1>2, <2>1, <2>2
  <2>. QED  BY <2>7, <2>8 DEF Behind
<1>. QED  BY <1>3, <1>5, <1>6 DEF Two

\* The items both loops are at, with their parts (Batches).
LEMMA BothAt ==
    ASSUME Types, at <= Len(batch[1]), at <= Len(batch[2]), NEW k \in Two
    PROVE  /\ batch[k][at] \in Item
           /\ batch[k][at].proof \in Seq(Byte) /\ batch[k][at].pi \in Seq(Byte)
           /\ Len(batch[k][at].proof) \in Nat /\ Len(batch[k][at].pi) \in Nat
           /\ Len(batch[k][at].proof) <= MaxLen /\ Len(batch[k][at].pi) <= MaxLen
           /\ ~(at > Len(batch[k]))
<1>1. at <= Len(batch[k]) /\ Len(batch[k]) \in Nat /\ at \in Nat \ {0}
  BY DEF Types, Two
<1>2. batch[k][at] \in Item
  BY <1>1 DEF Types
<1>3. batch[k][at].proof \in Bytes /\ batch[k][at].pi \in Bytes
  BY <1>2 DEF Item
<1>4. ASSUME NEW b \in Bytes  PROVE b \in Seq(Byte) /\ Len(b) \in Nat /\ Len(b) <= MaxLen
  BY DEF Bytes
<1>. QED  BY <1>1, <1>2, <1>3, <1>4

\* Strings of one length added to hashers that agree: they agree still and the strings were
\* equal, or they differ for good (Update).
LEMMA AgreeOrDiffer ==
    ASSUME Types, hasher[1] = hasher[2],
           NEW x \in Seq(Byte), NEW y \in Seq(Byte), Len(x) = Len(y),
           hasher'[1] = hasher[1] \o x, hasher'[2] = hasher[2] \o y
    PROVE  (x = y /\ hasher'[1] = hasher'[2]) \/ Differ(hasher[1], hasher[2])'
<1>1. CASE x = y
  BY <1>1
<1>2. CASE x # y
  <2>1. hasher[1] \in Seq(Byte)
    BY DEF Types, Two
  <2>2. Differ(hasher'[1], hasher'[2])
    BY <1>2, <2>1, DifferArises
  <2>. QED  BY <2>2
<1>. QED  BY <1>1, <1>2

\* What both hashers get in one step (Update).
LEMMA UpdateBoth ==
    ASSUME Types, NEW p \in Phases, NEW next \in Phases, Update(p, next)
    PROVE  /\ hasher'[1] = hasher[1] \o update(p, at, batch[1])
           /\ hasher'[2] = hasher[2] \o update(p, at, batch[2])
           /\ phase = p /\ phase' = next /\ batch' = batch /\ Going
  BY DEF Update, Two

\* The prefix of the proof: a loop that has ended falls behind, unequal lengths show.
LEMMA AgreeProofLen ==
    ASSUME Types, Agree, UpdateProofLen  PROVE Shape'
<1>1. /\ hasher'[1] = hasher[1] \o update("proof_len", at, batch[1])
      /\ hasher'[2] = hasher[2] \o update("proof_len", at, batch[2])
      /\ phase = "proof_len" /\ phase' = "proof" /\ batch' = batch /\ at' = at /\ Going
  BY UpdateBoth DEF UpdateProofLen, Phases
<1>2. /\ Len(batch[1]) \in Nat /\ Len(batch[2]) \in Nat /\ at \in Nat \ {0}
      /\ hasher[1] = hasher[2] /\ hasher[1] \in Seq(Byte)
  BY DEF Types, Agree, Two
<1>3. CASE at <= Len(batch[1]) /\ at <= Len(batch[2])
  <2>. DEFINE n == Len(batch[1][at].proof)  m == Len(batch[2][at].proof)
  <2>1. n \in Nat /\ m \in Nat /\ n <= MaxLen /\ m <= MaxLen
    BY <1>3, BothAt DEF Two
  <2>2. /\ update("proof_len", at, batch[1]) = u64_le(n)
        /\ update("proof_len", at, batch[2]) = u64_le(m)
    BY <1>3, BothAt DEF update, len_prefix, Two
  <2>3. /\ u64_le(n) \in Seq(Byte) /\ u64_le(m) \in Seq(Byte)
        /\ Len(u64_le(n)) = 8 /\ Len(u64_le(m)) = 8
    BY <2>1, U64Bytes
  <2>4. CASE Differ(hasher[1], hasher[2])'
    BY <2>4 DEF Shape
  <2>5. CASE u64_le(n) = u64_le(m) /\ hasher'[1] = hasher'[2]
    <3>1. n = m
      BY <2>1, <2>5, U64Injective
    <3>2. Agree'
      BY <1>1, <1>3, <2>5, <3>1 DEF Agree
    <3>. QED  BY <3>2 DEF Shape
  <2>6. \/ u64_le(n) = u64_le(m) /\ hasher'[1] = hasher'[2]
        \/ Differ(hasher[1], hasher[2])'
    <3>. HIDE DEF n, m
    <3>. QED  BY <1>1, <1>2, <2>2, <2>3, AgreeOrDiffer
  <2>. QED  BY <2>4, <2>5, <2>6
<1>4. ASSUME NEW a \in Two, NEW b \in Two, a # b, at > Len(batch[a])  PROVE Behind(a, b)'
  <2>1. at <= Len(batch[b]) /\ ~(at > Len(batch[b]))
    BY <1>1, <1>2, <1>4 DEF Going, Two
  <2>2. update("proof_len", at, batch[a]) = <<>>
    BY <1>4 DEF update
  <2>3. batch[b][at].proof \in Bytes
    <3>1. batch[b][at] \in Item
      BY <1>2, <2>1 DEF Types
    <3>. QED  BY <3>1 DEF Item
  <2>4. Len(batch[b][at].proof) \in Nat
    BY <2>3 DEF Bytes
  <2>5. /\ update("proof_len", at, batch[b]) \in Seq(Byte)
        /\ Len(update("proof_len", at, batch[b])) = 8
    BY <2>1, <2>4, U64Bytes DEF update, len_prefix
  <2>6. /\ hasher'[a] = hasher[1] \o <<>>
        /\ hasher'[b] = hasher[1] \o update("proof_len", at, batch[b])
    BY <1>1, <1>2, <1>4, <2>2 DEF Two
  <2>7. Len(hasher'[a]) = Len(hasher[1]) /\ Len(hasher'[b]) = Len(hasher[1]) + 8
    <3>1. ASSUME NEW h \in Seq(Byte), NEW x \in Seq(Byte)
          PROVE  Len(h \o x) = Len(h) + Len(x) /\ h \o <<>> = h
      OBVIOUS
    <3>. QED  BY <1>2, <2>5, <2>6, <3>1
  <2>8. Len(hasher[1]) \in Nat
    BY <1>2
  <2>. QED  BY <1>1, <1>4, <2>7, <2>8 DEF Behind
<1>5. \/ at <= Len(batch[1]) /\ at <= Len(batch[2])
      \/ at > Len(batch[1]) \/ at > Len(batch[2])
  BY <1>2
<1>6. at > Len(batch[1]) => Behind(1, 2)'
  BY <1>4 DEF Two
<1>7. at > Len(batch[2]) => Behind(2, 1)'
  BY <1>4 DEF Two
<1>. QED  BY <1>3, <1>5, <1>6, <1>7 DEF Shape

\* The proof itself: its length is common by now, so any difference shows.
LEMMA AgreeProof ==
    ASSUME Types, Agree, UpdateProof  PROVE Shape'
<1>1. /\ hasher'[1] = hasher[1] \o update("proof", at, batch[1])
      /\ hasher'[2] = hasher[2] \o update("proof", at, batch[2])
      /\ phase = "proof" /\ phase' = "pi_len" /\ batch' = batch /\ at' = at
  BY UpdateBoth DEF UpdateProof, Phases
<1>2. at <= Len(batch[1]) /\ at <= Len(batch[2])
  BY <1>1 DEF Agree
<1>3. /\ update("proof", at, batch[1]) = batch[1][at].proof
      /\ update("proof", at, batch[2]) = batch[2][at].proof
      /\ batch[1][at].proof \in Seq(Byte) /\ batch[2][at].proof \in Seq(Byte)
  BY <1>2, BothAt DEF update, Two
<1>4. Len(batch[1][at].proof) = Len(batch[2][at].proof) /\ hasher[1] = hasher[2]
  BY <1>1 DEF Agree
<1>5. \/ batch[1][at].proof = batch[2][at].proof /\ hasher'[1] = hasher'[2]
      \/ Differ(hasher[1], hasher[2])'
  BY <1>1, <1>3, <1>4, AgreeOrDiffer
<1>6. CASE batch[1][at].proof = batch[2][at].proof /\ hasher'[1] = hasher'[2]
  <2>1. Agree'
    BY <1>1, <1>2, <1>6 DEF Agree
  <2>. QED  BY <2>1 DEF Shape
<1>. QED  BY <1>5, <1>6 DEF Shape

\* The prefix of the public input.
LEMMA AgreePiLen ==
    ASSUME Types, Agree, UpdatePiLen  PROVE Shape'
<1>1. /\ hasher'[1] = hasher[1] \o update("pi_len", at, batch[1])
      /\ hasher'[2] = hasher[2] \o update("pi_len", at, batch[2])
      /\ phase = "pi_len" /\ phase' = "pi" /\ batch' = batch /\ at' = at
  BY UpdateBoth DEF UpdatePiLen, Phases
<1>2. /\ at <= Len(batch[1]) /\ at <= Len(batch[2])
      /\ hasher[1] = hasher[2] /\ batch[1][at].proof = batch[2][at].proof
  BY <1>1 DEF Agree
<1>. DEFINE n == Len(batch[1][at].pi)  m == Len(batch[2][at].pi)
<1>3. n \in Nat /\ m \in Nat /\ n <= MaxLen /\ m <= MaxLen
  BY <1>2, BothAt DEF Two
<1>4. /\ update("pi_len", at, batch[1]) = u64_le(n)
      /\ update("pi_len", at, batch[2]) = u64_le(m)
  BY <1>2, BothAt DEF update, len_prefix, Two
<1>5. /\ u64_le(n) \in Seq(Byte) /\ u64_le(m) \in Seq(Byte)
      /\ Len(u64_le(n)) = 8 /\ Len(u64_le(m)) = 8
  BY <1>3, U64Bytes
<1>6. \/ u64_le(n) = u64_le(m) /\ hasher'[1] = hasher'[2]
      \/ Differ(hasher[1], hasher[2])'
  <2>. HIDE DEF n, m
  <2>. QED  BY <1>1, <1>2, <1>4, <1>5, AgreeOrDiffer
<1>7. CASE u64_le(n) = u64_le(m) /\ hasher'[1] = hasher'[2]
  <2>1. n = m
    BY <1>3, <1>7, U64Injective
  <2>2. Agree'
    BY <1>1, <1>2, <1>7, <2>1 DEF Agree
  <2>. QED  BY <2>2 DEF Shape
<1>. QED  BY <1>6, <1>7 DEF Shape

\* The public input, and with it the item, is common or a difference shows.
LEMMA AgreePi ==
    ASSUME Types, Agree, UpdatePi  PROVE Shape'
<1>1. /\ hasher'[1] = hasher[1] \o update("pi", at, batch[1])
      /\ hasher'[2] = hasher[2] \o update("pi", at, batch[2])
      /\ phase = "pi" /\ phase' = "proof_len" /\ batch' = batch /\ at' = at + 1
  BY UpdateBoth DEF UpdatePi, Phases
<1>2. /\ at <= Len(batch[1]) /\ at <= Len(batch[2])
      /\ hasher[1] = hasher[2] /\ batch[1][at].proof = batch[2][at].proof
      /\ Len(batch[1][at].pi) = Len(batch[2][at].pi)
  BY <1>1 DEF Agree
<1>3. /\ update("pi", at, batch[1]) = batch[1][at].pi
      /\ update("pi", at, batch[2]) = batch[2][at].pi
      /\ batch[1][at].pi \in Seq(Byte) /\ batch[2][at].pi \in Seq(Byte)
      /\ batch[1][at] \in Item /\ batch[2][at] \in Item
  BY <1>2, BothAt DEF update, Two
<1>4. \/ batch[1][at].pi = batch[2][at].pi /\ hasher'[1] = hasher'[2]
      \/ Differ(hasher[1], hasher[2])'
  BY <1>1, <1>2, <1>3, AgreeOrDiffer
<1>5. CASE batch[1][at].pi = batch[2][at].pi /\ hasher'[1] = hasher'[2]
  <2>1. batch[1][at] = batch[2][at]
    BY <1>2, <1>3, <1>5 DEF Item
  <2>2. at \in Nat \ {0}
    BY DEF Types
  <2>3. \A j \in 1..(at' - 1) : j \in 1..(at - 1) \/ j = at
    BY <1>1, <2>2
  <2>4. \A j \in 1..(at' - 1) : /\ j <= Len(batch[1]) /\ j <= Len(batch[2])
                                /\ batch[1][j] = batch[2][j]
    BY <1>2, <2>1, <2>3 DEF Agree
  <2>5. Agree'
    BY <1>1, <1>5, <2>4 DEF Agree
  <2>. QED  BY <2>5 DEF Shape
<1>. QED  BY <1>4, <1>5 DEF Shape

\* The first update is the domain separator, in both hashers (Init).
LEMMA InitShape == Init => IInv
<1>. SUFFICES ASSUME Init PROVE IInv
  OBVIOUS
<1>1. Types
  <2>1. Batches \subseteq Seq(Item) /\ Domain \in Seq(Byte)
    BY TranscriptAssumption DEF Item
  <2>2. batch \in [Two -> Seq(Item)]
    BY <2>1, Zenon DEF Init
  <2>. QED  BY <2>1, <2>2 DEF Init, Types, Phases
<1>2. Agree
  BY DEF Init, Agree, Two
<1>. QED  BY <1>1, <1>2 DEF IInv, Shape

\* Every update keeps the invariant.
LEMMA NextShape == IInv /\ [Next]_vars => IInv'
<1>. SUFFICES ASSUME IInv, [Next]_vars PROVE IInv'
  OBVIOUS
<1>1. Types /\ Shape
  BY DEF IInv
<1>2. ASSUME NEW p \in Phases, NEW next \in Phases, Update(p, next),
             at' = at \/ at' = at + 1, Agree => Shape'
      PROVE  IInv'
  BY <1>1, <1>2, UpdateKeeps DEF IInv, Shape
<1>3. CASE UpdateProofLen
  BY <1>1, <1>2, <1>3, AgreeProofLen DEF UpdateProofLen, Phases
<1>4. CASE UpdateProof
  BY <1>1, <1>2, <1>4, AgreeProof DEF UpdateProof, Phases
<1>5. CASE UpdatePiLen
  BY <1>1, <1>2, <1>5, AgreePiLen DEF UpdatePiLen, Phases
<1>6. CASE UpdatePi
  BY <1>1, <1>2, <1>6, AgreePi DEF UpdatePi, Phases
<1>7. CASE UNCHANGED vars
  BY <1>7 DEF vars, IInv, Types, Shape, Agree, Differ, Behind
<1>. QED  BY <1>3, <1>4, <1>5, <1>6, <1>7 DEF Next

\* When both loops have ended only hashers that agree can be equal, and then the batches are.
LEMMA ShapeBinds == IInv => SeedBindsBatch
<1>. SUFFICES ASSUME IInv, ~Going, hasher[1] = hasher[2]  PROVE batch[1] = batch[2]
  BY DEF SeedBindsBatch
<1>1. /\ batch[1] \in Seq(Item) /\ batch[2] \in Seq(Item) /\ at \in Nat \ {0}
      /\ hasher[1] \in Seq(Byte) /\ hasher[2] \in Seq(Byte)
  BY DEF IInv, Types, Two
<1>2. Len(batch[1]) \in Nat /\ Len(batch[2]) \in Nat /\ Len(hasher[1]) \in Nat
  BY <1>1
<1>3. Agree
  BY <1>2 DEF IInv, Shape, Differ, Behind
<1>4. at > Len(batch[1]) /\ at > Len(batch[2])
  BY <1>1, <1>2 DEF Going, Two
<1>5. \A j \in 1..(at - 1) : /\ j <= Len(batch[1]) /\ j <= Len(batch[2])
                             /\ batch[1][j] = batch[2][j]
  BY <1>3 DEF Agree
<1>6. Len(batch[1]) = at - 1 /\ Len(batch[2]) = at - 1
  <2>1. CASE at = 1
    BY <1>1, <1>2, <1>4, <2>1
  <2>2. CASE at # 1
    <3>1. at - 1 \in 1..(at - 1)
      BY <1>1, <2>2
    <3>2. at - 1 <= Len(batch[1]) /\ at - 1 <= Len(batch[2])
      BY <1>5, <3>1
    <3>. QED  BY <1>1, <1>2, <1>4, <3>2
  <2>. QED  BY <2>1, <2>2
<1>. QED  BY <1>1, <1>5, <1>6, SeqEqual

\* The seed of kimchi's batched check determines every proof and every public input of the
\* batch, for batches of every size (batching_rng).
THEOREM SeedAlwaysBinds == Spec => []SeedBindsBatch
<1>1. Spec => []IInv
  BY InitShape, NextShape, PTL DEF Spec
<1>. QED  BY <1>1, ShapeBinds, PTL
=============================================================================
