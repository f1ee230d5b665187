------------------------- MODULE PastaBridgeProofs -------------------------
(***************************************************************************)
(* For every pair of fields that satisfies PastaAssumption, the circuit    *)
(* recovers what the verifier wrote.                                       *)
(***************************************************************************)
EXTENDS PastaBridge, TLAPS

-----------------------------------------------------------------------------
\* Arithmetic.

\* Division with remainder.
LEMMA DivMod ==
    ASSUME NEW n \in Int, NEW d \in Nat \ {0}
    PROVE  /\ n \div d \in Int
           /\ n % d \in 0..(d - 1)
           /\ n = d * (n \div d) + (n % d)
  OBVIOUS

\* Two numbers below d that differ by a multiple of d are equal.
LEMMA ResidueUnique ==
    ASSUME NEW d \in Nat \ {0}, NEW a \in 0..(d - 1), NEW b \in 0..(d - 1),
           NEW k \in Int, a = b + d * k
    PROVE  a = b
  <1>1. CASE k >= 1
    <2>1. d * k >= d
      BY <1>1
    <2> QED BY <2>1
  <1>2. CASE k <= -1
    <2>1. d * k <= -d
      BY <1>2
    <2> QED BY <2>1
  <1>3. CASE k = 0
    BY <1>3
  <1> QED BY <1>1, <1>2, <1>3

\* A residue is not changed by adding a multiple of the modulus.
LEMMA ModOfMultiple ==
    ASSUME NEW d \in Nat \ {0}, NEW a \in 0..(d - 1), NEW k \in Int
    PROVE  (a + d * k) % d = a
  <1> DEFINE n == a + d * k
             q == n \div d
             r == n % d
  <1>1. n \in Int
    OBVIOUS
  <1>2. q \in Int /\ r \in 0..(d - 1) /\ n = d * q + r
    BY <1>1, DivMod
  <1>3. r = a + d * (k - q)
    <2> HIDE DEF q, r
    <2>1. d * (k - q) = d * k - d * q
      BY <1>2
    <2> QED BY <1>2, <2>1
  <1>4. k - q \in Int
    BY <1>2
  <1>5. r = a
    <2> HIDE DEF q, r
    <2> QED BY <1>2, <1>3, <1>4, ResidueUnique
  <1> QED BY <1>5

-----------------------------------------------------------------------------
\* The maps of the bridge.

\* The moduli and the shift are numbers of the sizes the lemmas need (PastaAssumption).
LEMMA Sizes == /\ P \in Nat \ {0} /\ Q \in Nat \ {0} /\ Shift \in Nat
               /\ P <= Q /\ 1024 <= P
  BY PastaAssumption

\* The two halves of the inverse of two.
LEMMA HalfIsInverse == half \in Nat /\ 2 * half = P + 1
  BY PastaAssumption DEF half

\* A step-field element is its own representative in the wrap field (fp_to_fq).
LEMMA CastIsExact == ASSUME NEW v \in Fp PROVE fp_to_fq(v) = v /\ fp_to_fq(v) \in Fq
  <1>1. v \in 0..(Q - 1)
    BY Sizes DEF Fp
  <1>2. (v + Q * 0) % Q = v
    BY <1>1, Sizes, ModOfMultiple
  <1> QED BY <1>1, <1>2, Sizes DEF fp_to_fq, Fq

\* cross_field_type1 is undone by the un-shift in the step field, for every element.
LEMMA Type1RoundTrip ==
    ASSUME NEW raw \in Fp
    PROVE  /\ cross_field_type1(raw) \in Fq
           /\ circuit_type1(cross_field_type1(raw)) = raw
  <1> DEFINE n == (raw - Shift) * half
             q == n \div P
             t == n % P
  <1>1. raw \in Int /\ raw - Shift \in Int /\ n \in Int
    BY Sizes, HalfIsInverse DEF Fp
  <1>2. q \in Int /\ t \in 0..(P - 1) /\ n = P * q + t
    BY <1>1, Sizes, DivMod
  <1>3. t \in Fp
    BY <1>2 DEF Fp
  <1>4. cross_field_type1(raw) = t /\ t \in Fq
    BY <1>3, CastIsExact DEF cross_field_type1
  <1>5. 2 * n = (raw - Shift) * (P + 1)
    <2> HIDE DEF t, q
    <2>1. 2 * n = (raw - Shift) * (2 * half)
      BY <1>1, HalfIsInverse
    <2> QED BY <2>1, HalfIsInverse
  <1>6. 2 * t + Shift = raw + P * ((raw - Shift) - 2 * q)
    <2> HIDE DEF t, q, n
    <2>1. (raw - Shift) * (P + 1) = P * (raw - Shift) + (raw - Shift)
      BY <1>1, Sizes
    <2>2. P * ((raw - Shift) - 2 * q) = P * (raw - Shift) - 2 * (P * q)
      BY <1>1, <1>2, Sizes
    <2>3. P * (raw - Shift) \in Int /\ P * q \in Int
      BY <1>1, <1>2, Sizes
    <2> QED BY <1>1, <1>2, <1>5, <2>1, <2>2, <2>3, Sizes
  <1>7. (2 * t + Shift) % P = raw
    <2>1. (raw - Shift) - 2 * q \in Int
      BY <1>1, <1>2
    <2>2. raw \in 0..(P - 1)
      BY DEF Fp
    <2> HIDE DEF t, q
    <2>3. (raw + P * ((raw - Shift) - 2 * q)) % P = raw
      BY <2>1, <2>2, Sizes, ModOfMultiple
    <2> QED BY <1>6, <2>3
  <1> QED BY <1>4, <1>7 DEF circuit_type1

\* fp_to_fq is undone by reading the integer back.
LEMMA CastRoundTrip == ASSUME NEW v \in Fp PROVE circuit_cast(fp_to_fq(v)) = v
  <1>1. (v + P * 0) % P = v
    BY Sizes, ModOfMultiple DEF Fp
  <1>2. v % P = v
    BY <1>1, Sizes DEF Fp
  <1> QED BY <1>2, CastIsExact DEF circuit_cast

\* pack_branch_data keeps log2 and mask apart: the sum stays below the modulus.
LEMMA BranchRoundTrip ==
    ASSUME NEW log2 \in Fp, log2 < 256, NEW m \in Masks
    PROVE  /\ pack_branch_data(log2, m) \in Fq
           /\ circuit_log2(pack_branch_data(log2, m)) = log2
           /\ circuit_mask(pack_branch_data(log2, m)) = m
  <1> DEFINE s == 4 * log2 + m[1] + 2 * m[2]
  <1>1. log2 \in 0..255
    BY Sizes DEF Fp
  <1>2. m[1] \in {0, 1} /\ m[2] \in {0, 1} /\ m = <<m[1], m[2]>>
    BY DEF Masks
  <1>3. s \in 0..1023
    BY <1>1, <1>2
  <1>4. pack_branch_data(log2, m) = s
    <2>1. s \in 0..(Q - 1)
      BY <1>3, Sizes
    <2> HIDE DEF s
    <2>2. (s + Q * 0) % Q = s
      BY <2>1, Sizes, ModOfMultiple
    <2>3. s % Q = s
      BY <2>1, <2>2, Sizes
    <2> QED BY <2>3, CastIsExact DEF pack_branch_data, s
  <1>5. s \in Fq
    BY <1>3, Sizes DEF Fq
  <1>6. s \div 4 = log2 /\ s % 2 = m[1] /\ (s \div 2) % 2 = m[2]
    BY <1>1, <1>2
  <1> QED BY <1>2, <1>4, <1>5, <1>6 DEF circuit_log2, circuit_mask

-----------------------------------------------------------------------------
\* What a written slot holds: the inductive part of both theorems.
Written ==
    phase # "empty" =>
        /\ kind = "type1" => slot = cross_field_type1(x)
        /\ kind = "cast" => slot = fp_to_fq(x)
        /\ kind = "branch" => x < 256 /\ slot = pack_branch_data(x, mask)

IInv == TypeOK /\ Written /\ CircuitRecovers

\* Nothing is written at first (Init).
LEMMA InitIInv == Init => IInv
  <1> SUFFICES ASSUME Init PROVE IInv
    OBVIOUS
  <1>1. TypeOK
    BY Sizes DEF Init, TypeOK, Fq
  <1> QED BY <1>1 DEF Init, IInv, Written, CircuitRecovers

\* Writing a slot: any value of Fq keeps the types, and no read is disturbed.
LEMMA WriteStep ==
    ASSUME TypeOK, NEW v \in Fq, Write(v)
    PROVE  TypeOK' /\ CircuitRecovers'
  BY DEF Write, TypeOK, CircuitRecovers

\* Reading a slot keeps the types and recovers the value when the circuit's result is it.
LEMMA ReadStep ==
    ASSUME TypeOK, NEW v, NEW m, v = x, m = mask, Read(v, m)
    PROVE  TypeOK' /\ CircuitRecovers'
  <1>1. x \in Nat
    BY Sizes DEF TypeOK, Fp
  <1>2. mask \in {0, 1} \X {0, 1}
    BY DEF TypeOK, Masks
  <1>3. read' = [value |-> x, mask |-> mask] /\ x' = x /\ mask' = mask
    BY DEF Read
  <1>4. CircuitRecovers'
    BY <1>3 DEF CircuitRecovers
  <1>5. read' \in [value : Nat, mask : {0, 1} \X {0, 1}]
    BY <1>1, <1>2, <1>3
  <1> QED BY <1>4, <1>5 DEF TypeOK, Read

\* Every step writes a slot as Written says, and reads back what is there (Next).
LEMMA NextIInv == IInv /\ [Next]_vars => IInv'
  <1> SUFFICES ASSUME IInv, [Next]_vars PROVE IInv'
    OBVIOUS
  <1> USE DEF IInv
  <1>0. x \in Fp /\ mask \in Masks
    BY DEF TypeOK
  <1>1. CASE PushType1
    <2>1. cross_field_type1(x) \in Fq
      BY <1>0, Type1RoundTrip
    <2>2. TypeOK' /\ CircuitRecovers'
      BY <1>1, <2>1, WriteStep DEF PushType1
    <2>3. Written'
      BY <1>1 DEF PushType1, Write, Written
    <2> QED BY <2>2, <2>3
  <1>2. CASE PushCast
    <2>1. fp_to_fq(x) \in Fq
      BY <1>0, CastIsExact
    <2>2. TypeOK' /\ CircuitRecovers'
      BY <1>2, <2>1, WriteStep DEF PushCast
    <2>3. Written'
      BY <1>2 DEF PushCast, Write, Written
    <2> QED BY <2>2, <2>3
  <1>3. CASE PushBranch
    <2>1. pack_branch_data(x, mask) \in Fq
      BY <1>0, <1>3, BranchRoundTrip DEF PushBranch
    <2>2. TypeOK' /\ CircuitRecovers'
      BY <1>3, <2>1, WriteStep DEF PushBranch
    <2>3. Written'
      BY <1>3 DEF PushBranch, Write, Written
    <2> QED BY <2>2, <2>3
  <1>4. CASE ReadType1
    <2>1. circuit_type1(slot) = x
      BY <1>0, <1>4, Type1RoundTrip DEF ReadType1, Read, Written
    <2>2. TypeOK' /\ CircuitRecovers'
      BY <1>4, <2>1, ReadStep DEF ReadType1
    <2>3. Written'
      BY <1>4 DEF ReadType1, Read, Written
    <2> QED BY <2>2, <2>3
  <1>5. CASE ReadCast
    <2>1. circuit_cast(slot) = x
      BY <1>0, <1>5, CastRoundTrip DEF ReadCast, Read, Written
    <2>2. TypeOK' /\ CircuitRecovers'
      BY <1>5, <2>1, ReadStep DEF ReadCast
    <2>3. Written'
      BY <1>5 DEF ReadCast, Read, Written
    <2> QED BY <2>2, <2>3
  <1>6. CASE ReadBranch
    <2>1. circuit_log2(slot) = x /\ circuit_mask(slot) = mask
      BY <1>0, <1>6, BranchRoundTrip DEF ReadBranch, Read, Written
    <2>2. TypeOK' /\ CircuitRecovers'
      BY <1>6, <2>1, ReadStep DEF ReadBranch
    <2>3. Written'
      BY <1>6 DEF ReadBranch, Read, Written
    <2> QED BY <2>2, <2>3
  <1>7. CASE UNCHANGED vars
    BY <1>7 DEF vars, TypeOK, Written, CircuitRecovers
  <1> QED BY <1>1, <1>2, <1>3, <1>4, <1>5, <1>6, <1>7 DEF Next

\* Every slot is a canonical wrap-field element (TypeOK).
THEOREM TypeCorrect == Spec => []TypeOK
  <1>1. IInv => TypeOK
    BY DEF IInv
  <1> QED BY InitIInv, NextIInv, <1>1, PTL DEF Spec

\* The circuit recovers what the verifier wrote, in fields of any size
\* (cross_field_type1, fp_to_fq, pack_branch_data).
THEOREM BridgeRecovers == Spec => []CircuitRecovers
  <1>1. IInv => CircuitRecovers
    BY DEF IInv
  <1> QED BY InitIInv, NextIInv, <1>1, PTL DEF Spec

\* No two step-field values share a slot: the public input tells apart any two values
\* of a deferred field (what module Pickles assumes of cross_field_type1 and fp_to_fq).
THEOREM BridgeInjective ==
    ASSUME NEW a \in Fp, NEW b \in Fp
    PROVE  /\ cross_field_type1(a) = cross_field_type1(b) => a = b
           /\ fp_to_fq(a) = fp_to_fq(b) => a = b
  <1>1. cross_field_type1(a) = cross_field_type1(b) => a = b
    BY Type1RoundTrip
  <1>2. fp_to_fq(a) = fp_to_fq(b) => a = b
    BY CastRoundTrip
  <1> QED BY <1>1, <1>2

\* No two branches share a packed word (what module Pickles assumes of pack_branch_data).
THEOREM BranchInjective ==
    ASSUME NEW a \in Fp, NEW b \in Fp, a < 256, b < 256, NEW m \in Masks, NEW n \in Masks,
           pack_branch_data(a, m) = pack_branch_data(b, n)
    PROVE  a = b /\ m = n
  <1>1. /\ circuit_log2(pack_branch_data(a, m)) = a
        /\ circuit_mask(pack_branch_data(a, m)) = m
    BY BranchRoundTrip
  <1>2. /\ circuit_log2(pack_branch_data(b, n)) = b
        /\ circuit_mask(pack_branch_data(b, n)) = n
    BY BranchRoundTrip
  <1> QED BY <1>1, <1>2
=============================================================================
