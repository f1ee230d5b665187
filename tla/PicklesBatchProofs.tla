------------------------- MODULE PicklesBatchProofs -------------------------
(***************************************************************************)
(* Theorems about the callers of the library, for every number of rounds,  *)
(* columns, instances, inputs and batch entries: the public input has its  *)
(* length, batching changes no verdict, and a batch is accepted exactly    *)
(* when each of its inputs is a genuine proof of the tag.                  *)
(***************************************************************************)
EXTENDS PicklesBatch, PicklesBinding

\* Only converted inputs are in the batch (Convert).
AllConverted == \A i \in DOMAIN batch : converted(batch[i]).ok

\* The verdict is that of the batch as it stands (Verify).
VerdictIsOfBatch == Verified => verdict = verify_batch(verifier, proofs(batch))

Shape == /\ batch \in Seq(Inputs) /\ Len(batch) <= MaxBatch
         /\ verdict \in {"open", "error", "true", "false", "panic"}

IInv == Shape /\ AllConverted /\ VerdictIsOfBatch

-----------------------------------------------------------------------------
\* The caller's steps on an input are those of module PicklesBinding (converted).
LEMMA ConvertedIs ==
    ASSUME NEW in
    PROVE  converted(in) = verifiable(Files(in)) /\ verifier = verifier_of(Tag)
  BY DEF converted, parse_and_convert, verifiable, verifier, verifier_of

\* What the files of an input are (serde).
LEMMA InputFiles ==
    ASSUME NEW in \in Inputs
    PROVE  /\ IsKey(Files(in).vk) /\ IsSkeleton(Files(in).skeleton)
           /\ \E inst \in Instances : IsInstance(inst) /\ Files(in).proof = WrapProof(inst)
  BY FilesAssumption

\* A verdict is one of three (verify_batch).
LEMMA VerdictType ==
    ASSUME NEW v, NEW ps  PROVE verify_batch(v, ps) \in {"true", "false", "panic"}
  BY DEF verify_batch

\* Nothing is verified at first (Init).
LEMMA IInvInit == Init => IInv
<1>1. SUFFICES ASSUME Init PROVE IInv
  OBVIOUS
<1>2. batch = <<>> /\ verdict = "open"
  BY <1>1 DEF Init
<1>3. Shape
  BY <1>2, BatchAssumption DEF Shape
<1>4. AllConverted
  BY <1>2 DEF AllConverted
<1>5. VerdictIsOfBatch
  BY <1>2 DEF VerdictIsOfBatch, Verified
<1>. QED  BY <1>3, <1>4, <1>5 DEF IInv

\* Every step keeps the batch converted and the verdict its own (Convert, Refuse, Verify).
LEMMA IInvNext == IInv /\ [Next]_vars => IInv'
<1>1. SUFFICES ASSUME IInv, [Next]_vars PROVE IInv'
  OBVIOUS
<1>2. ASSUME NEW in \in Inputs, Convert(in)  PROVE IInv'
  <2>1. /\ verdict = "open" /\ Len(batch) < MaxBatch /\ converted(in).ok
        /\ batch' = Append(batch, in) /\ verdict' = "open"
    BY <1>2 DEF Convert
  <2>2. batch \in Seq(Inputs)
    BY <1>1 DEF IInv, Shape
  <2>3. Shape'
    BY <2>1, <2>2, BatchAssumption DEF Shape
  <2>4. AllConverted'
    <3>1. SUFFICES ASSUME NEW i \in DOMAIN batch'  PROVE converted(batch'[i]).ok
      BY DEF AllConverted
    <3>2. CASE i \in DOMAIN batch
      <4>1. batch'[i] = batch[i]
        BY <2>1, <2>2, <3>2
      <4>. QED  BY <1>1, <3>2, <4>1 DEF IInv, AllConverted
    <3>3. CASE ~(i \in DOMAIN batch)
      <4>1. batch'[i] = in
        BY <2>1, <2>2, <3>3
      <4>. QED  BY <2>1, <4>1
    <3>. QED  BY <3>2, <3>3
  <2>5. VerdictIsOfBatch'
    BY <2>1 DEF VerdictIsOfBatch, Verified
  <2>. QED  BY <2>3, <2>4, <2>5 DEF IInv
<1>3. ASSUME NEW in \in Inputs, Refuse(in)  PROVE IInv'
  <2>1. verdict' = "error" /\ batch' = batch
    BY <1>3 DEF Refuse
  <2>. QED  BY <1>1, <2>1 DEF IInv, Shape, AllConverted, VerdictIsOfBatch, Verified
<1>4. ASSUME Verify  PROVE IInv'
  <2>1. verdict' = verify_batch(verifier, proofs(batch)) /\ batch' = batch
    BY <1>4 DEF Verify
  <2>2. verdict' \in {"true", "false", "panic"}
    BY <2>1, VerdictType
  <2>3. proofs(batch') = proofs(batch)
    BY <2>1
  <2>4. VerdictIsOfBatch'
    BY <2>1, <2>3 DEF VerdictIsOfBatch
  <2>. QED  BY <1>1, <2>1, <2>2, <2>4 DEF IInv, Shape, AllConverted
<1>5. CASE UNCHANGED vars
  BY <1>1, <1>5 DEF vars, IInv, Shape, AllConverted, VerdictIsOfBatch, Verified, proofs
<1>. QED  BY <1>1, <1>2, <1>3, <1>4, <1>5 DEF Next

\* The public input of a converted proof has the length the wrap index declares
\* (wrap_public_input).
LEMMA PublicInputLength ==
    ASSUME NEW in \in Inputs, converted(in).ok
    PROVE  Len(public_input_of(verifier, converted(in).value)) = StepIpaRounds + 24
<1>. DEFINE f == Files(in)
            p == verifiable(f).value
            dv == expand_deferred(verifier_of(Tag), p)
<1>1. IsSkeleton(f.skeleton) /\ converts(f)
  <2>1. IsSkeleton(f.skeleton)
    BY InputFiles
  <2>2. verifiable(f).ok
    BY ConvertedIs
  <2>. HIDE DEF f
  <2>. QED  BY <2>1, <2>2, Converted
<1>. HIDE DEF f
<1>2. dv = deferred(transcript(f.skeleton), f.skeleton, p.branch_data)
  BY <1>1, Deferred
<1>3. dv.bulletproof_prechallenges = f.skeleton.bulletproof_challenges
  <2>. HIDE DEF dv
  <2>. QED  BY <1>2 DEF deferred
<1>4. IsArray(dv.bulletproof_prechallenges) /\ Len(dv.bulletproof_prechallenges) = StepIpaRounds
  <2>. HIDE DEF dv
  <2>. QED  BY <1>1, <1>3 DEF IsSkeleton, converts, parses
<1>5. Len(wrap_public_input(dv, p.step_digest, p.wrap_digest)) = StepIpaRounds + 24
  <2>. HIDE DEF dv, p
  <2>. QED  BY <1>4, PublicInputSlots
<1>6. public_input_of(verifier, converted(in).value)
        = wrap_public_input(dv, p.step_digest, p.wrap_digest)
  BY ConvertedIs DEF public_input_of, f
<1>. QED  BY <1>5, <1>6

\* The caller stays within its types, and whatever was converted has a public input of the
\* one length the wrap index declares, however many previous proofs there are
\* (into_verifiable, wrap_public_input).
THEOREM BatchTypes == Spec => []TypeOK
<1>1. IInv => TypeOK
  <2>1. SUFFICES ASSUME IInv PROVE TypeOK
    OBVIOUS
  <2>2. Shape /\ AllConverted
    BY <2>1 DEF IInv
  <2>3. ASSUME NEW i \in DOMAIN batch
        PROVE  Len(public_input_of(verifier, converted(batch[i]).value)) = StepIpaRounds + 24
    <3>1. batch[i] \in Inputs
      BY <2>2 DEF Shape
    <3>2. converted(batch[i]).ok
      BY <2>2 DEF AllConverted
    <3>. QED  BY <3>1, <3>2, PublicInputLength
  <2>. QED  BY <2>2, <2>3 DEF TypeOK, Shape
<1>. QED  BY <1>1, IInvInit, IInvNext, PTL DEF Spec

-----------------------------------------------------------------------------
\* The verdict depends on which proofs there are and not on their order (verify_batch).
LEMMA OrderIsIrrelevant ==
    ASSUME NEW v, NEW ps, NEW qs,
           \A i \in DOMAIN ps : \E j \in DOMAIN qs : ps[i] = qs[j],
           \A j \in DOMAIN qs : \E i \in DOMAIN ps : qs[j] = ps[i]
    PROVE  verify_batch(v, ps) = verify_batch(v, qs)
<1>1. (\E i \in DOMAIN ps : ~accumulator_check(v, ps[i]))
        <=> \E j \in DOMAIN qs : ~accumulator_check(v, qs[j])
  OBVIOUS
<1>2. (\E i \in DOMAIN ps : ~step_domain_exists(ps[i]))
        <=> \E j \in DOMAIN qs : ~step_domain_exists(qs[j])
  OBVIOUS
<1>3. (\A i \in DOMAIN ps : kimchi_accepts(v, ps[i]))
        <=> \A j \in DOMAIN qs : kimchi_accepts(v, qs[j])
  OBVIOUS
<1>. QED  BY <1>1, <1>2, <1>3 DEF verify_batch

\* A batch has the same verdict in every order (verify_batch).
LEMMA ReorderedBatch ==
    ASSUME NEW v, NEW s, NEW ps \in Orders(s)
    PROVE  verify_batch(v, s) = verify_batch(v, ps)
<1>1. PICK p \in Bijection(DOMAIN s, DOMAIN s) : ps = [i \in DOMAIN s |-> s[p[i]]]
  BY DEF Orders
<1>2. p \in [DOMAIN s -> DOMAIN s] /\ \A j \in DOMAIN s : \E i \in DOMAIN s : p[i] = j
  BY DEF Bijection, Injection, Surjection
<1>3. DOMAIN ps = DOMAIN s /\ \A i \in DOMAIN s : ps[i] = s[p[i]] /\ p[i] \in DOMAIN s
  BY <1>1, <1>2
<1>4. /\ \A i \in DOMAIN s : \E j \in DOMAIN ps : s[i] = ps[j]
      /\ \A j \in DOMAIN ps : \E i \in DOMAIN s : ps[j] = s[i]
  BY <1>2, <1>3
<1>. QED  BY <1>4, OrderIsIrrelevant

\* A batch passes exactly when each input alone does (verify_batch, verify).
LEMMA EachPasses ==
    ASSUME NEW s \in Seq(Inputs)
    PROVE  verify_batch(verifier, proofs(s)) = "true"
             <=> \A i \in DOMAIN s : passes(verifier, converted(s[i]).value)
<1>1. DOMAIN proofs(s) = DOMAIN s /\ \A i \in DOMAIN s : proofs(s)[i] = converted(s[i]).value
  BY DEF proofs
<1>. QED  BY <1>1, BatchPasses

\* Batching changes no verdict: a batch passes exactly when each proof alone does, and its
\* verdict, a panic included, is that of the batch in any order (verify_batch, verify).
THEOREM BatchingIsSound == Spec => []BatchAgreesWithSingles
<1>1. IInv => BatchAgreesWithSingles
  <2>1. SUFFICES ASSUME IInv, Verified
                 PROVE  /\ verdict = "true" <=> \A i \in DOMAIN batch :
                              verify(verifier, converted(batch[i]).value) = "true"
                        /\ \A ps \in Orders(proofs(batch)) :
                              verdict = verify_batch(verifier, ps)
    BY DEF BatchAgreesWithSingles
  <2>2. batch \in Seq(Inputs) /\ verdict = verify_batch(verifier, proofs(batch))
    BY <2>1 DEF IInv, Shape, VerdictIsOfBatch
  <2>3. verdict = "true" <=> \A i \in DOMAIN batch : passes(verifier, converted(batch[i]).value)
    BY <2>2, EachPasses
  <2>4. \A ps \in Orders(proofs(batch)) : verdict = verify_batch(verifier, ps)
    BY <2>2, ReorderedBatch
  <2>. QED  BY <2>3, <2>4, SinglePasses
<1>. QED  BY <1>1, IInvInit, IInvNext, PTL DEF Spec

-----------------------------------------------------------------------------
\* What is read of files, with the sequences spelled out (Read).
LEMMA ReadIs ==
    ASSUME NEW f
    PROVE  LET s == f.skeleton IN
           Read(f) = [proof |-> f.proof, stmt |-> f.stmt, comms |-> first_chunks(f.vk),
                      plonk |-> s.plonk, bulletproof_challenges |-> s.bulletproof_challenges,
                      domain_log2 |-> s.domain_log2 % 256, proofs_verified |-> s.proofs_verified,
                      sponge_digest |-> s.sponge_digest, cpc |-> s.cpc,
                      prev_evals |-> s.prev_evals,
                      prev_step_sgs |-> [i \in 1..zipped(s.prev_step_sgs, s.prev_step_chals) |->
                                           s.prev_step_sgs[i]],
                      prev_step_chals |-> s.prev_step_chals,
                      prev_wrap_chals |-> slots(s.prev_wrap_chals)]
<1>. DEFINE s == f.skeleton
<1>1. DOMAIN Zip(s.prev_step_sgs, s.prev_step_chals)
        = 1..zipped(s.prev_step_sgs, s.prev_step_chals)
  BY DEF Zip, zipped
<1>. QED  BY <1>1, Zenon DEF Read, first_chunks, slots

\* Files read like those of an instance exactly when they match it (Read).
LEMMA ReadMatches ==
    ASSUME NEW f, IsSkeleton(f.skeleton), NEW inst, IsInstance(inst), f.proof = WrapProof(inst)
    PROVE  Read(f) = Read(Fixture(inst)) <=> Matches(f, inst)
<1>. DEFINE s == f.skeleton
            g == Skeleton(inst)
            n == Len(inst.prevs)
            m == zipped(s.prev_step_sgs, s.prev_step_chals)
            a == [i \in 1..m |-> s.prev_step_sgs[i]]
            b == [i \in 1..n |-> g.prev_step_sgs[i]]
<1>1. /\ Fixture(inst).skeleton = g /\ Fixture(inst).proof = WrapProof(inst)
      /\ Fixture(inst).stmt = inst.stmt /\ Fixture(inst).vk = inst.vk
  BY DEF Fixture
<1>2. g.domain_log2 % 256 = inst.log2
  <2>1. inst.log2 \in 0..32
    BY DEF IsInstance, TwoAdicity
  <2>2. inst.log2 % 256 = inst.log2
    BY <2>1
  <2>3. g.domain_log2 = inst.log2
    BY DEF Skeleton
  <2>. QED  BY <2>2, <2>3
<1>3. n \in Nat /\ Len(g.prev_step_sgs) = n /\ Len(g.prev_step_chals) = n
  BY InstancePrevs
<1>4. zipped(g.prev_step_sgs, g.prev_step_chals) = n
  BY <1>3 DEF zipped
<1>5. Len(s.prev_step_sgs) \in Nat /\ Len(s.prev_step_chals) \in Nat
  BY ArrayDomain DEF IsSkeleton, IsArrays
<1>6. m \in Nat /\ (Len(s.prev_step_chals) = n => (m = n <=> n <= Len(s.prev_step_sgs)))
  BY <1>3, <1>5 DEF zipped
<1>. HIDE DEF g, n, m
<1>7. a = b <=> m = n /\ \A i \in 1..n : s.prev_step_sgs[i] = g.prev_step_sgs[i]
  <2>1. ASSUME a = b  PROVE m = n /\ \A i \in 1..n : s.prev_step_sgs[i] = g.prev_step_sgs[i]
    <3>1. 1..m = 1..n
      <4>1. DOMAIN a = 1..m /\ DOMAIN b = 1..n
        OBVIOUS
      <4>. QED  BY <2>1, <4>1
    <3>2. m = n
      BY <1>3, <1>6, <3>1
    <3>3. ASSUME NEW i \in 1..n  PROVE s.prev_step_sgs[i] = g.prev_step_sgs[i]
      <4>1. a[i] = s.prev_step_sgs[i] /\ b[i] = g.prev_step_sgs[i]
        BY <3>2
      <4>. QED  BY <2>1, <4>1
    <3>. QED  BY <3>2, <3>3
  <2>. QED  BY <2>1
<1>8. Read(f) =
        [proof |-> f.proof, stmt |-> f.stmt, comms |-> first_chunks(f.vk),
         plonk |-> s.plonk, bulletproof_challenges |-> s.bulletproof_challenges,
         domain_log2 |-> s.domain_log2 % 256, proofs_verified |-> s.proofs_verified,
         sponge_digest |-> s.sponge_digest, cpc |-> s.cpc,
         prev_evals |-> s.prev_evals, prev_step_sgs |-> a,
         prev_step_chals |-> s.prev_step_chals, prev_wrap_chals |-> slots(s.prev_wrap_chals)]
  BY ReadIs DEF m
<1>9. Read(Fixture(inst)) =
        [proof |-> WrapProof(inst), stmt |-> inst.stmt, comms |-> first_chunks(inst.vk),
         plonk |-> g.plonk, bulletproof_challenges |-> g.bulletproof_challenges,
         domain_log2 |-> inst.log2, proofs_verified |-> g.proofs_verified,
         sponge_digest |-> g.sponge_digest, cpc |-> g.cpc,
         prev_evals |-> g.prev_evals, prev_step_sgs |-> b,
         prev_step_chals |-> g.prev_step_chals, prev_wrap_chals |-> slots(g.prev_wrap_chals)]
  BY <1>1, <1>2, <1>4, ReadIs
<1>. HIDE DEF a, b
<1>10. Read(f) = Read(Fixture(inst)) <=>
         /\ f.stmt = inst.stmt /\ first_chunks(f.vk) = first_chunks(inst.vk)
         /\ s.plonk = g.plonk /\ s.bulletproof_challenges = g.bulletproof_challenges
         /\ s.domain_log2 % 256 = inst.log2 /\ s.proofs_verified = g.proofs_verified
         /\ s.sponge_digest = g.sponge_digest /\ s.cpc = g.cpc /\ s.prev_evals = g.prev_evals
         /\ a = b /\ s.prev_step_chals = g.prev_step_chals
         /\ slots(s.prev_wrap_chals) = slots(g.prev_wrap_chals)
  BY <1>8, <1>9
<1>11. ASSUME s.prev_step_chals = g.prev_step_chals
       PROVE  m = n <=> n <= Len(s.prev_step_sgs)
  BY <1>3, <1>6, <1>11
<1>. QED  BY <1>7, <1>10, <1>11 DEF Matches, g, n

\* A converted input passes exactly when it is genuine (verify, into_verifiable).
LEMMA PassesExactlyGenuine ==
    ASSUME NEW in \in Inputs, converted(in).ok
    PROVE  passes(verifier, converted(in).value) <=> Genuine(in)
<1>. DEFINE f == Files(in)
            ok == passes(verifier_of(Tag), verifiable(f).value)
<1>1. IsKey(f.vk) /\ IsSkeleton(f.skeleton) /\ verifiable(f).ok
  BY InputFiles, ConvertedIs
<1>2. PICK made \in Instances : IsInstance(made) /\ f.proof = WrapProof(made)
  BY InputFiles
<1>3. passes(verifier, converted(in).value) <=> ok
  BY ConvertedIs
<1>4. Genuine(in) <=> \E inst \in Instances : inst.vk = Tag /\ Read(f) = Read(Fixture(inst))
  BY DEF Genuine
<1>. HIDE DEF f
<1>5. converts(f)
  BY <1>1, Converted
<1>6. ASSUME NEW inst \in Instances, f.proof = WrapProof(inst)
      PROVE  ok <=> Tag = inst.vk /\ Read(f) = Read(Fixture(inst))
  <2>1. IsInstance(inst)
    BY FilesAssumption
  <2>2. ok <=> Tag = inst.vk /\ Matches(f, inst)
    BY <1>1, <1>5, <1>6, <2>1, PassesExactlyMatches
  <2>3. Read(f) = Read(Fixture(inst)) <=> Matches(f, inst)
    BY <1>1, <1>6, <2>1, ReadMatches
  <2>. QED  BY <2>2, <2>3
<1>7. ASSUME NEW inst \in Instances, Read(f) = Read(Fixture(inst))  PROVE f.proof = WrapProof(inst)
  <2>1. Read(f).proof = f.proof /\ Read(Fixture(inst)).proof = WrapProof(inst)
    BY DEF Read, Fixture
  <2>. QED  BY <1>7, <2>1
<1>. HIDE DEF ok
<1>8. ASSUME ok  PROVE Genuine(in)
  BY <1>2, <1>4, <1>6, <1>8
<1>9. ASSUME Genuine(in)  PROVE ok
  <2>1. PICK inst \in Instances : inst.vk = Tag /\ Read(f) = Read(Fixture(inst))
    BY <1>4, <1>9
  <2>. QED  BY <1>6, <1>7, <2>1
<1>. QED  BY <1>3, <1>8, <1>9

\* A batch is accepted exactly when each input in it is a genuine proof of the tag with its own
\* statement, key commitments and skeleton, for every number of rounds, columns, previous proofs
\* and inputs (verify_batch, expand_deferred, wrap_public_input, into_verifiable).
THEOREM AcceptanceIsExact == Spec => []AcceptsExactlyGenuine
<1>1. IInv => AcceptsExactlyGenuine
  <2>1. SUFFICES ASSUME IInv, Verified
                 PROVE  verdict = "true" <=> \A i \in DOMAIN batch : Genuine(batch[i])
    BY DEF AcceptsExactlyGenuine
  <2>2. /\ batch \in Seq(Inputs) /\ verdict = verify_batch(verifier, proofs(batch))
        /\ AllConverted
    BY <2>1 DEF IInv, Shape, VerdictIsOfBatch
  <2>3. verdict = "true" <=> \A i \in DOMAIN batch : passes(verifier, converted(batch[i]).value)
    BY <2>2, EachPasses
  <2>4. ASSUME NEW i \in DOMAIN batch
        PROVE  passes(verifier, converted(batch[i]).value) <=> Genuine(batch[i])
    <3>1. batch[i] \in Inputs /\ converted(batch[i]).ok
      BY <2>2 DEF AllConverted
    <3>. QED  BY <3>1, PassesExactlyGenuine
  <2>. QED  BY <2>3, <2>4
<1>. QED  BY <1>1, IInvInit, IInvNext, PTL DEF Spec
=============================================================================
