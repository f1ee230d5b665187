------------------------------ MODULE Pickles ------------------------------
(***************************************************************************)
(* crates/pickles-verifier: from the wire files to the verdict.            *)
(*                                                                         *)
(* Operators keep the names of the functions they translate, and records   *)
(* the names of the fields, shortened where they are long: cpc is          *)
(* challenge_polynomial_commitment, sponge_digest is                       *)
(* sponge_digest_before_evaluations, step_digest and wrap_digest are the   *)
(* digests messages_for_next_{step,wrap}_proof.  A Result::Err is a record *)
(* with ok = FALSE; a verdict is "true", "false" or "panic".               *)
(*                                                                         *)
(* An operator named Bug_... is a plausible mistake in the definition that *)
(* follows it; no specification uses it.                                   *)
(***************************************************************************)
EXTENDS PicklesAlgebra, SequencesExt

\* `Wrap_hack.Padded_length.n`
PADDED_LENGTH == 2

Bug_feature_flags_only == 8

\* 8 feature-flag slots, the lookup flag and the lookup challenge.
FeatureSlots == 10

\* The width of usize on the guest and on the host.
UsizeBits == 64

Ok(v) == [ok |-> TRUE, value |-> v]
Err == [ok |-> FALSE]

-----------------------------------------------------------------------------
\* wire.rs: the parts of OcamlProof::parse that do more than copy a value.

\* The first character of the string, `as u8`.
ocaml_byte(char) == char % 256

Tags == {"N0", "N1", "N2"}

proofs_verified_mask(tag) ==
    CASE tag = "N0" -> <<FALSE, FALSE>>
      [] tag = "N1" -> <<FALSE, TRUE>>
      [] tag = "N2" -> <<TRUE, TRUE>>

\* [[zeta_chunks...], [omega_chunks...]], as many of the one as of the other.
is_chunked(v) == Len(v) = 2 /\ Len(v[1]) = Len(v[2])
point_eval_chunked(v) == [zeta |-> v[1], zeta_omega |-> v[2]]

\* [zeta, omega]: one chunk each.
point_eval_flat(v) == [zeta |-> <<v[1]>>, zeta_omega |-> <<v[2]>>]

\* n columns.
is_fixed(v, n) == Len(v) = n /\ \A i \in DOMAIN v : is_chunked(v[i])
fixed_chunked(v) == [i \in DOMAIN v |-> point_eval_chunked(v[i])]

\* The selectors in the order of ChunkedAllEvals.index.
IndexOrder == <<"generic_selector", "poseidon_selector", "complete_add_selector",
                "mul_selector", "emul_selector", "endomul_scalar_selector">>

\* The JSON has the shape parse_all_evals insists on.  That all columns have the same number
\* of chunks is not asked, nor that there is one at all.
has_all_evals(json) ==
    /\ Len(json.public_input) = 2
    /\ is_chunked(json.z)
    /\ is_fixed(json.w, Columns) /\ is_fixed(json.coefficients, Columns)
    /\ is_fixed(json.s, Sigmas)
    /\ \A i \in DOMAIN IndexOrder : is_chunked(json.selectors[IndexOrder[i]])

parse_all_evals(json) ==
    [ft_eval1 |-> json.ft_eval1,
     public_evals |-> point_eval_flat(json.public_input),
     z |-> point_eval_chunked(json.z),
     w |-> fixed_chunked(json.w),
     coefficients |-> fixed_chunked(json.coefficients),
     s |-> fixed_chunked(json.s),
     index |-> [i \in DOMAIN IndexOrder |-> point_eval_chunked(json.selectors[IndexOrder[i]])]]

\* A vector of n challenges, no more and no fewer.
bulletproof_vec(v, n) == Len(v) = n

(***************************************************************************)
(* A bulletproof vector of the wrong length is an error, a prev-proof      *)
(* array of any length is not.                                             *)
(***************************************************************************)
OcamlProof_parse(json) ==
    IF \/ json.proofs_verified \notin Tags
       \/ ~has_all_evals(json.prev_evals)
       \/ ~bulletproof_vec(json.bulletproof_challenges, StepIpaRounds)
       \/ \E i \in DOMAIN json.prev_step_chals : ~bulletproof_vec(json.prev_step_chals[i], StepIpaRounds)
       \/ \E i \in DOMAIN json.prev_wrap_chals : ~bulletproof_vec(json.prev_wrap_chals[i], WrapIpaRounds)
    THEN Err
    ELSE Ok([raw_plonk |-> json.plonk,
             raw_bulletproof_challenges |-> json.bulletproof_challenges,
             branch_data |-> [domain_log2 |-> ocaml_byte(json.domain_log2),
                              mask |-> proofs_verified_mask(json.proofs_verified)],
             sponge_digest |-> json.sponge_digest,
             cpc |-> json.cpc,
             step_domain_log2 |-> ocaml_byte(json.domain_log2),
             prev_evals |-> parse_all_evals(json.prev_evals),
             prev_step_sgs |-> json.prev_step_sgs,
             prev_step_chals_raw |-> json.prev_step_chals,
             prev_wrap_chals_raw |-> json.prev_wrap_chals])

-----------------------------------------------------------------------------
\* types.rs: Verifier::new fills the fields of the wrap VK that serde skips.

\* kimchi's zk_rows for nc chunks.
step_zk_rows(nc) == (16 * nc + 5) \div 7

Bug_endo_left_default == "zero"

\* The Vesta base endo, not the deserialized default.
wrap_vk_endo == VestaEndo.base

Verifier_new(vk, wrap_srs, vesta_srs, nc) ==
    [wrap_vk |-> [file |-> vk, srs |-> wrap_srs,
                  linearization |-> ExprLinearization("Fq").linearization,
                  powers_of_alpha |-> ExprLinearization("Fq").alphas,
                  endo |-> wrap_vk_endo],
     vesta_srs |-> vesta_srs,
     step_zk_rows |-> step_zk_rows(nc),
     step_srs_length_log2 |-> StepIpaRounds,
     step_endo |-> VestaEndo.scalar,
     linearization |-> ExprLinearization("Fp").linearization,
     powers_of_alpha |-> ExprLinearization("Fp").alphas]

-----------------------------------------------------------------------------
\* convert.rs: OcamlProof::into_verifiable.

expand(chals, endo) == [i \in DOMAIN chals |-> ToField(chals[i], endo)]

expand_all(vectors, endo) == [i \in DOMAIN vectors |-> expand(vectors[i], endo)]

\* Every commitment of the wrap VK, a sequence of chunks, in absorption order.
vk_commitments(vk) == vk.sigma_comm \o vk.coefficients_comm \o vk.index_comms

vk_has_chunks(vk) == \A i \in DOMAIN vk_commitments(vk) : vk_commitments(vk)[i] # <<>>

\* Blocks of one width, one after the other.
concat(blocks, width) ==
    [k \in 1..(width * Len(blocks)) |->
        blocks[((k - 1) \div width) + 1][((k - 1) % width) + 1]]

wrap_vk_step_fields(vk) ==
    concat([i \in DOMAIN vk_commitments(vk) |->
              <<X(vk_commitments(vk)[i][1]), Y(vk_commitments(vk)[i][1])>>], 2)

\* The Ro monad draws chal_1, chal_2, ... and stores them reversed.
dummy_ipa_wrap_expanded ==
    Reverse([i \in 1..WrapIpaRounds |-> ToField(RoChallenge(i), PallasEndo.scalar)])

hash_messages_for_next_step(vk_fields, app_state, proofs) ==
    Poseidon("Fp", vk_fields \o app_state
                   \o concat([i \in DOMAIN proofs |->
                        <<X(proofs[i][1]), Y(proofs[i][1])>> \o proofs[i][2]],
                        StepIpaRounds + 2))

hash_messages_for_next_wrap(cpc, padded) ==
    Poseidon("Fq", concat(padded, WrapIpaRounds) \o <<X(cpc), Y(cpc)>>)

dummies(n) == [i \in 1..n |-> dummy_ipa_wrap_expanded]

Bug_pad_behind(chals) == chals \o dummies(PADDED_LENGTH - Len(chals))

\* `Wrap_hack.pad_challenges`: dummies in front.
pad_challenges(chals) == dummies(PADDED_LENGTH - Len(chals)) \o chals

into_verifiable(ocaml, wrap_proof, wrap_vk, app_state) ==
    LET old == expand_all(ocaml.prev_step_chals_raw, VestaEndo.scalar)
        prev_wrap == expand_all(ocaml.prev_wrap_chals_raw, PallasEndo.scalar)
    IN  IF ~vk_has_chunks(wrap_vk) \/ Len(prev_wrap) > PADDED_LENGTH
        THEN Err
        ELSE Ok([wrap_proof |-> wrap_proof,
                 raw_plonk |-> ocaml.raw_plonk,
                 raw_bulletproof_challenges |-> ocaml.raw_bulletproof_challenges,
                 branch_data |-> ocaml.branch_data,
                 sponge_digest |-> ocaml.sponge_digest,
                 prev_evals |-> ocaml.prev_evals,
                 old_bulletproof_challenges |-> old,
                 cpc |-> ocaml.cpc,
                 step_digest |-> hash_messages_for_next_step(
                                   wrap_vk_step_fields(wrap_vk), app_state,
                                   Zip(ocaml.prev_step_sgs, old)),
                 wrap_digest |-> hash_messages_for_next_wrap(
                                   ocaml.cpc, pad_challenges(prev_wrap)),
                 step_domain_log2 |-> ocaml.step_domain_log2])

-----------------------------------------------------------------------------
\* deferred.rs: the deferred values and the public input of the wrap proof.

\* `1usize << domain_log2` in a release build keeps the low bits of the shift.
domain_shift(proof) == proof.step_domain_log2 % UsizeBits

\* Radix2EvaluationDomain::new returned Some.
step_domain_exists(proof) == domain_shift(proof) <= TwoAdicity

Bug_mul_emul_swapped(e) ==
    [public |-> e.public_evals, w |-> e.w, z |-> e.z, s |-> e.s, coefficients |-> e.coefficients,
     generic_selector |-> e.index[1], poseidon_selector |-> e.index[2],
     complete_add_selector |-> e.index[3], mul_selector |-> e.index[5],
     emul_selector |-> e.index[4], endomul_scalar_selector |-> e.index[6]]

\* kimchi's ProofEvaluations; the optional ones are all absent.
to_proof_evaluations(e) ==
    [public |-> e.public_evals, w |-> e.w, z |-> e.z, s |-> e.s, coefficients |-> e.coefficients,
     generic_selector |-> e.index[1], poseidon_selector |-> e.index[2],
     complete_add_selector |-> e.index[3], mul_selector |-> e.index[4],
     emul_selector |-> e.index[5], endomul_scalar_selector |-> e.index[6]]

pe(p) == <<p.zeta, p.zeta_omega>>
pes(columns) == [i \in DOMAIN columns |-> pe(columns[i])]

\* The evaluation table of the combined inner product.
evaluation_table(polys, e, ft_eval0, ft_eval1) ==
    polys \o <<pe(e.public), << <<ft_eval0>>, <<ft_eval1>> >>, pe(e.z),
               pe(e.generic_selector), pe(e.poseidon_selector), pe(e.complete_add_selector),
               pe(e.mul_selector), pe(e.emul_selector), pe(e.endomul_scalar_selector)>>
          \o pes(e.w) \o pes(e.coefficients) \o pes(e.s)

\* The fields of ExpandedDeferredValues that wrap_public_input reads.
expand_deferred(verifier, proof) ==
    LET endo  == verifier.step_endo
        k     == domain_shift(proof)
        plonk == proof.raw_plonk
        alpha == ToField(plonk.alpha, endo)
        zeta  == ToField(plonk.zeta, endo)
        old   == proof.old_bulletproof_challenges
        evals == to_proof_evaluations(proof.prev_evals)
        t     == [domain |-> k,
                  max_poly_size |-> verifier.step_srs_length_log2,
                  zk_rows |-> verifier.step_zk_rows,
                  gate_endo |-> PallasEndo.base,
                  linearization |-> verifier.linearization,
                  powers_of_alpha |-> verifier.powers_of_alpha,
                  digest |-> proof.sponge_digest,
                  alpha |-> alpha, beta |-> plonk.beta,
                  gamma |-> plonk.gamma, zeta |-> zeta,
                  prev_challenges |-> old, evals |-> evals,
                  ft_eval1 |-> proof.prev_evals.ft_eval1]
        r     == OracleU(t)
        chals == expand(proof.raw_bulletproof_challenges, endo)
    IN  [alpha |-> plonk.alpha, beta |-> plonk.beta,
         gamma |-> plonk.gamma, zeta |-> plonk.zeta,
         perm |-> PermScalars(Combine(evals, zeta, verifier.step_srs_length_log2), plonk.beta,
                              plonk.gamma, <<verifier.powers_of_alpha, alpha>>,
                              <<zeta, k, verifier.step_zk_rows>>),
         zeta_to_domain_size |-> PowTwoTo(zeta, k),
         zeta_to_srs_length |-> PowTwoTo(zeta, verifier.step_srs_length_log2),
         combined_inner_product |->
            CombinedInnerProduct(OracleV(t), r,
                evaluation_table(OraclePolys(old, t), evals, FtEval0(t),
                                 proof.prev_evals.ft_eval1)),
         xi |-> OracleVChal(t),
         bulletproof_prechallenges |-> proof.raw_bulletproof_challenges,
         b |-> LinComb(BPoly(chals, zeta), r, BPoly(chals, TimesGenerator(zeta, k))),
         branch_data |-> proof.branch_data,
         sponge_digest |-> proof.sponge_digest]

\* The maps between the two fields; module PastaBridge has their arithmetic.
fp_to_fq(x) == <<"fq", x>>
cross_field_type1(raw) == <<"type1", raw>>
fq_from(n) == <<"fq_nat", n>>
bit(b) == IF b THEN 1 ELSE 0

Bug_pack_without_mask(bd) == fq_from(4 * bd.domain_log2)

\* `Branch_data.pack`
pack_branch_data(bd) ==
    fq_from(4 * bd.domain_log2 + bit(bd.mask[1]) + 2 * bit(bd.mask[2]))

wrap_public_input(dv, step_digest, wrap_digest) ==
    <<cross_field_type1(dv.combined_inner_product), cross_field_type1(dv.b),
      cross_field_type1(dv.zeta_to_srs_length),
      cross_field_type1(dv.zeta_to_domain_size), cross_field_type1(dv.perm),
      fp_to_fq(dv.beta), fp_to_fq(dv.gamma),
      fp_to_fq(dv.alpha), fp_to_fq(dv.zeta), fp_to_fq(dv.xi),
      fp_to_fq(dv.sponge_digest), wrap_digest, fp_to_fq(step_digest)>>
    \o [i \in DOMAIN dv.bulletproof_prechallenges |->
          fp_to_fq(dv.bulletproof_prechallenges[i])]
    \o <<pack_branch_data(dv.branch_data)>>
    \o [i \in 1..FeatureSlots |-> fq_from(0)]

-----------------------------------------------------------------------------
\* lib.rs: the verdict.

accumulator_check(verifier, proof) ==
    LET chals == expand(proof.raw_bulletproof_challenges, verifier.step_endo)
        coeffs_len == 2 ^ Len(chals)
        g == verifier.vesta_srs
        n == IF coeffs_len <= g.len THEN coeffs_len ELSE g.len
    IN  ComputeSg(chals, g.points, n) = proof.cpc

public_input_of(verifier, proof) ==
    wrap_public_input(expand_deferred(verifier, proof),
                      proof.step_digest, proof.wrap_digest)

kimchi_accepts(verifier, proof) ==
    KimchiAccepts(verifier.wrap_vk, proof.wrap_proof, public_input_of(verifier, proof))

\* Each proof taken through all three stages before the next one.
Bug_verify_one_by_one(verifier, proofs) ==
    LET bad == {i \in DOMAIN proofs : \/ ~accumulator_check(verifier, proofs[i])
                                      \/ ~step_domain_exists(proofs[i])
                                      \/ ~kimchi_accepts(verifier, proofs[i])}
        first == CHOOSE i \in bad : \A j \in bad : i <= j
    IN  IF bad = {} THEN "true"
        ELSE IF /\ accumulator_check(verifier, proofs[first])
                /\ ~step_domain_exists(proofs[first])
             THEN "panic" ELSE "false"

\* All accumulators first, then every public input, then one kimchi batch.
verify_batch(verifier, proofs) ==
    IF \E i \in DOMAIN proofs : ~accumulator_check(verifier, proofs[i]) THEN "false"
    ELSE IF \E i \in DOMAIN proofs : ~step_domain_exists(proofs[i]) THEN "panic"
    ELSE IF \A i \in DOMAIN proofs : kimchi_accepts(verifier, proofs[i])
         THEN "true" ELSE "false"

verify(verifier, proof) == verify_batch(verifier, <<proof>>)
=============================================================================
