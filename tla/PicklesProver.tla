--------------------------- MODULE PicklesProver ---------------------------
(***************************************************************************)
(* The other side of the wire: the OCaml prover and the tools that dump    *)
(* its proofs.  Neither is in the repository; this is what the verifier    *)
(* has to agree with.  An instance is one genuine wrap proof:              *)
(*   id     names its transcript,                                          *)
(*   vk     is the serialized verification key of its program,             *)
(*   stmt   is its application statement,                                  *)
(*   log2   is the size of the step domain of the branch that was taken,   *)
(*   prevs  are the previous proofs the branch verified (0, 1 or 2), each  *)
(*          with its commitment sg and its step and wrap challenges.       *)
(*                                                                         *)
(* The statement is given slot by slot, as the wrap circuit reads it, and  *)
(* is not derived from the verifier's definitions in module Pickles: the   *)
(* comparison of the two is what the runs check.                           *)
(***************************************************************************)
EXTENDS PicklesAlgebra

Vec(tag, id, n) == [i \in 1..n |-> <<tag, id, i>>]

Effective(chals, endo) == [i \in 1..Len(chals) |-> ToField(chals[i], endo)]

\* A previous proof with challenges of its own.
Previous(id) == [sg |-> <<"prev_sg", id>>, step |-> Vec("prev_step", id, StepIpaRounds),
                 wrap |-> Vec("prev_wrap", id, WrapIpaRounds)]

\* The raw dummies of the OCaml `Dummy` module, last drawn first.
DummyWrap == [i \in 1..WrapIpaRounds |-> RoChallenge(WrapIpaRounds + 1 - i)]

\* The previous proof of a base case: its wrap challenges are the dummies.
BaseCase(id) == [Previous(id) EXCEPT !.wrap = DummyWrap]

\* get_srs: the generators both sides share.
PallasSrs == [g |-> "pallas", h |-> "pallas_h", basis |-> "lagrange"]
VestaSrs == [points |-> "vesta", len |-> 2 ^ StepIpaRounds]

\* The verifier index the wrap prover holds.
CompleteIndex(vk) ==
    [file |-> vk, srs |-> PallasSrs, linearization |-> <<"lin", "Fq">>,
     powers_of_alpha |-> <<"alphas", "Fq">>, endo |-> VestaEndo.base]

\* The evaluations of the step proof: one chunk at each of the two points.
Eval(name, id) == << <<<<name, "zeta", id>>>>, <<<<name, "omega", id>>>> >>
Evals(name, id, n) == [i \in 1..n |-> Eval(<<name, i>>, id)]
DumpedEvals(inst) ==
    [ft_eval1 |-> <<"ft", "omega", inst.id>>,
     public_input |-> <<<<"pub", "zeta", inst.id>>, <<"pub", "omega", inst.id>>>>,
     z |-> Eval("z", inst.id), w |-> Evals("w", inst.id, Columns),
     coefficients |-> Evals("coefficients", inst.id, Columns),
     s |-> Evals("s", inst.id, Sigmas),
     selectors |-> [generic_selector |-> Eval("generic_selector", inst.id),
                    poseidon_selector |-> Eval("poseidon_selector", inst.id),
                    complete_add_selector |-> Eval("complete_add_selector", inst.id),
                    mul_selector |-> Eval("mul_selector", inst.id),
                    emul_selector |-> Eval("emul_selector", inst.id),
                    endomul_scalar_selector |-> Eval("endomul_scalar_selector", inst.id)]]

\* The public_input_skeleton.json of an instance.
Skeleton(inst) ==
    LET bp == Vec("bp", inst.id, StepIpaRounds) IN
    [plonk |-> [alpha |-> <<"alpha", inst.id>>, beta |-> <<"beta", inst.id>>,
                gamma |-> <<"gamma", inst.id>>, zeta |-> <<"zeta", inst.id>>],
     bulletproof_challenges |-> bp,
     domain_log2 |-> inst.log2,
     proofs_verified |-> <<"N0", "N1", "N2">>[Len(inst.prevs) + 1],
     sponge_digest |-> <<"digest", inst.id>>,
     cpc |-> ComputeSg(Effective(bp, VestaEndo.scalar), "vesta", 2 ^ StepIpaRounds),
     prev_evals |-> DumpedEvals(inst),
     prev_step_sgs |-> [i \in 1..Len(inst.prevs) |-> inst.prevs[i].sg],
     prev_step_chals |-> [i \in 1..Len(inst.prevs) |-> inst.prevs[i].step],
     prev_wrap_chals |-> [i \in 1..Len(inst.prevs) |-> inst.prevs[i].wrap]]

-----------------------------------------------------------------------------
\* What the wrap circuit has as its public input.

StepChallenges(inst) ==
    [i \in 1..Len(inst.prevs) |-> Effective(inst.prevs[i].step, VestaEndo.scalar)]

\* `Common.hash_messages_for_next_step_proof`, element by element.
StepMessage(inst) ==
    LET comms == inst.vk.sigma_comm \o inst.vk.coefficients_comm \o inst.vk.index_comms
        w == StepIpaRounds + 2
        vk_part == [n \in 1..(2 * Len(comms)) |->
                      LET p == comms[(n + 1) \div 2][1] IN IF n % 2 = 1 THEN X(p) ELSE Y(p)]
        prev_part == [n \in 1..(w * Len(inst.prevs)) |->
                        LET prev == inst.prevs[((n - 1) \div w) + 1]
                            k == ((n - 1) % w) + 1
                        IN  CASE k = 1 -> X(prev.sg)
                              [] k = 2 -> Y(prev.sg)
                              [] OTHER -> ToField(prev.step[k - 2], VestaEndo.scalar)]
    IN  Poseidon("Fp", vk_part \o <<inst.stmt>> \o prev_part)

\* `Wrap_hack.hash_messages_for_next_wrap_proof`: two slots, dummies first.
WrapMessage(inst) ==
    LET slot(i) == IF i <= 2 - Len(inst.prevs) THEN DummyWrap
                   ELSE inst.prevs[i - (2 - Len(inst.prevs))].wrap
        cpc == Skeleton(inst).cpc
    IN  Poseidon("Fq", [n \in 1..(2 * WrapIpaRounds) |->
                          ToField(slot(((n - 1) \div WrapIpaRounds) + 1)
                                      [((n - 1) % WrapIpaRounds) + 1], PallasEndo.scalar)]
                       \o <<X(cpc), Y(cpc)>>)

\* kimchi's own record of the evaluations.
At(e) == [zeta |-> e[1], zeta_omega |-> e[2]]
AtAll(es) == [i \in 1..Len(es) |-> At(es[i])]
StepEvaluations(inst) ==
    LET e == DumpedEvals(inst) IN
    [public |-> At(Eval("pub", inst.id)), w |-> AtAll(e.w), z |-> At(e.z), s |-> AtAll(e.s),
     coefficients |-> AtAll(e.coefficients),
     generic_selector |-> At(e.selectors.generic_selector),
     poseidon_selector |-> At(e.selectors.poseidon_selector),
     complete_add_selector |-> At(e.selectors.complete_add_selector),
     mul_selector |-> At(e.selectors.mul_selector),
     emul_selector |-> At(e.selectors.emul_selector),
     endomul_scalar_selector |-> At(e.selectors.endomul_scalar_selector)]

\* The table of kimchi's batched opening: previous challenge polynomials, public input, ft, z,
\* selectors, witness, coefficients, sigmas.
OpeningTable(inst, t) ==
    OraclePolys(t.prev_challenges, t)
    \o <<Eval("pub", inst.id), << <<FtEval0(t)>>, <<t.ft_eval1>> >>, Eval("z", inst.id),
         Eval("generic_selector", inst.id), Eval("poseidon_selector", inst.id),
         Eval("complete_add_selector", inst.id), Eval("mul_selector", inst.id),
         Eval("emul_selector", inst.id), Eval("endomul_scalar_selector", inst.id)>>
    \o [i \in 1..(2 * Columns + Sigmas) |->
          CASE i <= Columns -> Eval(<<"w", i>>, inst.id)
            [] i \in (Columns + 1)..(2 * Columns) -> Eval(<<"coefficients", i - Columns>>, inst.id)
            [] OTHER -> Eval(<<"s", i - 2 * Columns>>, inst.id)]

\* The transcript of the step proof under the branch's own domain.
Transcript(inst) ==
    [domain |-> inst.log2, max_poly_size |-> StepIpaRounds, zk_rows |-> 3,
     gate_endo |-> PallasEndo.base, linearization |-> <<"lin", "Fp">>,
     powers_of_alpha |-> <<"alphas", "Fp">>, digest |-> <<"digest", inst.id>>,
     alpha |-> ToField(<<"alpha", inst.id>>, VestaEndo.scalar),
     beta |-> <<"beta", inst.id>>, gamma |-> <<"gamma", inst.id>>,
     zeta |-> ToField(<<"zeta", inst.id>>, VestaEndo.scalar),
     prev_challenges |-> StepChallenges(inst), evals |-> StepEvaluations(inst),
     ft_eval1 |-> <<"ft", "omega", inst.id>>]

\* The slots of the statement in the order of `StatementPacked`.
Statement(inst) ==
    LET t == Transcript(inst)
        bp == Effective(Skeleton(inst).bulletproof_challenges, VestaEndo.scalar)
        Shifted(x) == <<"type1", x>>
        Cast(x) == <<"fq", x>>
        Small(n) == <<"fq_nat", n>>
        cip == CombinedInnerProduct(OracleV(t), OracleU(t), OpeningTable(inst, t))
        b == LinComb(BPoly(bp, t.zeta), OracleU(t), BPoly(bp, TimesGenerator(t.zeta, inst.log2)))
        perm == PermScalars(Combine(t.evals, t.zeta, t.max_poly_size), t.beta, t.gamma,
                    <<t.powers_of_alpha, t.alpha>>, <<t.zeta, inst.log2, 3>>)
        slot == <<Shifted(cip), Shifted(b), Shifted(PowTwoTo(t.zeta, StepIpaRounds)),
                  Shifted(PowTwoTo(t.zeta, inst.log2)), Shifted(perm),
                  Cast(t.beta), Cast(t.gamma), Cast(<<"alpha", inst.id>>),
                  Cast(<<"zeta", inst.id>>), Cast(OracleVChal(t)), Cast(t.digest),
                  WrapMessage(inst), Cast(StepMessage(inst))>>
        mask == <<0, 2, 3>>[Len(inst.prevs) + 1]
    IN  [i \in 1..(StepIpaRounds + 24) |->
           CASE i <= 13 -> slot[i]
             [] i \in 14..(StepIpaRounds + 13) -> Cast(<<"bp", inst.id, i - 13>>)
             [] i = StepIpaRounds + 14 -> Small(4 * inst.log2 + mask)
             [] OTHER -> Small(0)]

\* The proof.serde.json of an instance.
WrapProof(inst) == [index |-> CompleteIndex(inst.vk), public |-> Statement(inst)]

\* The four files of an instance, as the dump tools write them.
Fixture(inst) == [vk |-> inst.vk, proof |-> WrapProof(inst),
                  skeleton |-> Skeleton(inst), stmt |-> inst.stmt]

-----------------------------------------------------------------------------
\* What serde makes of any files, genuine or not: a field that is missing or of another kind
\* is an error before anything that is modelled here.

\* A JSON array.
IsArray(v) == v \in Seq({v[i] : i \in DOMAIN v})
IsArrays(v) == IsArray(v) /\ \A i \in DOMAIN v : IsArray(v[i])

\* A verification key: arrays of commitments, of kimchi's fixed lengths, each of any number
\* of chunks.
IsKey(vk) ==
    /\ IsArrays(vk.sigma_comm) /\ Len(vk.sigma_comm) = Sigmas + 1
    /\ IsArrays(vk.coefficients_comm) /\ Len(vk.coefficients_comm) = Columns
    /\ IsArrays(vk.index_comms) /\ Len(vk.index_comms) = 6

IsSelectors(e) ==
    /\ e = [generic_selector |-> e.generic_selector, poseidon_selector |-> e.poseidon_selector,
            complete_add_selector |-> e.complete_add_selector, mul_selector |-> e.mul_selector,
            emul_selector |-> e.emul_selector,
            endomul_scalar_selector |-> e.endomul_scalar_selector]
    /\ IsArray(e.generic_selector) /\ IsArray(e.poseidon_selector)
    /\ IsArray(e.complete_add_selector) /\ IsArray(e.mul_selector)
    /\ IsArray(e.emul_selector) /\ IsArray(e.endomul_scalar_selector)

IsEvals(e) ==
    /\ e = [ft_eval1 |-> e.ft_eval1, public_input |-> e.public_input, z |-> e.z, w |-> e.w,
            coefficients |-> e.coefficients, s |-> e.s, selectors |-> e.selectors]
    /\ IsArray(e.public_input) /\ IsArray(e.z)
    /\ IsArrays(e.w) /\ IsArrays(e.coefficients) /\ IsArrays(e.s)
    /\ IsSelectors(e.selectors)

IsSkeleton(s) ==
    /\ s = [plonk |-> s.plonk, bulletproof_challenges |-> s.bulletproof_challenges,
            domain_log2 |-> s.domain_log2, proofs_verified |-> s.proofs_verified,
            sponge_digest |-> s.sponge_digest, cpc |-> s.cpc, prev_evals |-> s.prev_evals,
            prev_step_sgs |-> s.prev_step_sgs, prev_step_chals |-> s.prev_step_chals,
            prev_wrap_chals |-> s.prev_wrap_chals]
    /\ s.plonk = [alpha |-> s.plonk.alpha, beta |-> s.plonk.beta,
                  gamma |-> s.plonk.gamma, zeta |-> s.plonk.zeta]
    /\ IsArray(s.bulletproof_challenges) /\ s.domain_log2 \in Nat
    /\ IsEvals(s.prev_evals)
    /\ IsArray(s.prev_step_sgs) /\ IsArrays(s.prev_step_chals) /\ IsArrays(s.prev_wrap_chals)

\* What an instance is, as the head of this module says it.
IsInstance(inst) ==
    /\ IsKey(inst.vk)
    /\ \A i \in 1..(Sigmas + 1) : inst.vk.sigma_comm[i] # <<>>
    /\ \A i \in 1..Columns : inst.vk.coefficients_comm[i] # <<>>
    /\ \A i \in 1..6 : inst.vk.index_comms[i] # <<>>
    /\ inst.log2 \in 0..TwoAdicity
    /\ IsArray(inst.prevs) /\ Len(inst.prevs) <= 2
    /\ \A i \in 1..Len(inst.prevs) :
          /\ IsArray(inst.prevs[i].step) /\ Len(inst.prevs[i].step) = StepIpaRounds
          /\ IsArray(inst.prevs[i].wrap) /\ Len(inst.prevs[i].wrap) = WrapIpaRounds
=============================================================================
