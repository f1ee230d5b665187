--------------------------- MODULE PicklesAlgebra ---------------------------
(***************************************************************************)
(* The cryptography the verifier calls but does not contain: the mina     *)
(* submodule (kimchi, poly-commitment, poseidon, the Pasta curves) and     *)
(* blake2.  Every function is a free constructor: it returns the tuple of  *)
(* its name and its arguments, so two calls agree exactly when they agree  *)
(* on every argument.  That is collision resistance for the hashes and     *)
(* injectivity for the maps between the two Pasta fields; module           *)
(* PastaBridge proves the latter from the arithmetic of the source.        *)
(***************************************************************************)
EXTENDS Integers, Sequences

CONSTANTS StepIpaRounds,    \* STEP_IPA_ROUNDS (16)
          WrapIpaRounds,    \* WRAP_IPA_ROUNDS (15)
          Columns,          \* witness columns, and coefficient columns (15)
          Sigmas            \* permutation columns that are evaluated (6)

ASSUME RoundsAssumption ==
    /\ StepIpaRounds \in Nat \ {0} /\ WrapIpaRounds \in Nat \ {0}
    /\ Columns \in Nat \ {0} /\ Sigmas \in Nat \ {0}

\* endos::<G>() returns (base, scalar) for each of the two curves.
VestaEndo == [base |-> "vesta.base", scalar |-> "vesta.scalar"]
PallasEndo == [base |-> "pallas.base", scalar |-> "pallas.scalar"]

\* ScalarChallenge::to_field
ToField(raw, endo) == <<"to_field", endo, raw>>

\* Coordinates of an affine point.
X(p) == <<"x", p>>
Y(p) == <<"y", p>>

\* A poseidon sponge over one of the two fields: absorb, then squeeze.
Poseidon(field, inputs) == <<"poseidon", field, inputs>>

\* The low 128 bits of blake2s256("chal_i").
RoChallenge(i) == <<"ro_chal", i>>

\* The non-hiding MSM of the coefficients of b(X) with the first n generators.
ComputeSg(chals, g, n) == <<"msm", chals, g, n>>

\* expr_linearization over one of the two fields: the polynomial and the alphas.
ExprLinearization(field) == [linearization |-> <<"lin", field>>,
                             alphas        |-> <<"alphas", field>>]

\* z^(2^k), and z times the generator of the domain of size 2^k.
PowTwoTo(z, k) == <<"pow", z, k>>
TimesGenerator(z, k) == <<"shifted", z, k>>

\* The largest k for which the step field has a radix-2 domain of size 2^k.
TwoAdicity == 32

(***************************************************************************)
(* kimchi's oracles_from_digest: the Fiat-Shamir transcript t of the step  *)
(* proof determines the two batching scalars, the pre-image of the first,  *)
(* and the evaluation of ft.                                               *)
(***************************************************************************)
OracleV(t) == <<"v", t>>
OracleVChal(t) == <<"v_chal", t>>
OracleU(t) == <<"u", t>>
FtEval0(t) == <<"ft_eval0", t>>

\* The evaluations of the previous challenge polynomials, one entry for each of them.
OraclePolys(prev_challenges, t) ==
    [i \in DOMAIN prev_challenges |-> <<"b_evals", prev_challenges[i], t.zeta, t.domain>>]

CombinedInnerProduct(xi, r, es) == <<"cip", xi, r, es>>
\* ProofEvaluations::combine: the chunks of every evaluation with the powers of the points.
Combine(evals, zeta, max_poly_size) == <<"combined", evals, zeta, max_poly_size>>
PermScalars(evals, beta, gamma, alphas, zkp) ==
    <<"perm", evals, beta, gamma, alphas, zkp>>
BPoly(chals, x) == <<"b_poly", chals, x>>
LinComb(a, r, b) == <<"a_plus_rb", a, r, b>>

(***************************************************************************)
(* kimchi's check of one wrap proof.  A sound and complete argument        *)
(* accepts the index the proof was made for, with the public input it was  *)
(* made for, and nothing else.  An empty batch is accepted.                *)
(***************************************************************************)
KimchiAccepts(index, wrap_proof, pi) ==
    wrap_proof.index = index /\ wrap_proof.public = pi
=============================================================================
