---------------------------- MODULE PicklesBatch ----------------------------
(***************************************************************************)
(* A caller of the library: it parses and converts inputs one at a time,   *)
(* collects the converted proofs of one tag, and has them verified, one by *)
(* one or as a batch.  An input is the name of any four files, genuine or  *)
(* not; Files gives their contents.                                        *)
(***************************************************************************)
EXTENDS Pickles, PicklesProver

CONSTANTS Tag,          \* the serialized verification key the verifier is built from
          Instances,    \* the genuine proofs there are
          Inputs,       \* the names of the inputs the caller may be handed
          Files(_),     \* the four files of an input
          MaxBatch      \* bound on the length of a batch

ASSUME BatchAssumption == MaxBatch \in Nat

\* The files are what serde has typed, and no wrap proof is forged: each is of an instance.
ASSUME FilesAssumption ==
    /\ \A inst \in Instances : IsInstance(inst)
    /\ \A in \in Inputs :
          /\ IsKey(Files(in).vk) /\ IsSkeleton(Files(in).skeleton)
          /\ \E inst \in Instances : Files(in).proof = WrapProof(inst)

VARIABLES batch,        \* the inputs whose conversion succeeded, in order
          verdict       \* "open" until the batch is verified; "error" when an input is refused

vars == <<batch, verdict>>

\* The caller's verifier: the step circuits have one chunk.
verifier == Verifier_new(Tag, PallasSrs, VestaSrs, 1)

\* Four wire files, parsed and converted.
parse_and_convert(f) ==
    LET ocaml == OcamlProof_parse(f.skeleton)
    IN  IF ocaml.ok THEN into_verifiable(ocaml.value, f.proof, f.vk, <<f.stmt>>) ELSE Err

converted(in) == parse_and_convert(Files(in))

proofs(s) == [i \in DOMAIN s |-> converted(s[i]).value]

Init == batch = <<>> /\ verdict = "open"

Convert(in) ==
    /\ verdict = "open"
    /\ Len(batch) < MaxBatch
    /\ converted(in).ok
    /\ batch' = Append(batch, in)
    /\ UNCHANGED verdict

Refuse(in) ==
    /\ verdict = "open"
    /\ Len(batch) < MaxBatch
    /\ ~converted(in).ok
    /\ verdict' = "error"
    /\ UNCHANGED batch

Verify ==
    /\ verdict = "open"
    /\ verdict' = verify_batch(verifier, proofs(batch))
    /\ UNCHANGED batch

Next == (\E in \in Inputs : Convert(in) \/ Refuse(in)) \/ Verify

Spec == Init /\ [][Next]_vars

-----------------------------------------------------------------------------
\* Types; every public input has the length the wrap index declares (40 with 16 rounds),
\* however many previous proofs there are (wrap_public_input).
TypeOK == /\ batch \in Seq(Inputs) /\ Len(batch) <= MaxBatch
          /\ verdict \in {"open", "error", "true", "false", "panic"}
          /\ \A i \in DOMAIN batch :
                Len(public_input_of(verifier, converted(batch[i]).value)) = StepIpaRounds + 24

(***************************************************************************)
(* What the verifier reads of four files.  Of the key file it sees the     *)
(* first chunk of each commitment.  It does not see the high bits of the   *)
(* domain character, nor the commitments beyond the challenges that the    *)
(* zip in into_verifiable cuts off, and it cannot tell a leading dummy     *)
(* vector of wrap challenges from a missing one.                           *)
(***************************************************************************)
Read(f) ==
    LET s == f.skeleton
        n == Len(s.prev_wrap_chals)
    IN  [proof |-> f.proof, stmt |-> f.stmt,
         comms |-> [i \in DOMAIN vk_commitments(f.vk) |-> vk_commitments(f.vk)[i][1]],
         plonk |-> s.plonk, bulletproof_challenges |-> s.bulletproof_challenges,
         domain_log2 |-> s.domain_log2 % 256, proofs_verified |-> s.proofs_verified,
         sponge_digest |-> s.sponge_digest, cpc |-> s.cpc, prev_evals |-> s.prev_evals,
         prev_step_sgs |-> [i \in DOMAIN Zip(s.prev_step_sgs, s.prev_step_chals) |->
                              s.prev_step_sgs[i]],
         prev_step_chals |-> s.prev_step_chals,
         prev_wrap_chals |-> [i \in 1..2 |-> IF i <= 2 - n THEN DummyWrap
                                              ELSE s.prev_wrap_chals[i - (2 - n)]]]

Genuine(in) ==
    \E inst \in Instances : inst.vk = Tag /\ Read(Files(in)) = Read(Fixture(inst))

Verified == verdict \in {"true", "false", "panic"}

\* A batch is accepted exactly when every proof in it is a genuine proof of the tag
\* and comes with its own statement, key commitments and skeleton: the public input
\* rebuilt from the wire pins all of them, for every number of previous proofs
\* (verify_batch, expand_deferred, wrap_public_input, into_verifiable).
AcceptsExactlyGenuine ==
    Verified =>
        (verdict = "true" <=> \A i \in DOMAIN batch : Genuine(batch[i]))

\* The rearrangements of a sequence.
Orders(s) == {[i \in DOMAIN s |-> s[p[i]]] : p \in Bijection(DOMAIN s, DOMAIN s)}

\* Batching changes no verdict: the batch passes exactly when each proof alone does, and
\* the verdict, including a panic, is the same for every order of the proofs
\* (verify_batch runs all accumulator checks before the first deferred value).
BatchAgreesWithSingles ==
    Verified =>
        /\ verdict = "true" <=>
             \A i \in DOMAIN batch : verify(verifier, converted(batch[i]).value) = "true"
        /\ \A ps \in Orders(proofs(batch)) : verdict = verify_batch(verifier, ps)

\* wire.rs on OcamlProof: "The prev-proof arrays are length `mpv` (0/1/2)."  Here of the
\* proofs that were accepted, for whichever number mpv may stand.
PrevArraysHaveLengthMpv ==
    verdict = "true" =>
        \A i \in DOMAIN batch :
            LET s == Files(batch[i]).skeleton
            IN  \E mpv \in 0..2 : /\ Len(s.prev_step_sgs) = mpv
                                  /\ Len(s.prev_step_chals) = mpv
                                  /\ Len(s.prev_wrap_chals) = mpv
=============================================================================
