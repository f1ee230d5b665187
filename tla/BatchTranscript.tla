-------------------------- MODULE BatchTranscript --------------------------
(***************************************************************************)
(* crates/pickles-verifier/src/lib.rs: batching_rng, the bytes from which  *)
(* the randomness of kimchi's batched check is derived.  Two batches are   *)
(* hashed side by side, an update of both at a time, so that what the seed *)
(* depends on can be said in one state: two batches have one seed only if  *)
(* they are the same.                                                      *)
(*                                                                         *)
(* Blake2s256 is outside the repository: equal digests mean equal inputs,  *)
(* so the hasher is the sequence of the bytes it was given.  postcard and  *)
(* serialize_compressed are outside too: an item is the two byte strings   *)
(* they return.                                                            *)
(*                                                                         *)
(* An operator named Bug_... is a plausible mistake in the definition that *)
(* follows it; no specification uses it.                                   *)
(***************************************************************************)
EXTENDS Naturals, Sequences

CONSTANTS Batches,  \* the batches: sequences of (postcard(proof), canonical(pi))
          Domain    \* the domain separator

Byte == 0..255

\* Byte strings as long as the model's u64_le, and TLC's integers, can tell.
MaxLen == 2147483647
Bytes == {b \in Seq(Byte) : Len(b) <= MaxLen}

ASSUME TranscriptAssumption ==
    /\ Batches \subseteq Seq([proof : Bytes, pi : Bytes])
    /\ Domain \in Seq(Byte)

Two == {1, 2}

VARIABLES batch,    \* the two batches
          hasher,   \* the bytes each hasher was given
          at,       \* the item the loops are at
          phase     \* the update that comes next

vars == <<batch, hasher, at, phase>>

-----------------------------------------------------------------------------
\* (n as u64).to_le_bytes(), for n up to MaxLen
u64_le(n) == <<n % 256, (n \div 256) % 256, (n \div 65536) % 256, (n \div 16777216) % 256,
               0, 0, 0, 0>>

Bug_no_prefix(bytes) == <<>>

len_prefix(bytes) == u64_le(Len(bytes))

\* What hasher.update is called with; a loop that has ended calls it no more.
update(p, i, s) ==
    IF i > Len(s) THEN <<>>
    ELSE CASE p = "proof_len" -> len_prefix(s[i].proof)
           [] p = "proof"     -> s[i].proof
           [] p = "pi_len"    -> len_prefix(s[i].pi)
           [] p = "pi"        -> s[i].pi

Going == \E k \in Two : at <= Len(batch[k])

\* One call of update in each loop that still runs.
Update(p, next) ==
    /\ phase = p /\ Going
    /\ hasher' = [k \in Two |-> hasher[k] \o update(p, at, batch[k])]
    /\ phase' = next
    /\ UNCHANGED batch

UpdateProofLen == Update("proof_len", "proof") /\ UNCHANGED at
UpdateProof    == Update("proof", "pi_len") /\ UNCHANGED at
UpdatePiLen    == Update("pi_len", "pi") /\ UNCHANGED at
UpdatePi       == Update("pi", "proof_len") /\ at' = at + 1

Init ==
    /\ batch \in [Two -> Batches]
    /\ hasher = [k \in Two |-> Domain]
    /\ at = 1
    /\ phase = "proof_len"

Next == UpdateProofLen \/ UpdateProof \/ UpdatePiLen \/ UpdatePi

Spec == Init /\ [][Next]_vars

-----------------------------------------------------------------------------
\* The seed is bound to the batch: when both loops have ended, hashers that were given the
\* same bytes were given the same proofs with the same public inputs in the same order.  No
\* proof or public input is left out, and none can be cut differently (batching_rng).
SeedBindsBatch ==
    ~Going /\ hasher[1] = hasher[2] => batch[1] = batch[2]
=============================================================================
