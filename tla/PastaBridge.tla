---------------------------- MODULE PastaBridge ----------------------------
(***************************************************************************)
(* The arithmetic behind the slots of the wrap proof's public input: the   *)
(* verifier writes step-field values and the branch data as elements of    *)
(* the wrap field (deferred.rs), the wrap circuit reads them back.  Module *)
(* Pickles takes these maps to be injective; here they are computed.       *)
(*                                                                         *)
(* An operator named Bug_... is a plausible mistake in the definition that *)
(* follows it; no specification uses it.                                   *)
(***************************************************************************)
EXTENDS Integers

CONSTANTS P,        \* order of the step field Fp
          Q,        \* order of the wrap field Fq
          Shift     \* 2^255 + 1, the Type1 shift of a 255-bit field

\* The Pasta orders are odd primes, the step field's the smaller one, both far above
\* the 10 bits of a packed branch.
ASSUME PastaAssumption ==
    /\ P \in Nat /\ Q \in Nat /\ Shift \in Nat
    /\ P % 2 = 1
    /\ P <= Q
    /\ 1024 <= P

Fp == 0..(P - 1)
Fq == 0..(Q - 1)

\* The masks of proofs_verified_mask, as bits.
Masks == {<<0, 0>>, <<0, 1>>, <<1, 1>>}

VARIABLES x,        \* a step-field element; a domain log2 when it is below 256
          mask,     \* the proofs-verified mask
          kind,     \* how the slot was written: "type1", "cast" or "branch"
          slot,     \* the slot of the public input
          read,     \* what the circuit takes from it
          phase     \* "empty", "written" or "read"

vars == <<x, mask, kind, slot, read, phase>>

-----------------------------------------------------------------------------
\* Reinterpret the canonical integer in the wrap field.
fp_to_fq(v) == v % Q

\* The inverse of 2 in Fp.
half == (P + 1) \div 2

Bug_type1_in_wrap_field(raw) == ((raw - Shift) * ((Q + 1) \div 2)) % Q
Bug_integer_halving(raw) == (raw - Shift) \div 2

\* (raw - (2^255 + 1)) / 2 in the step field, then reinterpreted.
cross_field_type1(raw) == fp_to_fq(((raw - Shift) * half) % P)

Bug_pack_mask_reversed(log2, m) == (4 * fp_to_fq(log2) + 2 * m[1] + m[2]) % Q

\* 4 * domain_log2 + m0 + 2 * m1
pack_branch_data(log2, m) == (4 * fp_to_fq(log2) + m[1] + 2 * m[2]) % Q

-----------------------------------------------------------------------------
\* The wrap circuit: un-shift in the step field, take the integer as it is, split
\* the packed branch data into its bits.
circuit_type1(s) == (2 * s + Shift) % P
circuit_cast(s) == s % P
circuit_log2(s) == s \div 4
circuit_mask(s) == <<s % 2, (s \div 2) % 2>>

Init == /\ x \in Fp /\ mask \in Masks
        /\ kind \in {"type1", "cast", "branch"}
        /\ slot = 0 /\ read = [value |-> 0, mask |-> <<0, 0>>] /\ phase = "empty"

Write(value) == /\ phase = "empty"
                /\ slot' = value /\ phase' = "written"
                /\ UNCHANGED <<x, mask, kind, read>>

PushType1 == kind = "type1" /\ Write(cross_field_type1(x))
PushCast == kind = "cast" /\ Write(fp_to_fq(x))
PushBranch == kind = "branch" /\ x < 256 /\ Write(pack_branch_data(x, mask))

Read(value, bits) == /\ phase = "written"
                     /\ read' = [value |-> value, mask |-> bits] /\ phase' = "read"
                     /\ UNCHANGED <<x, mask, kind, slot>>

ReadType1 == kind = "type1" /\ Read(circuit_type1(slot), mask)
ReadCast == kind = "cast" /\ Read(circuit_cast(slot), mask)
ReadBranch == kind = "branch" /\ Read(circuit_log2(slot), circuit_mask(slot))

Next == \/ PushType1 \/ PushCast \/ PushBranch
        \/ ReadType1 \/ ReadCast \/ ReadBranch

Spec == Init /\ [][Next]_vars

-----------------------------------------------------------------------------
\* The slot is a canonical wrap-field element, whatever was written into it.
TypeOK == /\ x \in Fp /\ mask \in Masks /\ slot \in Fq
          /\ kind \in {"type1", "cast", "branch"}
          /\ phase \in {"empty", "written", "read"}
          /\ read \in [value : Nat, mask : {0, 1} \X {0, 1}]

\* What the circuit reads from a slot is what the verifier put in, although the two work
\* in different fields: the shift is undone in Fp, not in Fq (cross_field_type1), nothing
\* is lost by the cast (fp_to_fq), and log2 and mask come apart again (pack_branch_data).
CircuitRecovers ==
    phase = "read" => read = [value |-> x, mask |-> mask]
=============================================================================
