--------------------------- MODULE PicklesBinding ---------------------------
(***************************************************************************)
(* What the verdict pins, for every number of rounds, columns and previous *)
(* proofs: a proof passes exactly when the key is the instance's and the   *)
(* four files are those of the instance in all that the verifier reads     *)
(* (PassesExactlyMatches).                                                 *)
(*                                                                         *)
(* The public input is compared slot by slot.  Its challenges, digests and *)
(* branch data are the skeleton's own, up to injective maps.  The two      *)
(* message digests pin their preimages, element by element: key, statement *)
(* and previous proofs.  The slot xi pins the transcript of the step proof *)
(* and with it the evaluations.                                            *)
(***************************************************************************)
EXTENDS Pickles, PicklesProver, TLAPS

\* An array is indexed from 1 (serde_json).
LEMMA ArrayDomain ==
    ASSUME NEW v, IsArray(v)
    PROVE  /\ Len(v) \in Nat /\ DOMAIN v = 1..Len(v)
           /\ v = [i \in 1..Len(v) |-> v[i]]
  BY DEF IsArray

\* Position k of blocks of one width is in block i at place j.
LEMMA Position ==
    ASSUME NEW w \in Nat \ {0}, NEW i \in Nat, NEW j \in 0..(w - 1)
    PROVE  /\ (i * w + j) \div w = i
           /\ (i * w + j) % w = j
<1>. DEFINE n == i * w + j
            q == n \div w
            r == n % w
<1>1. n \in Nat /\ q \in Int /\ r \in 0..(w - 1) /\ n = w * q + r
  OBVIOUS
<1>2. w * (q - i) = j - r
  BY <1>1
<1>3. q - i < 1
  <2>1. SUFFICES ASSUME q - i >= 1 PROVE FALSE
    BY <1>1
  <2>2. w * (q - i) >= w
    BY <2>1, <1>1
  <2>. QED  BY <2>2, <1>1, <1>2
<1>4. q - i > -1
  <2>1. SUFFICES ASSUME i - q >= 1 PROVE FALSE
    BY <1>1
  <2>2. w * (i - q) >= w
    BY <2>1, <1>1
  <2>. QED  BY <2>2, <1>1, <1>2
<1>5. q = i
  BY <1>1, <1>3, <1>4
<1>. QED  BY <1>1, <1>2, <1>5

\* A function on 1..n is an array.
LEMMA FunctionArray ==
    ASSUME NEW n \in Nat, NEW f, f = [i \in 1..n |-> f[i]]
    PROVE  IsArray(f) /\ Len(f) = n /\ DOMAIN f = 1..n
<1>1. DOMAIN f = 1..n
  OBVIOUS
<1>2. f \in [1..n -> {f[i] : i \in DOMAIN f}]
  BY <1>1
<1>. QED  BY <1>1, <1>2 DEF IsArray

\* Arrays with the same elements at the same places are the same.
LEMMA SameArray ==
    ASSUME NEW a, NEW b, IsArray(a), IsArray(b), Len(a) = Len(b),
           \A i \in 1..Len(a) : a[i] = b[i]
    PROVE  a = b
  BY ArrayDomain

\* One array is two others, one after the other.
IsJoin(c, a, b) == c = a \o b

\* What a concatenation of arrays is.
LEMMA Joined ==
    ASSUME NEW a, NEW b, NEW c, IsArray(a), IsArray(b), IsJoin(c, a, b)
    PROVE  /\ IsArray(c) /\ Len(c) = Len(a) + Len(b)
           /\ \A i \in 1..Len(a) : c[i] = a[i]
           /\ \A i \in 1..Len(b) : c[Len(a) + i] = b[i]
<1>. DEFINE S == {a[i] : i \in DOMAIN a} \cup {b[i] : i \in DOMAIN b}
<1>0. Len(a) \in Nat /\ Len(b) \in Nat /\ DOMAIN a = 1..Len(a) /\ DOMAIN b = 1..Len(b)
  BY ArrayDomain
<1>1. a \in Seq(S) /\ b \in Seq(S)
  BY DEF IsArray
<1>. HIDE DEF S
<1>2. /\ Len(c) = Len(a) + Len(b) /\ c \in Seq(S)
      /\ \A i \in 1..(Len(a) + Len(b)) : c[i] = IF i <= Len(a) THEN a[i] ELSE b[i - Len(a)]
  BY <1>1 DEF IsJoin
<1>3. IsArray(c)
  <2>1. DOMAIN c = 1..Len(c) /\ c = [i \in 1..Len(c) |-> c[i]] /\ Len(c) \in Nat
    BY <1>2
  <2>. QED  BY <2>1, FunctionArray
<1>4. \A i \in 1..Len(b) : c[Len(a) + i] = b[i]
  BY <1>0, <1>2
<1>5. \A i \in 1..Len(a) : c[i] = a[i]
  BY <1>0, <1>2
<1>. QED  BY <1>2, <1>3, <1>4, <1>5

\* A concatenation pins its parts when their lengths are known.
LEMMA Split ==
    ASSUME NEW a, NEW b, NEW c, NEW d, NEW ab, IsArray(a), IsArray(b), IsArray(c), IsArray(d),
           Len(a) = Len(c), IsJoin(ab, a, b), IsJoin(ab, c, d)
    PROVE  a = c /\ b = d
<1>1. Len(a) \in Nat /\ Len(b) \in Nat /\ Len(d) \in Nat
  BY ArrayDomain
<1>ab. /\ Len(ab) = Len(a) + Len(b)
       /\ \A i \in 1..Len(a) : ab[i] = a[i]
       /\ \A i \in 1..Len(b) : ab[Len(a) + i] = b[i]
  BY Joined
<1>cd. /\ Len(ab) = Len(c) + Len(d)
       /\ \A i \in 1..Len(c) : ab[i] = c[i]
       /\ \A i \in 1..Len(d) : ab[Len(c) + i] = d[i]
  BY Joined
<1>3. Len(b) = Len(d)
  BY <1>1, <1>ab, <1>cd
<1>4. \A i \in 1..Len(a) : a[i] = c[i]
  BY <1>ab, <1>cd
<1>5. \A i \in 1..Len(b) : b[i] = d[i]
  BY <1>3, <1>ab, <1>cd
<1>. QED  BY <1>3, <1>4, <1>5, SameArray

\* Blocks of one width, one after the other (concat).
LEMMA ConcatAt ==
    ASSUME NEW blocks, NEW w \in Nat \ {0}, Len(blocks) \in Nat
    PROVE  /\ IsArray(concat(blocks, w)) /\ Len(concat(blocks, w)) = w * Len(blocks)
           /\ DOMAIN concat(blocks, w) = 1..(w * Len(blocks))
           /\ \A i \in 1..Len(blocks), j \in 1..w :
                 /\ (i - 1) * w + j \in 1..(w * Len(blocks))
                 /\ concat(blocks, w)[(i - 1) * w + j] = blocks[i][j]
<1>. DEFINE n == w * Len(blocks)
            c == concat(blocks, w)
<1>1. n \in Nat
  OBVIOUS
<1>2. c = [k \in 1..n |-> blocks[((k - 1) \div w) + 1][((k - 1) % w) + 1]]
  BY DEF concat
<1>3. IsArray(c) /\ Len(c) = n /\ DOMAIN c = 1..n
  <2>. HIDE DEF n, c
  <2>. QED  BY <1>1, <1>2, FunctionArray
<1>4. ASSUME NEW i \in 1..Len(blocks), NEW j \in 1..w
      PROVE  (i - 1) * w + j \in 1..n /\ c[(i - 1) * w + j] = blocks[i][j]
  <2>1. (i - 1) * w \in Nat /\ (i - 1) * w + w <= n
    <3>1. (Len(blocks) - i) * w >= 0
      OBVIOUS
    <3>2. n = (i - 1) * w + w + (Len(blocks) - i) * w
      OBVIOUS
    <3>3. (i - 1) * w \in Nat
      OBVIOUS
    <3>. QED  BY <3>1, <3>2, <3>3
  <2>2. (i - 1) * w + j \in 1..n
    BY <2>1, <1>1
  <2>3. /\ ((i - 1) * w + (j - 1)) \div w = i - 1
        /\ ((i - 1) * w + (j - 1)) % w = j - 1
    <3>1. i - 1 \in Nat /\ j - 1 \in 0..(w - 1)
      OBVIOUS
    <3>. QED  BY <3>1, Position
  <2>4. ((i - 1) * w + j) - 1 = (i - 1) * w + (j - 1)
    BY <2>1
  <2>5. c[(i - 1) * w + j] = blocks[(i - 1) + 1][(j - 1) + 1]
    BY <1>2, <2>2, <2>3, <2>4
  <2>. QED  BY <2>2, <2>5
<1>. QED  BY <1>3, <1>4

\* Every position of such a sequence is in one block (concat).
LEMMA ConcatPlace ==
    ASSUME NEW m \in Nat, NEW w \in Nat \ {0}, NEW k \in 1..(w * m)
    PROVE  /\ ((k - 1) \div w) + 1 \in 1..m
           /\ ((k - 1) % w) + 1 \in 1..w
<1>. DEFINE q == (k - 1) \div w
            r == (k - 1) % w
<1>1. k \in Nat /\ k >= 1 /\ k <= w * m
  OBVIOUS
<1>2. q \in Int /\ r \in 0..(w - 1) /\ k - 1 = w * q + r
  BY <1>1
<1>3. q >= 0
  <2>1. SUFFICES ASSUME q <= -1 PROVE FALSE
    BY <1>2
  <2>2. w * (-1 - q) >= 0
    BY <2>1, <1>2
  <2>3. w * (-1 - q) = -w - w * q
    BY <1>2
  <2>. QED  BY <1>1, <1>2, <2>2, <2>3
<1>4. q < m
  <2>1. SUFFICES ASSUME q >= m PROVE FALSE
    BY <1>2
  <2>2. w * (q - m) >= 0
    BY <2>1, <1>2
  <2>3. w * (q - m) = w * q - w * m
    BY <1>2
  <2>. QED  BY <1>1, <1>2, <2>2, <2>3
<1>. QED  BY <1>2, <1>3, <1>4

\* Blocks of one width are pinned, place by place, by what they are concatenated to.
LEMMA ConcatPins ==
    ASSUME NEW a, NEW b, NEW w \in Nat \ {0}, Len(a) \in Nat, Len(b) \in Nat
    PROVE  concat(a, w) = concat(b, w) <=>
              /\ Len(a) = Len(b)
              /\ \A i \in 1..Len(a), j \in 1..w : a[i][j] = b[i][j]
<1>1. ASSUME concat(a, w) = concat(b, w)
      PROVE  Len(a) = Len(b) /\ \A i \in 1..Len(a), j \in 1..w : a[i][j] = b[i][j]
  <2>1. w * Len(a) = w * Len(b)
    BY <1>1, ConcatAt
  <2>2. Len(a) = Len(b)
    <3>1. w * (Len(a) - Len(b)) = 0
      BY <2>1
    <3>. QED  BY <3>1
  <2>3. \A i \in 1..Len(a), j \in 1..w : a[i][j] = b[i][j]
    <3>1. SUFFICES ASSUME NEW i \in 1..Len(a), NEW j \in 1..w PROVE a[i][j] = b[i][j]
      OBVIOUS
    <3>2. concat(a, w)[(i - 1) * w + j] = a[i][j]
      BY ConcatAt
    <3>3. concat(b, w)[(i - 1) * w + j] = b[i][j]
      BY <2>2, ConcatAt
    <3>. QED  BY <1>1, <3>2, <3>3
  <2>. QED  BY <2>2, <2>3
<1>2. ASSUME Len(a) = Len(b), \A i \in 1..Len(a), j \in 1..w : a[i][j] = b[i][j]
      PROVE  concat(a, w) = concat(b, w)
  <2>1. \A k \in 1..(w * Len(a)) :
           a[((k - 1) \div w) + 1][((k - 1) % w) + 1]
             = b[((k - 1) \div w) + 1][((k - 1) % w) + 1]
    <3>1. SUFFICES ASSUME NEW k \in 1..(w * Len(a))
                   PROVE  a[((k - 1) \div w) + 1][((k - 1) % w) + 1]
                            = b[((k - 1) \div w) + 1][((k - 1) % w) + 1]
      OBVIOUS
    <3>2. ((k - 1) \div w) + 1 \in 1..Len(a) /\ ((k - 1) % w) + 1 \in 1..w
      BY ConcatPlace
    <3>. QED  BY <1>2, <3>2
  <2>. QED  BY <1>2, <2>1 DEF concat
<1>. QED  BY <1>1, <1>2

-----------------------------------------------------------------------------
\* The thirteen slots before the challenges (wrap_public_input).
first_slots(dv, step_digest, wrap_digest) ==
    <<cross_field_type1(dv.combined_inner_product), cross_field_type1(dv.b),
      cross_field_type1(dv.zeta_to_srs_length),
      cross_field_type1(dv.zeta_to_domain_size), cross_field_type1(dv.perm),
      fp_to_fq(dv.beta), fp_to_fq(dv.gamma),
      fp_to_fq(dv.alpha), fp_to_fq(dv.zeta), fp_to_fq(dv.xi),
      fp_to_fq(dv.sponge_digest), wrap_digest, fp_to_fq(step_digest)>>

\* The public input has a slot for every challenge and 24 others, whatever the deferred
\* values are (wrap_public_input).
LEMMA PublicInputSlots ==
    ASSUME NEW dv, NEW sd, NEW wd, IsArray(dv.bulletproof_prechallenges),
           Len(dv.bulletproof_prechallenges) = StepIpaRounds
    PROVE  LET pi == wrap_public_input(dv, sd, wd) IN
           /\ IsArray(pi) /\ Len(pi) = StepIpaRounds + 24
           /\ \A i \in 1..13 : pi[i] = first_slots(dv, sd, wd)[i]
           /\ \A i \in 1..StepIpaRounds : pi[13 + i] = fp_to_fq(dv.bulletproof_prechallenges[i])
           /\ pi[StepIpaRounds + 14] = pack_branch_data(dv.branch_data)
           /\ \A i \in 1..10 : pi[StepIpaRounds + 14 + i] = fq_from(0)
<1>. DEFINE head == first_slots(dv, sd, wd)
            chals == [i \in DOMAIN dv.bulletproof_prechallenges |->
                        fp_to_fq(dv.bulletproof_prechallenges[i])]
            packed == <<pack_branch_data(dv.branch_data)>>
            zeros == [i \in 1..FeatureSlots |-> fq_from(0)]
            pi == wrap_public_input(dv, sd, wd)
            S == StepIpaRounds
<1>0. S \in Nat /\ S >= 1
  BY RoundsAssumption
<1>1. IsArray(head) /\ Len(head) = 13
  <2>1. head = [i \in 1..13 |-> head[i]]
    BY DEF first_slots
  <2>. HIDE DEF head
  <2>. QED  BY <2>1, FunctionArray
<1>2. IsArray(chals) /\ Len(chals) = S
      /\ \A i \in 1..S : chals[i] = fp_to_fq(dv.bulletproof_prechallenges[i])
  <2>1. DOMAIN dv.bulletproof_prechallenges = 1..S
    BY ArrayDomain
  <2>2. chals = [i \in 1..S |-> chals[i]]
        /\ \A i \in 1..S : chals[i] = fp_to_fq(dv.bulletproof_prechallenges[i])
    BY <2>1
  <2>. HIDE DEF chals
  <2>. QED  BY <1>0, <2>2, FunctionArray
<1>3. IsArray(packed) /\ Len(packed) = 1 /\ packed[1] = pack_branch_data(dv.branch_data)
  <2>1. packed = [i \in 1..1 |-> packed[i]]
    OBVIOUS
  <2>2. packed[1] = pack_branch_data(dv.branch_data)
    OBVIOUS
  <2>. HIDE DEF packed
  <2>. QED  BY <2>1, <2>2, FunctionArray
<1>4. IsArray(zeros) /\ Len(zeros) = 10 /\ \A i \in 1..10 : zeros[i] = fq_from(0)
  <2>1. zeros = [i \in 1..10 |-> zeros[i]] /\ \A i \in 1..10 : zeros[i] = fq_from(0)
    BY DEF FeatureSlots
  <2>. HIDE DEF zeros
  <2>. QED  BY <2>1, FunctionArray
<1>. DEFINE two == head \o chals
            three == two \o packed
<1>5. IsJoin(two, head, chals) /\ IsJoin(three, two, packed) /\ IsJoin(pi, three, zeros)
  BY DEF IsJoin, wrap_public_input, first_slots
<1>. HIDE DEF head, chals, packed, zeros, pi, two, three
<1>arr. IsArray(head) /\ IsArray(chals) /\ IsArray(packed) /\ IsArray(zeros)
  BY <1>1, <1>2, <1>3, <1>4
<1>6. /\ IsArray(two) /\ Len(two) = 13 + S
      /\ \A i \in 1..13 : two[i] = head[i]
      /\ \A i \in 1..S : two[13 + i] = chals[i]
  <2>1. /\ IsArray(two) /\ Len(two) = Len(head) + Len(chals)
        /\ \A i \in 1..Len(head) : two[i] = head[i]
        /\ \A i \in 1..Len(chals) : two[Len(head) + i] = chals[i]
    BY <1>arr, <1>5, Joined
  <2>. QED  BY <1>0, <1>1, <1>2, <1>5, <2>1
<1>7. /\ IsArray(three) /\ Len(three) = (13 + S) + 1
      /\ \A i \in 1..(13 + S) : three[i] = two[i]
      /\ \A i \in 1..1 : three[(13 + S) + i] = packed[i]
  <2>1. /\ IsArray(three) /\ Len(three) = Len(two) + Len(packed)
        /\ \A i \in 1..Len(two) : three[i] = two[i]
        /\ \A i \in 1..Len(packed) : three[Len(two) + i] = packed[i]
    <3>1. IsArray(two)
      BY <1>6
    <3>. QED  BY <1>arr, <1>5, <3>1, Joined
  <2>. QED  BY <1>0, <1>3, <1>5, <1>6, <2>1
<1>8. /\ IsArray(pi) /\ Len(pi) = ((13 + S) + 1) + 10
      /\ \A i \in 1..((13 + S) + 1) : pi[i] = three[i]
      /\ \A i \in 1..10 : pi[((13 + S) + 1) + i] = zeros[i]
  <2>1. /\ IsArray(pi) /\ Len(pi) = Len(three) + Len(zeros)
        /\ \A i \in 1..Len(three) : pi[i] = three[i]
        /\ \A i \in 1..Len(zeros) : pi[Len(three) + i] = zeros[i]
    <3>1. IsArray(three)
      BY <1>7
    <3>. QED  BY <1>arr, <1>5, <3>1, Joined
  <2>. QED  BY <1>0, <1>4, <1>5, <1>7, <2>1
<1>9. ASSUME NEW i \in 1..13  PROVE pi[i] = head[i]
  <2>1. i \in 1..(13 + S) /\ i \in 1..((13 + S) + 1)
    BY <1>0
  <2>. QED  BY <2>1, <1>6, <1>7, <1>8
<1>10. ASSUME NEW i \in 1..S  PROVE pi[13 + i] = chals[i]
  <2>1. 13 + i \in 1..(13 + S) /\ 13 + i \in 1..((13 + S) + 1)
    BY <1>0
  <2>2. pi[13 + i] = three[13 + i] /\ three[13 + i] = two[13 + i]
    BY <2>1, <1>7, <1>8
  <2>. QED  BY <2>2, <1>6
<1>11. pi[S + 14] = packed[1]
  <2>1. S + 14 = (13 + S) + 1 /\ (13 + S) + 1 \in 1..((13 + S) + 1) /\ 1 \in 1..1
    BY <1>0
  <2>. QED  BY <2>1, <1>7, <1>8
<1>12. ASSUME NEW i \in 1..10  PROVE pi[S + 14 + i] = zeros[i]
  <2>1. S + 14 + i = ((13 + S) + 1) + i
    BY <1>0
  <2>. QED  BY <2>1, <1>8
<1>13. Len(pi) = S + 24
  BY <1>0, <1>8
<1>. QED  BY <1>2, <1>3, <1>4, <1>8, <1>9, <1>10, <1>11, <1>12, <1>13 DEF head, pi

-----------------------------------------------------------------------------
\* The proof that four files are converted to (OcamlProof::parse, into_verifiable).
verifiable(f) ==
    LET ocaml == OcamlProof_parse(f.skeleton)
    IN  IF ocaml.ok THEN into_verifiable(ocaml.value, f.proof, f.vk, <<f.stmt>>) ELSE Err

\* What parsing and conversion ask of a skeleton and a key.
parses(s) ==
    /\ s.proofs_verified \in Tags
    /\ has_all_evals(s.prev_evals)
    /\ Len(s.bulletproof_challenges) = StepIpaRounds
    /\ \A i \in DOMAIN s.prev_step_chals : Len(s.prev_step_chals[i]) = StepIpaRounds
    /\ \A i \in DOMAIN s.prev_wrap_chals : Len(s.prev_wrap_chals[i]) = WrapIpaRounds

converts(f) ==
    /\ parses(f.skeleton)
    /\ vk_has_chunks(f.vk)
    /\ Len(f.skeleton.prev_wrap_chals) <= 2

step_digest_of(f) ==
    hash_messages_for_next_step(
        wrap_vk_step_fields(f.vk), <<f.stmt>>,
        Zip(f.skeleton.prev_step_sgs, expand_all(f.skeleton.prev_step_chals, VestaEndo.scalar)))

wrap_digest_of(s) ==
    hash_messages_for_next_wrap(
        s.cpc, pad_challenges(expand_all(s.prev_wrap_chals, PallasEndo.scalar)))

\* Where each field of the converted proof comes from (into_verifiable).
LEMMA Converted ==
    ASSUME NEW f, IsSkeleton(f.skeleton)
    PROVE  LET s == f.skeleton
               p == verifiable(f).value
           IN  /\ verifiable(f).ok <=> converts(f)
               /\ converts(f) =>
                    /\ p.wrap_proof = f.proof
                    /\ p.raw_plonk = s.plonk
                    /\ p.raw_bulletproof_challenges = s.bulletproof_challenges
                    /\ p.branch_data.domain_log2 = s.domain_log2 % 256
                    /\ p.branch_data.mask = proofs_verified_mask(s.proofs_verified)
                    /\ p.sponge_digest = s.sponge_digest
                    /\ p.prev_evals = parse_all_evals(s.prev_evals)
                    /\ p.old_bulletproof_challenges
                         = expand_all(s.prev_step_chals, VestaEndo.scalar)
                    /\ p.cpc = s.cpc
                    /\ p.step_digest = step_digest_of(f)
                    /\ p.wrap_digest = wrap_digest_of(s)
                    /\ p.step_domain_log2 = s.domain_log2 % 256
<1>. DEFINE s == f.skeleton
            o == OcamlProof_parse(s)
            v == into_verifiable(o.value, f.proof, f.vk, <<f.stmt>>)
<1>1. o.ok <=> parses(s)
  BY DEF OcamlProof_parse, Ok, Err, parses, bulletproof_vec
<1>2. ASSUME parses(s)
      PROVE  o.value =
            [raw_plonk |-> s.plonk,
             raw_bulletproof_challenges |-> s.bulletproof_challenges,
             branch_data |-> [domain_log2 |-> s.domain_log2 % 256,
                              mask |-> proofs_verified_mask(s.proofs_verified)],
             sponge_digest |-> s.sponge_digest,
             cpc |-> s.cpc,
             step_domain_log2 |-> s.domain_log2 % 256,
             prev_evals |-> parse_all_evals(s.prev_evals),
             prev_step_sgs |-> s.prev_step_sgs,
             prev_step_chals_raw |-> s.prev_step_chals,
             prev_wrap_chals_raw |-> s.prev_wrap_chals]
  BY <1>2 DEF OcamlProof_parse, Ok, parses, bulletproof_vec, ocaml_byte
<1>3. CASE ~parses(s)
  BY <1>1, <1>3 DEF verifiable, converts, Err
<1>4. CASE parses(s)
  <2>1. verifiable(f) = v
    BY <1>1, <1>4 DEF verifiable
  <2>2. Len(expand_all(s.prev_wrap_chals, PallasEndo.scalar)) = Len(s.prev_wrap_chals)
    <3>1. IsArray(s.prev_wrap_chals)
      BY DEF IsSkeleton, IsArrays
    <3>. DEFINE w == expand_all(s.prev_wrap_chals, PallasEndo.scalar)
    <3>2. w = [i \in 1..Len(s.prev_wrap_chals) |-> w[i]] /\ Len(s.prev_wrap_chals) \in Nat
      BY <3>1, ArrayDomain DEF expand_all
    <3>. HIDE DEF w
    <3>3. Len(w) = Len(s.prev_wrap_chals)
      BY <3>2, FunctionArray
    <3>. QED  BY <3>3 DEF w
  <2>3. Len(s.prev_wrap_chals) \in Nat
    BY ArrayDomain DEF IsSkeleton, IsArrays
  <2>4. v.ok <=> converts(f)
    BY <1>2, <1>4, <2>2, <2>3 DEF into_verifiable, Ok, Err, converts, PADDED_LENGTH
  <2>5. ASSUME converts(f)
        PROVE  v.value = [wrap_proof |-> f.proof,
                 raw_plonk |-> s.plonk,
                 raw_bulletproof_challenges |-> s.bulletproof_challenges,
                 branch_data |-> [domain_log2 |-> s.domain_log2 % 256,
                                  mask |-> proofs_verified_mask(s.proofs_verified)],
                 sponge_digest |-> s.sponge_digest,
                 prev_evals |-> parse_all_evals(s.prev_evals),
                 old_bulletproof_challenges |-> expand_all(s.prev_step_chals, VestaEndo.scalar),
                 cpc |-> s.cpc,
                 step_digest |-> step_digest_of(f),
                 wrap_digest |-> wrap_digest_of(s),
                 step_domain_log2 |-> s.domain_log2 % 256]
    BY <1>2, <1>4, <2>2, <2>3, <2>5
    DEF into_verifiable, Ok, converts, PADDED_LENGTH, step_digest_of, wrap_digest_of
  <2>. QED  BY <2>1, <2>4, <2>5
<1>. QED  BY <1>3, <1>4

-----------------------------------------------------------------------------
\* The wrap challenges in the two slots the wrap circuit has for them, dummies first.
slots(w) == [i \in 1..2 |-> IF i <= 2 - Len(w) THEN DummyWrap ELSE w[i - (2 - Len(w))]]

expanded_slots(w) ==
    [i \in 1..2 |-> [j \in 1..WrapIpaRounds |-> ToField(slots(w)[i][j], PallasEndo.scalar)]]

wrap_hash(w, cpc) ==
    Poseidon("Fq", concat(expanded_slots(w), WrapIpaRounds) \o <<X(cpc), Y(cpc)>>)

\* At most two vectors of as many challenges as there are wrap rounds.
IsWrapVectors(w) ==
    /\ IsArrays(w) /\ Len(w) <= 2
    /\ \A i \in DOMAIN w : Len(w[i]) = WrapIpaRounds

\* The Ro monad's dummies, reversed, are the expansion of the prover's
\* (dummy_ipa_wrap_expanded).
LEMMA Dummies ==
    /\ IsArray(DummyWrap) /\ Len(DummyWrap) = WrapIpaRounds
    /\ IsArray(dummy_ipa_wrap_expanded) /\ Len(dummy_ipa_wrap_expanded) = WrapIpaRounds
    /\ \A j \in 1..WrapIpaRounds :
          dummy_ipa_wrap_expanded[j] = ToField(DummyWrap[j], PallasEndo.scalar)
<1>. DEFINE W == WrapIpaRounds
            drawn == [i \in 1..W |-> ToField(RoChallenge(i), PallasEndo.scalar)]
<1>0. W \in Nat
  BY RoundsAssumption
<1>1. IsArray(DummyWrap) /\ Len(DummyWrap) = W
  <2>1. DummyWrap = [i \in 1..W |-> DummyWrap[i]]
    BY DEF DummyWrap
  <2>. QED  BY <1>0, <2>1, FunctionArray
<1>2. Len(drawn) = W
  <2>1. drawn = [i \in 1..W |-> drawn[i]]
    OBVIOUS
  <2>. HIDE DEF drawn
  <2>. QED  BY <1>0, <2>1, FunctionArray
<1>3. dummy_ipa_wrap_expanded = [i \in 1..W |-> drawn[(W - i) + 1]]
  <2>1. dummy_ipa_wrap_expanded = Reverse(drawn)
    BY DEF dummy_ipa_wrap_expanded
  <2>. HIDE DEF drawn
  <2>. QED  BY <1>2, <2>1 DEF Reverse
<1>4. IsArray(dummy_ipa_wrap_expanded) /\ Len(dummy_ipa_wrap_expanded) = W
  <2>1. dummy_ipa_wrap_expanded = [i \in 1..W |-> dummy_ipa_wrap_expanded[i]]
    BY <1>3
  <2>. QED  BY <1>0, <2>1, FunctionArray
<1>5. ASSUME NEW j \in 1..W
      PROVE  dummy_ipa_wrap_expanded[j] = ToField(DummyWrap[j], PallasEndo.scalar)
  <2>1. (W - j) + 1 \in 1..W /\ (W - j) + 1 = W + 1 - j
    BY <1>0
  <2>2. drawn[(W - j) + 1] = ToField(RoChallenge(W + 1 - j), PallasEndo.scalar)
    BY <2>1
  <2>3. DummyWrap[j] = RoChallenge(W + 1 - j)
    BY DEF DummyWrap
  <2>. QED  BY <1>3, <2>2, <2>3
<1>. QED  BY <1>1, <1>4, <1>5

\* Padding puts the expansion of both slots in place (pad_challenges).
LEMMA Padding ==
    ASSUME NEW w, IsWrapVectors(w)
    PROVE  LET padded == pad_challenges(expand_all(w, PallasEndo.scalar)) IN
           /\ Len(padded) = 2
           /\ \A i \in 1..2, j \in 1..WrapIpaRounds :
                 padded[i][j] = ToField(slots(w)[i][j], PallasEndo.scalar)
<1>. DEFINE W == WrapIpaRounds
            n == Len(w)
            e == expand_all(w, PallasEndo.scalar)
            d == dummies(PADDED_LENGTH - n)
            padded == pad_challenges(e)
<1>1. n \in 0..2 /\ DOMAIN w = 1..n
  <2>1. IsArray(w) /\ Len(w) <= 2
    BY DEF IsWrapVectors, IsArrays
  <2>2. Len(w) \in Nat /\ DOMAIN w = 1..Len(w)
    BY <2>1, ArrayDomain
  <2>. QED  BY <2>1, <2>2
<1>2. /\ IsArray(e) /\ Len(e) = n
      /\ \A i \in 1..n, j \in 1..W : e[i][j] = ToField(w[i][j], PallasEndo.scalar)
  <2>1. e = [i \in 1..n |-> e[i]]
    BY <1>1 DEF expand_all
  <2>2. \A i \in 1..n : DOMAIN w[i] = 1..W
    BY <1>1, ArrayDomain DEF IsWrapVectors, IsArrays
  <2>3. \A i \in 1..n, j \in 1..W : e[i][j] = ToField(w[i][j], PallasEndo.scalar)
    BY <1>1, <2>2 DEF expand_all, expand
  <2>. HIDE DEF e
  <2>. QED  BY <1>1, <2>1, <2>3, FunctionArray
<1>3. /\ IsArray(d) /\ Len(d) = 2 - n
      /\ \A i \in 1..(2 - n) : d[i] = dummy_ipa_wrap_expanded
  <2>1. d = [i \in 1..(2 - n) |-> d[i]] /\ \A i \in 1..(2 - n) : d[i] = dummy_ipa_wrap_expanded
    BY DEF dummies, PADDED_LENGTH
  <2>. HIDE DEF d
  <2>2. 2 - n \in Nat
    BY <1>1
  <2>. QED  BY <2>1, <2>2, FunctionArray
<1>4. IsJoin(padded, d, e)
  BY <1>2 DEF IsJoin, pad_challenges
<1>. HIDE DEF d, e, padded
<1>5. /\ Len(padded) = Len(d) + Len(e)
      /\ \A i \in 1..Len(d) : padded[i] = d[i]
      /\ \A i \in 1..Len(e) : padded[Len(d) + i] = e[i]
  <2>1. IsArray(d) /\ IsArray(e)
    BY <1>2, <1>3
  <2>. QED  BY <1>4, <2>1, Joined
<1>6. Len(padded) = 2
  BY <1>1, <1>2, <1>3, <1>5
<1>7. ASSUME NEW i \in 1..2, NEW j \in 1..W
      PROVE  padded[i][j] = ToField(slots(w)[i][j], PallasEndo.scalar)
  <2>1. CASE i <= 2 - n
    <3>1. padded[i] = dummy_ipa_wrap_expanded
      BY <1>1, <1>3, <1>5, <2>1
    <3>2. slots(w)[i] = DummyWrap
      BY <2>1 DEF slots
    <3>. QED  BY <3>1, <3>2, Dummies
  <2>2. CASE ~(i <= 2 - n)
    <3>1. i - (2 - n) \in 1..n /\ (2 - n) + (i - (2 - n)) = i
      BY <1>1, <2>2
    <3>2. padded[i] = e[i - (2 - n)]
      BY <1>2, <1>3, <1>5, <3>1
    <3>3. slots(w)[i] = w[i - (2 - n)]
      BY <2>2 DEF slots
    <3>. QED  BY <1>2, <3>1, <3>2, <3>3
  <2>. QED  BY <2>1, <2>2
<1>. QED  BY <1>6, <1>7 DEF padded, e

\* What the verifier hashes for the next wrap proof (hash_messages_for_next_wrap).
LEMMA WrapDigest ==
    ASSUME NEW s, IsWrapVectors(s.prev_wrap_chals)
    PROVE  wrap_digest_of(s) = wrap_hash(s.prev_wrap_chals, s.cpc)
<1>. DEFINE w == s.prev_wrap_chals
            padded == pad_challenges(expand_all(w, PallasEndo.scalar))
            W == WrapIpaRounds
<1>1. Len(padded) = 2 /\ \A i \in 1..2, j \in 1..W :
                            padded[i][j] = ToField(slots(w)[i][j], PallasEndo.scalar)
  BY Padding
<1>2. /\ Len(expanded_slots(w)) = 2
      /\ \A i \in 1..2, j \in 1..W :
            expanded_slots(w)[i][j] = ToField(slots(w)[i][j], PallasEndo.scalar)
  <2>1. expanded_slots(w) = [i \in 1..2 |-> expanded_slots(w)[i]]
    BY DEF expanded_slots
  <2>2. Len(expanded_slots(w)) = 2
    BY <2>1, FunctionArray
  <2>. QED  BY <2>2 DEF expanded_slots
<1>. HIDE DEF padded
<1>3. concat(padded, W) = concat(expanded_slots(w), W)
  <2>1. \A i \in 1..2, j \in 1..W : padded[i][j] = expanded_slots(w)[i][j]
    BY <1>1, <1>2
  <2>2. W \in Nat \ {0} /\ Len(padded) \in Nat /\ Len(expanded_slots(w)) \in Nat
        /\ Len(padded) = Len(expanded_slots(w)) /\ 1..Len(padded) = 1..2
    BY <1>1, <1>2, RoundsAssumption
  <2>. QED  BY <2>1, <2>2, ConcatPins
<1>. QED  BY <1>3 DEF wrap_digest_of, hash_messages_for_next_wrap, wrap_hash, padded

\* The wrap challenges of an instance are as many vectors as it has previous proofs.
LEMMA InstanceWraps ==
    ASSUME NEW inst, IsInstance(inst)
    PROVE  /\ Len(Skeleton(inst).prev_wrap_chals) = Len(inst.prevs)
           /\ IsWrapVectors(Skeleton(inst).prev_wrap_chals)
<1>. DEFINE w == Skeleton(inst).prev_wrap_chals
            n == Len(inst.prevs)
<1>1. n \in Nat /\ n <= 2
  BY ArrayDomain DEF IsInstance
<1>2. w = [i \in 1..n |-> inst.prevs[i].wrap]
  BY DEF Skeleton
<1>. HIDE DEF w
<1>3. w = [i \in 1..n |-> w[i]]
  BY <1>2
<1>4. IsArray(w) /\ Len(w) = n /\ DOMAIN w = 1..n
  BY <1>1, <1>3, FunctionArray
<1>5. \A i \in 1..n : IsArray(w[i]) /\ Len(w[i]) = WrapIpaRounds
  BY <1>2 DEF IsInstance
<1>6. IsWrapVectors(w)
  BY <1>1, <1>4, <1>5 DEF IsWrapVectors, IsArrays
<1>. QED  BY <1>4, <1>6 DEF w

\* What the wrap circuit hashes (external: the wrap prover).
LEMMA InstanceWrapDigest ==
    ASSUME NEW inst, IsInstance(inst)
    PROVE  WrapMessage(inst) = wrap_hash(Skeleton(inst).prev_wrap_chals, Skeleton(inst).cpc)
<1>. DEFINE W == WrapIpaRounds
            g == Skeleton(inst)
            w == g.prev_wrap_chals
            slot(i) == IF i <= 2 - Len(inst.prevs) THEN DummyWrap
                       ELSE inst.prevs[i - (2 - Len(inst.prevs))].wrap
            message == [n \in 1..(2 * W) |->
                          ToField(slot(((n - 1) \div W) + 1)[((n - 1) % W) + 1], PallasEndo.scalar)]
<1>0. W \in Nat \ {0} /\ Len(inst.prevs) \in Nat /\ Len(inst.prevs) <= 2
  <2>1. IsArray(inst.prevs) /\ Len(inst.prevs) <= 2
    BY DEF IsInstance
  <2>2. Len(inst.prevs) \in Nat
    BY <2>1, ArrayDomain
  <2>. QED  BY <2>1, <2>2, RoundsAssumption
<1>1. \A i \in 1..2 : slot(i) = slots(w)[i]
  <2>1. w = [i \in 1..Len(inst.prevs) |-> inst.prevs[i].wrap]
    BY DEF Skeleton
  <2>2. Len(w) = Len(inst.prevs)
    BY InstanceWraps
  <2>3. \A i \in 1..2 : ~(i <= 2 - Len(inst.prevs)) =>
                           i - (2 - Len(inst.prevs)) \in 1..Len(inst.prevs)
    BY <1>0
  <2>. HIDE DEF w
  <2>. QED  BY <2>1, <2>2, <2>3 DEF slots
<1>2. Len(expanded_slots(w)) = 2
  <2>1. expanded_slots(w) = [i \in 1..2 |-> expanded_slots(w)[i]]
    BY DEF expanded_slots
  <2>. QED  BY <2>1, FunctionArray
<1>3. message = concat(expanded_slots(w), W)
  <2>. HIDE DEF w
  <2>1. ASSUME NEW n \in 1..(2 * W)
        PROVE  ToField(slot(((n - 1) \div W) + 1)[((n - 1) % W) + 1], PallasEndo.scalar)
                 = expanded_slots(w)[((n - 1) \div W) + 1][((n - 1) % W) + 1]
    <3>. DEFINE q == ((n - 1) \div W) + 1
                r == ((n - 1) % W) + 1
    <3>1. q \in 1..2 /\ r \in 1..W
      <4>1. n \in 1..(W * 2)
        BY <1>0
      <4>. QED  BY <1>0, <4>1, ConcatPlace
    <3>. HIDE DEF q, r
    <3>2. expanded_slots(w)[q][r] = ToField(slots(w)[q][r], PallasEndo.scalar)
      BY <3>1 DEF expanded_slots
    <3>3. slot(q) = slots(w)[q]
      BY <1>1, <3>1
    <3>. QED  BY <3>2, <3>3 DEF q, r
  <2>2. W * Len(expanded_slots(w)) = 2 * W
    BY <1>0, <1>2
  <2>. HIDE DEF slot
  <2>. QED  BY <2>1, <2>2 DEF concat
<1>4. WrapMessage(inst) = Poseidon("Fq", message \o <<X(g.cpc), Y(g.cpc)>>)
  BY DEF WrapMessage
<1>. HIDE DEF message
<1>. QED  BY <1>3, <1>4 DEF wrap_hash

\* The hash pins both slots and the commitment (hash_messages_for_next_wrap).
LEMMA WrapHashPins ==
    ASSUME NEW v, NEW w, IsWrapVectors(v), IsWrapVectors(w), NEW c, NEW d
    PROVE  wrap_hash(v, c) = wrap_hash(w, d) <=> slots(v) = slots(w) /\ c = d
<1>. DEFINE W == WrapIpaRounds
            cv == concat(expanded_slots(v), W)
            cw == concat(expanded_slots(w), W)
            tv == <<X(c), Y(c)>>
            tw == <<X(d), Y(d)>>
<1>0. W \in Nat \ {0}
  BY RoundsAssumption
<1>1. ASSUME NEW u  PROVE Len(expanded_slots(u)) = 2
  <2>1. expanded_slots(u) = [i \in 1..2 |-> expanded_slots(u)[i]]
    BY DEF expanded_slots
  <2>. QED  BY <2>1, FunctionArray
<1>2. /\ IsArray(cv) /\ IsArray(cw) /\ Len(cv) = Len(cw)
      /\ cv = cw <=> \A i \in 1..2, j \in 1..W : expanded_slots(v)[i][j] = expanded_slots(w)[i][j]
  <2>1. Len(expanded_slots(v)) = 2 /\ Len(expanded_slots(w)) = 2
    BY <1>1
  <2>2. IsArray(cv) /\ IsArray(cw) /\ Len(cv) = W * 2 /\ Len(cw) = W * 2
    <3>1. 2 \in Nat
      OBVIOUS
    <3>2. IsArray(cv) /\ Len(cv) = W * Len(expanded_slots(v))
      BY <1>0, <2>1, <3>1, ConcatAt
    <3>3. IsArray(cw) /\ Len(cw) = W * Len(expanded_slots(w))
      BY <1>0, <2>1, <3>1, ConcatAt
    <3>. QED  BY <2>1, <3>2, <3>3
  <2>3. cv = cw <=> \A i \in 1..2, j \in 1..W : expanded_slots(v)[i][j] = expanded_slots(w)[i][j]
    BY <1>0, <2>1, ConcatPins
  <2>. QED  BY <2>2, <2>3
<1>3. IsArray(tv) /\ IsArray(tw) /\ (tv = tw <=> c = d)
  <2>1. tv = [i \in 1..2 |-> tv[i]] /\ tw = [i \in 1..2 |-> tw[i]]
    OBVIOUS
  <2>2. tv = tw <=> c = d
    BY DEF X, Y
  <2>. HIDE DEF tv, tw
  <2>. QED  BY <2>1, <2>2, FunctionArray
<1>4. wrap_hash(v, c) = wrap_hash(w, d) <=> cv \o tv = cw \o tw
  BY DEF wrap_hash, Poseidon
<1>. HIDE DEF cv, cw, tv, tw
<1>5. cv \o tv = cw \o tw <=> cv = cw /\ tv = tw
  <2>1. ASSUME cv \o tv = cw \o tw  PROVE cv = cw /\ tv = tw
    <3>1. IsJoin(cv \o tv, cv, tv) /\ IsJoin(cv \o tv, cw, tw)
      BY <2>1 DEF IsJoin
    <3>. QED  BY <1>2, <1>3, <3>1, Split
  <2>. QED  BY <2>1
<1>6. (\A i \in 1..2, j \in 1..W : expanded_slots(v)[i][j] = expanded_slots(w)[i][j])
        <=> \A i \in 1..2, j \in 1..W : slots(v)[i][j] = slots(w)[i][j]
  <2>1. ASSUME NEW i \in 1..2, NEW j \in 1..W
        PROVE  /\ expanded_slots(v)[i][j] = ToField(slots(v)[i][j], PallasEndo.scalar)
               /\ expanded_slots(w)[i][j] = ToField(slots(w)[i][j], PallasEndo.scalar)
    BY DEF expanded_slots
  <2>2. \A x, y : ToField(x, PallasEndo.scalar) = ToField(y, PallasEndo.scalar) <=> x = y
    BY DEF ToField
  <2>. QED  BY <2>1, <2>2
<1>7. ASSUME NEW u, IsWrapVectors(u), NEW i \in 1..2
      PROVE  IsArray(slots(u)[i]) /\ Len(slots(u)[i]) = W
  <2>1. CASE i <= 2 - Len(u)
    BY <2>1, Dummies DEF slots
  <2>2. CASE ~(i <= 2 - Len(u))
    <3>0. IsArray(u) /\ Len(u) <= 2
      BY <1>7 DEF IsWrapVectors, IsArrays
    <3>1. Len(u) \in Nat /\ DOMAIN u = 1..Len(u)
      BY <3>0, ArrayDomain
    <3>2. i - (2 - Len(u)) \in DOMAIN u
      BY <2>2, <3>0, <3>1
    <3>. QED  BY <1>7, <2>2, <3>2 DEF slots, IsWrapVectors, IsArrays
  <2>. QED  BY <2>1, <2>2
<1>8. (\A i \in 1..2, j \in 1..W : slots(v)[i][j] = slots(w)[i][j]) <=> slots(v) = slots(w)
  <2>1. ASSUME \A i \in 1..2, j \in 1..W : slots(v)[i][j] = slots(w)[i][j]
        PROVE  slots(v) = slots(w)
    <3>1. ASSUME NEW i \in 1..2  PROVE slots(v)[i] = slots(w)[i]
      <4>1. /\ IsArray(slots(v)[i]) /\ Len(slots(v)[i]) = W
            /\ IsArray(slots(w)[i]) /\ Len(slots(w)[i]) = W
        BY <1>7
      <4>2. \A j \in 1..W : slots(v)[i][j] = slots(w)[i][j]
        BY <2>1
      <4>. QED  BY <4>1, <4>2, SameArray
    <3>2. slots(v) = [i \in 1..2 |-> slots(v)[i]] /\ slots(w) = [i \in 1..2 |-> slots(w)[i]]
      BY DEF slots
    <3>. QED  BY <3>1, <3>2
  <2>. QED  BY <2>1
<1>. QED  BY <1>2, <1>3, <1>4, <1>5, <1>6, <1>8

-----------------------------------------------------------------------------
\* The first chunk of every commitment of a key.
first_chunks(vk) == [i \in DOMAIN vk_commitments(vk) |-> vk_commitments(vk)[i][1]]

\* The coordinates of points, one after the other.
coordinates(c) == concat([i \in DOMAIN c |-> <<X(c[i]), Y(c[i])>>], 2)

\* One block for each of the first m previous proofs: its commitment and its challenges.
prev_blocks(sgs, chals, m) ==
    [i \in 1..m |-> [k \in 1..(StepIpaRounds + 2) |->
        IF k = 1 THEN X(sgs[i]) ELSE IF k = 2 THEN Y(sgs[i])
        ELSE ToField(chals[i][k - 2], VestaEndo.scalar)]]

step_hash(comms, stmt, sgs, chals, m) ==
    Poseidon("Fp", (coordinates(comms) \o <<stmt>>)
                   \o concat(prev_blocks(sgs, chals, m), StepIpaRounds + 2))

\* Vectors of as many challenges as there are step rounds.
IsStepVectors(v) ==
    IsArrays(v) /\ \A i \in DOMAIN v : Len(v[i]) = StepIpaRounds

\* Coordinates pin their points.
LEMMA CoordinatesPin ==
    ASSUME NEW c, NEW d, IsArray(c), IsArray(d), Len(c) = Len(d)
    PROVE  /\ IsArray(coordinates(c)) /\ Len(coordinates(c)) = 2 * Len(c)
           /\ coordinates(c) = coordinates(d) <=> c = d
<1>. DEFINE bc == [i \in DOMAIN c |-> <<X(c[i]), Y(c[i])>>]
            bd == [i \in DOMAIN d |-> <<X(d[i]), Y(d[i])>>]
            n == Len(c)
<1>1. n \in Nat /\ DOMAIN c = 1..n /\ DOMAIN d = 1..n
  BY ArrayDomain
<1>2. /\ bc = [i \in 1..n |-> bc[i]] /\ bd = [i \in 1..n |-> bd[i]]
      /\ \A i \in 1..n : /\ bc[i][1] = X(c[i]) /\ bc[i][2] = Y(c[i])
                         /\ bd[i][1] = X(d[i]) /\ bd[i][2] = Y(d[i])
  BY <1>1
<1>3. coordinates(c) = concat(bc, 2) /\ coordinates(d) = concat(bd, 2)
  BY DEF coordinates
<1>. HIDE DEF bc, bd
<1>4. Len(bc) = n /\ Len(bd) = n
  BY <1>1, <1>2, FunctionArray
<1>5. IsArray(concat(bc, 2)) /\ Len(concat(bc, 2)) = 2 * Len(bc)
  BY <1>1, <1>4, ConcatAt
<1>6. concat(bc, 2) = concat(bd, 2) <=> \A i \in 1..n, j \in 1..2 : bc[i][j] = bd[i][j]
  BY <1>1, <1>4, ConcatPins
<1>7. (\A i \in 1..n, j \in 1..2 : bc[i][j] = bd[i][j]) <=> \A i \in 1..n : c[i] = d[i]
  <2>1. ASSUME NEW i \in 1..n, \A j \in 1..2 : bc[i][j] = bd[i][j]  PROVE c[i] = d[i]
    <3>1. X(c[i]) = X(d[i])
      BY <1>2, <2>1
    <3>. QED  BY <3>1 DEF X
  <2>2. ASSUME NEW i \in 1..n, NEW j \in 1..2, c[i] = d[i]  PROVE bc[i][j] = bd[i][j]
    <3>1. j = 1 \/ j = 2
      OBVIOUS
    <3>. QED  BY <1>2, <2>2, <3>1
  <2>. QED  BY <2>1, <2>2
<1>8. (\A i \in 1..n : c[i] = d[i]) <=> c = d
  BY SameArray
<1>. QED  BY <1>3, <1>4, <1>5, <1>6, <1>7, <1>8

\* A key has a fixed number of commitments (kimchi's VerifierIndex).
LEMMA KeyCommitments ==
    ASSUME NEW vk, IsKey(vk)
    PROVE  /\ IsArray(vk_commitments(vk)) /\ Len(vk_commitments(vk)) = Sigmas + Columns + 7
           /\ IsArray(first_chunks(vk)) /\ Len(first_chunks(vk)) = Sigmas + Columns + 7
<1>. DEFINE two == vk.sigma_comm \o vk.coefficients_comm
            all == vk_commitments(vk)
            K == Sigmas + Columns + 7
<1>1. IsJoin(two, vk.sigma_comm, vk.coefficients_comm) /\ IsJoin(all, two, vk.index_comms)
  BY DEF IsJoin, vk_commitments
<1>. HIDE DEF two, all
<1>2. IsArray(vk.sigma_comm) /\ IsArray(vk.coefficients_comm) /\ IsArray(vk.index_comms)
  BY DEF IsKey, IsArrays
<1>3. IsArray(two) /\ Len(two) = Len(vk.sigma_comm) + Len(vk.coefficients_comm)
  BY <1>1, <1>2, Joined
<1>4. IsArray(all) /\ Len(all) = Len(two) + Len(vk.index_comms)
  <2>1. IsArray(two)
    BY <1>3
  <2>. QED  BY <1>1, <1>2, <2>1, Joined
<1>5. Len(all) = K /\ K \in Nat
  BY <1>3, <1>4, RoundsAssumption DEF IsKey
<1>6. IsArray(first_chunks(vk)) /\ Len(first_chunks(vk)) = K
  <2>1. DOMAIN all = 1..K
    BY <1>4, <1>5, ArrayDomain
  <2>2. first_chunks(vk) = [i \in 1..K |-> first_chunks(vk)[i]]
    BY <2>1 DEF first_chunks, all
  <2>. QED  BY <1>5, <2>2, FunctionArray
<1>. QED  BY <1>4, <1>5, <1>6 DEF all

\* The zip stops with the shorter of the two arrays.
zipped(sgs, chals) == IF Len(sgs) <= Len(chals) THEN Len(sgs) ELSE Len(chals)

\* The blocks of previous proofs, as sequences of one width.
LEMMA PrevBlocks ==
    ASSUME NEW sgs, NEW chals, NEW m \in Nat
    PROVE  /\ Len(prev_blocks(sgs, chals, m)) = m
           /\ \A i \in 1..m :
                /\ prev_blocks(sgs, chals, m)[i][1] = X(sgs[i])
                /\ prev_blocks(sgs, chals, m)[i][2] = Y(sgs[i])
                /\ \A j \in 1..StepIpaRounds :
                     prev_blocks(sgs, chals, m)[i][j + 2] = ToField(chals[i][j], VestaEndo.scalar)
<1>. DEFINE b == prev_blocks(sgs, chals, m)
<1>0. StepIpaRounds \in Nat
  BY RoundsAssumption
<1>1. b = [i \in 1..m |-> b[i]]
  BY DEF prev_blocks
<1>2. Len(b) = m
  <2>. HIDE DEF b
  <2>. QED  BY <1>1, FunctionArray
<1>3. ASSUME NEW i \in 1..m
      PROVE  /\ b[i][1] = X(sgs[i]) /\ b[i][2] = Y(sgs[i])
             /\ \A j \in 1..StepIpaRounds : b[i][j + 2] = ToField(chals[i][j], VestaEndo.scalar)
  <2>1. b[i] = [k \in 1..(StepIpaRounds + 2) |->
                  IF k = 1 THEN X(sgs[i]) ELSE IF k = 2 THEN Y(sgs[i])
                  ELSE ToField(chals[i][k - 2], VestaEndo.scalar)]
    BY DEF prev_blocks
  <2>2. 1 \in 1..(StepIpaRounds + 2) /\ 2 \in 1..(StepIpaRounds + 2)
    BY <1>0
  <2>3. \A j \in 1..StepIpaRounds :
           j + 2 \in 1..(StepIpaRounds + 2) /\ j + 2 # 1 /\ j + 2 # 2 /\ (j + 2) - 2 = j
    BY <1>0
  <2>. HIDE DEF b
  <2>4. b[i][1] = X(sgs[i]) /\ b[i][2] = Y(sgs[i])
    BY <2>1, <2>2
  <2>5. ASSUME NEW j \in 1..StepIpaRounds
        PROVE  b[i][j + 2] = ToField(chals[i][j], VestaEndo.scalar)
    <3>1. b[i][j + 2] = ToField(chals[i][(j + 2) - 2], VestaEndo.scalar)
      BY <2>1, <2>3
    <3>. QED  BY <2>3, <3>1
  <2>. QED  BY <2>4, <2>5
<1>. QED  BY <1>2, <1>3

\* What the verifier hashes for the next step proof (hash_messages_for_next_step).
LEMMA StepDigest ==
    ASSUME NEW f, IsKey(f.vk), IsArray(f.skeleton.prev_step_sgs),
           IsStepVectors(f.skeleton.prev_step_chals)
    PROVE  LET s == f.skeleton IN
           step_digest_of(f) = step_hash(first_chunks(f.vk), f.stmt, s.prev_step_sgs,
                                         s.prev_step_chals,
                                         zipped(s.prev_step_sgs, s.prev_step_chals))
<1>. DEFINE s == f.skeleton
            sgs == s.prev_step_sgs
            chals == s.prev_step_chals
            old == expand_all(chals, VestaEndo.scalar)
            m == zipped(sgs, chals)
            w == StepIpaRounds + 2
            proofs == Zip(sgs, old)
            blocks == [i \in DOMAIN proofs |-> <<X(proofs[i][1]), Y(proofs[i][1])>> \o proofs[i][2]]
<1>0. StepIpaRounds \in Nat /\ w \in Nat \ {0}
  BY RoundsAssumption
<1>1. Len(sgs) \in Nat /\ Len(chals) \in Nat /\ DOMAIN chals = 1..Len(chals)
  <2>1. IsArray(sgs) /\ IsArray(chals)
    BY DEF IsStepVectors, IsArrays
  <2>. QED  BY <2>1, ArrayDomain
<1>2. m \in Nat /\ m <= Len(chals)
  BY <1>1 DEF zipped
<1>3. Len(old) = Len(chals) /\ \A i \in 1..Len(chals) : old[i] = expand(chals[i], VestaEndo.scalar)
  <2>1. old = [i \in 1..Len(chals) |-> old[i]]
    BY <1>1 DEF expand_all
  <2>2. \A i \in 1..Len(chals) : old[i] = expand(chals[i], VestaEndo.scalar)
    BY <1>1 DEF expand_all
  <2>. HIDE DEF old
  <2>. QED  BY <1>1, <2>1, <2>2, FunctionArray
<1>. HIDE DEF old
<1>4. proofs = [i \in 1..m |-> <<sgs[i], old[i]>>]
  BY <1>3 DEF Zip, zipped
<1>5. Len(blocks) = m /\ \A i \in 1..m : blocks[i] = <<X(sgs[i]), Y(sgs[i])>> \o old[i]
  <2>1. DOMAIN proofs = 1..m /\ \A i \in 1..m : proofs[i][1] = sgs[i] /\ proofs[i][2] = old[i]
    BY <1>4
  <2>. HIDE DEF proofs
  <2>2. blocks = [i \in 1..m |-> blocks[i]]
    BY <2>1
  <2>3. \A i \in 1..m : blocks[i] = <<X(sgs[i]), Y(sgs[i])>> \o old[i]
    BY <2>1
  <2>. HIDE DEF blocks
  <2>. QED  BY <1>2, <2>2, <2>3, FunctionArray
<1>6. step_digest_of(f) = Poseidon("Fp", (wrap_vk_step_fields(f.vk) \o <<f.stmt>>)
                                         \o concat(blocks, w))
  BY DEF step_digest_of, hash_messages_for_next_step, old
<1>. HIDE DEF proofs, blocks
<1>7. ASSUME NEW i \in 1..m, NEW k \in 1..w
      PROVE  blocks[i][k] = prev_blocks(sgs, chals, m)[i][k]
  <2>. DEFINE xy == <<X(sgs[i]), Y(sgs[i])>>
              c == chals[i]
              e == expand(c, VestaEndo.scalar)
              b == blocks[i]
  <2>1. IsArray(xy) /\ Len(xy) = 2 /\ xy[1] = X(sgs[i]) /\ xy[2] = Y(sgs[i])
    <3>1. xy = [j \in 1..2 |-> xy[j]] /\ xy[1] = X(sgs[i]) /\ xy[2] = Y(sgs[i])
      OBVIOUS
    <3>. HIDE DEF xy
    <3>. QED  BY <3>1, FunctionArray
  <2>2. IsArray(c) /\ Len(c) = StepIpaRounds
    BY <1>1, <1>2 DEF IsStepVectors, IsArrays
  <2>3. /\ IsArray(e) /\ Len(e) = StepIpaRounds
        /\ \A j \in 1..StepIpaRounds : e[j] = ToField(c[j], VestaEndo.scalar)
    <3>1. DOMAIN c = 1..StepIpaRounds
      BY <2>2, ArrayDomain
    <3>. HIDE DEF c
    <3>2. /\ e = [j \in 1..StepIpaRounds |-> e[j]]
          /\ \A j \in 1..StepIpaRounds : e[j] = ToField(c[j], VestaEndo.scalar)
      BY <3>1 DEF expand
    <3>. HIDE DEF e
    <3>. QED  BY <1>0, <3>2, FunctionArray
  <2>4. IsJoin(b, xy, e)
    BY <1>2, <1>3, <1>5 DEF IsJoin
  <2>. HIDE DEF xy, e, b
  <2>5. /\ \A j \in 1..Len(xy) : b[j] = xy[j]
        /\ \A j \in 1..Len(e) : b[Len(xy) + j] = e[j]
    <3>1. IsArray(xy) /\ IsArray(e)
      BY <2>1, <2>3
    <3>. QED  BY <2>4, <3>1, Joined
  <2>6. CASE k = 1 \/ k = 2
    <3>1. b[k] = xy[k]
      BY <2>1, <2>5, <2>6
    <3>. QED  BY <1>2, <2>1, <2>6, <3>1, PrevBlocks DEF b
  <2>7. CASE k > 2
    <3>1. k - 2 \in 1..StepIpaRounds /\ 2 + (k - 2) = k /\ (k - 2) + 2 = k
      BY <1>0, <2>7
    <3>2. b[k] = ToField(c[k - 2], VestaEndo.scalar)
      BY <2>1, <2>3, <2>5, <3>1
    <3>3. prev_blocks(sgs, chals, m)[i][(k - 2) + 2] = ToField(chals[i][k - 2], VestaEndo.scalar)
      BY <1>2, <3>1, PrevBlocks
    <3>. QED  BY <3>1, <3>2, <3>3 DEF b
  <2>. QED  BY <1>0, <2>6, <2>7
<1>8. concat(blocks, w) = concat(prev_blocks(sgs, chals, m), w)
  <2>1. Len(prev_blocks(sgs, chals, m)) = m
    BY <1>2, PrevBlocks
  <2>. QED  BY <1>0, <1>2, <1>5, <1>7, <2>1, ConcatPins
<1>9. wrap_vk_step_fields(f.vk) = coordinates(first_chunks(f.vk))
  BY DEF wrap_vk_step_fields, coordinates, first_chunks
<1>. QED  BY <1>6, <1>8, <1>9 DEF step_hash

\* The previous proofs of an instance, as the skeleton has them.
LEMMA InstancePrevs ==
    ASSUME NEW inst, IsInstance(inst)
    PROVE  LET g == Skeleton(inst)
               n == Len(inst.prevs)
           IN  /\ n \in Nat /\ n <= 2
               /\ IsArray(g.prev_step_sgs) /\ Len(g.prev_step_sgs) = n
               /\ \A i \in 1..n : g.prev_step_sgs[i] = inst.prevs[i].sg
               /\ IsStepVectors(g.prev_step_chals) /\ Len(g.prev_step_chals) = n
               /\ \A i \in 1..n : g.prev_step_chals[i] = inst.prevs[i].step
<1>. DEFINE g == Skeleton(inst)
            n == Len(inst.prevs)
            sgs == g.prev_step_sgs
            chals == g.prev_step_chals
<1>1. n \in Nat /\ n <= 2
  BY ArrayDomain DEF IsInstance
<1>2. /\ sgs = [i \in 1..n |-> inst.prevs[i].sg]
      /\ chals = [i \in 1..n |-> inst.prevs[i].step]
  BY DEF Skeleton
<1>. HIDE DEF sgs, chals
<1>3. sgs = [i \in 1..n |-> sgs[i]] /\ chals = [i \in 1..n |-> chals[i]]
  BY <1>2
<1>4. IsArray(sgs) /\ Len(sgs) = n /\ IsArray(chals) /\ Len(chals) = n /\ DOMAIN chals = 1..n
  BY <1>1, <1>3, FunctionArray
<1>5. \A i \in 1..n : IsArray(chals[i]) /\ Len(chals[i]) = StepIpaRounds
  BY <1>2 DEF IsInstance
<1>6. IsStepVectors(chals)
  BY <1>4, <1>5 DEF IsStepVectors, IsArrays
<1>7. \A i \in 1..n : sgs[i] = inst.prevs[i].sg /\ chals[i] = inst.prevs[i].step
  BY <1>2
<1>. QED  BY <1>1, <1>4, <1>6, <1>7 DEF sgs, chals

\* What the step circuit hashes (external: the prover).
LEMMA InstanceStepDigest ==
    ASSUME NEW inst, IsInstance(inst)
    PROVE  LET g == Skeleton(inst) IN
           StepMessage(inst) = step_hash(first_chunks(inst.vk), inst.stmt, g.prev_step_sgs,
                                         g.prev_step_chals, Len(inst.prevs))
<1>. DEFINE g == Skeleton(inst)
            m == Len(inst.prevs)
            w == StepIpaRounds + 2
            comms == vk_commitments(inst.vk)
            sgs == g.prev_step_sgs
            chals == g.prev_step_chals
            vk_part == [n \in 1..(2 * Len(comms)) |->
                          IF n % 2 = 1 THEN X(comms[(n + 1) \div 2][1])
                          ELSE Y(comms[(n + 1) \div 2][1])]
            prev_part == [n \in 1..(w * m) |->
                            LET prev == inst.prevs[((n - 1) \div w) + 1]
                                k == ((n - 1) % w) + 1
                            IN  CASE k = 1 -> X(prev.sg)
                                  [] k = 2 -> Y(prev.sg)
                                  [] OTHER -> ToField(prev.step[k - 2], VestaEndo.scalar)]
<1>0. StepIpaRounds \in Nat /\ w \in Nat \ {0}
  BY RoundsAssumption
<1>1. StepMessage(inst) = Poseidon("Fp", (vk_part \o <<inst.stmt>>) \o prev_part)
  BY DEF StepMessage, vk_commitments
<1>2. vk_part = coordinates(first_chunks(inst.vk))
  <2>. DEFINE c == first_chunks(inst.vk)
              K == Len(comms)
              blocks == [i \in DOMAIN c |-> <<X(c[i]), Y(c[i])>>]
  <2>1. K \in Nat /\ DOMAIN comms = 1..K
    BY KeyCommitments, ArrayDomain DEF IsInstance
  <2>2. DOMAIN c = 1..K /\ \A i \in 1..K : c[i] = comms[i][1]
    BY <2>1 DEF first_chunks
  <2>. HIDE DEF c, comms
  <2>3. Len(blocks) = K /\ \A i \in 1..K : blocks[i][1] = X(c[i]) /\ blocks[i][2] = Y(c[i])
    <3>1. blocks = [i \in 1..K |-> blocks[i]]
      BY <2>2
    <3>2. \A i \in 1..K : blocks[i][1] = X(c[i]) /\ blocks[i][2] = Y(c[i])
      BY <2>2
    <3>. HIDE DEF blocks
    <3>. QED  BY <2>1, <3>1, <3>2, FunctionArray
  <2>4. coordinates(c) = concat(blocks, 2)
    BY DEF coordinates
  <2>. HIDE DEF blocks
  <2>5. ASSUME NEW n \in 1..(2 * K)
        PROVE  vk_part[n] = blocks[((n - 1) \div 2) + 1][((n - 1) % 2) + 1]
    <3>1. (n + 1) \div 2 = ((n - 1) \div 2) + 1 /\ ((n - 1) \div 2) + 1 \in 1..K
      BY <2>1
    <3>2. CASE n % 2 = 1
      <4>1. (n - 1) % 2 = 0
        BY <3>2, <2>1
      <4>2. vk_part[n] = X(comms[(n + 1) \div 2][1])
        BY <3>2
      <4>. QED  BY <2>2, <2>3, <3>1, <4>1, <4>2
    <3>3. CASE n % 2 # 1
      <4>1. (n - 1) % 2 = 1
        BY <3>3, <2>1
      <4>2. vk_part[n] = Y(comms[(n + 1) \div 2][1])
        BY <3>3
      <4>. QED  BY <2>2, <2>3, <3>1, <4>1, <4>2
    <3>. QED  BY <3>2, <3>3
  <2>6. vk_part = [n \in 1..(2 * K) |-> vk_part[n]]
    OBVIOUS
  <2>. HIDE DEF vk_part
  <2>7. vk_part = concat(blocks, 2)
    BY <2>3, <2>5, <2>6 DEF concat
  <2>. QED  BY <2>4, <2>7 DEF c
<1>3. prev_part = concat(prev_blocks(sgs, chals, m), w)
  <2>. DEFINE b == prev_blocks(sgs, chals, m)
  <2>1. /\ m \in Nat
        /\ \A i \in 1..m : sgs[i] = inst.prevs[i].sg /\ chals[i] = inst.prevs[i].step
    BY InstancePrevs
  <2>. HIDE DEF sgs, chals
  <2>2. Len(b) = m
    BY <2>1, PrevBlocks
  <2>3. ASSUME NEW n \in 1..(w * m)
        PROVE  prev_part[n] = b[((n - 1) \div w) + 1][((n - 1) % w) + 1]
    <3>. DEFINE q == ((n - 1) \div w) + 1
                k == ((n - 1) % w) + 1
    <3>1. q \in 1..m /\ k \in 1..w
      BY <1>0, <2>1, ConcatPlace
    <3>2. prev_part[n] = CASE k = 1 -> X(inst.prevs[q].sg)
                           [] k = 2 -> Y(inst.prevs[q].sg)
                           [] OTHER -> ToField(inst.prevs[q].step[k - 2], VestaEndo.scalar)
      OBVIOUS
    <3>. HIDE DEF q, k, b, prev_part
    <3>3. /\ b[q][1] = X(sgs[q]) /\ b[q][2] = Y(sgs[q])
          /\ \A j \in 1..StepIpaRounds : b[q][j + 2] = ToField(chals[q][j], VestaEndo.scalar)
      BY <2>1, <3>1, PrevBlocks DEF b
    <3>4. CASE k = 1 \/ k = 2
      BY <2>1, <3>1, <3>2, <3>3, <3>4 DEF q, k
    <3>5. CASE k > 2
      <4>1. k - 2 \in 1..StepIpaRounds /\ (k - 2) + 2 = k
        BY <1>0, <3>1, <3>5
      <4>2. b[q][(k - 2) + 2] = ToField(chals[q][k - 2], VestaEndo.scalar)
        BY <3>3, <4>1
      <4>3. prev_part[n] = ToField(inst.prevs[q].step[k - 2], VestaEndo.scalar)
        BY <3>1, <3>2, <3>5
      <4>4. prev_part[n] = b[q][k]
        BY <2>1, <3>1, <4>1, <4>2, <4>3
      <4>. QED  BY <4>4 DEF q, k
    <3>. QED  BY <1>0, <3>1, <3>4, <3>5
  <2>4. prev_part = [n \in 1..(w * m) |-> prev_part[n]]
    OBVIOUS
  <2>. HIDE DEF prev_part, b
  <2>5. prev_part = concat(b, w)
    BY <2>2, <2>3, <2>4 DEF concat
  <2>. QED  BY <2>5 DEF b
<1>. HIDE DEF vk_part, prev_part
<1>. QED  BY <1>1, <1>2, <1>3 DEF step_hash

\* Two such messages hash alike exactly when they agree on every part.
StepHashAgrees(c, x, sc, hc, m, d, y, sd, hd, n) ==
    step_hash(c, x, sc, hc, m) = step_hash(d, y, sd, hd, n) <=>
      /\ c = d /\ x = y /\ m = n
      /\ \A i \in 1..m : sc[i] = sd[i] /\ \A j \in 1..StepIpaRounds : hc[i][j] = hd[i][j]

\* The hash pins the commitments of the key, the statement, the number of previous proofs and,
\* for each of them, its commitment and its challenges (hash_messages_for_next_step).
LEMMA StepHashPins ==
    ASSUME NEW c, NEW d, IsArray(c), IsArray(d), Len(c) = Len(d), NEW x, NEW y,
           NEW sc, NEW sd, NEW hc, NEW hd, NEW m \in Nat, NEW n \in Nat
    PROVE  StepHashAgrees(c, x, sc, hc, m, d, y, sd, hd, n)
<1>. DEFINE w == StepIpaRounds + 2
            bc == prev_blocks(sc, hc, m)
            bd == prev_blocks(sd, hd, n)
            pc == concat(bc, w)
            pd == concat(bd, w)
            tc == <<x>>
            td == <<y>>
            kc == coordinates(c)
            kd == coordinates(d)
            vc == kc \o tc
            vd == kd \o td
<1>0. StepIpaRounds \in Nat /\ w \in Nat \ {0}
  BY RoundsAssumption
<1>1. /\ IsArray(kc) /\ IsArray(kd) /\ Len(kc) = Len(kd)
      /\ kc = kd <=> c = d
  BY CoordinatesPin
<1>2. IsArray(tc) /\ IsArray(td) /\ Len(tc) = 1 /\ Len(td) = 1 /\ (tc = td <=> x = y)
  <2>1. tc = [i \in 1..1 |-> tc[i]] /\ td = [i \in 1..1 |-> td[i]]
    OBVIOUS
  <2>2. tc = td <=> x = y
    OBVIOUS
  <2>. HIDE DEF tc, td
  <2>. QED  BY <2>1, <2>2, FunctionArray
<1>3. Len(bc) = m /\ Len(bd) = n
  BY PrevBlocks
<1>4. IsArray(pc) /\ IsArray(pd)
  <2>. HIDE DEF bc, bd
  <2>. QED  BY <1>0, <1>3, ConcatAt
<1>5. pc = pd <=> m = n /\ \A i \in 1..m, k \in 1..w : bc[i][k] = bd[i][k]
  <2>. HIDE DEF bc, bd
  <2>. QED  BY <1>0, <1>3, ConcatPins
<1>6. step_hash(c, x, sc, hc, m) = step_hash(d, y, sd, hd, n) <=> vc \o pc = vd \o pd
  BY DEF step_hash, Poseidon
<1>. HIDE DEF pc, pd, kc, kd, tc, td
<1>7. IsArray(vc) /\ IsArray(vd) /\ Len(vc) = Len(vd)
  <2>1. IsJoin(vc, kc, tc) /\ IsJoin(vd, kd, td)
    BY DEF IsJoin
  <2>2. IsArray(kc) /\ IsArray(kd) /\ IsArray(tc) /\ IsArray(td)
    BY <1>1, <1>2
  <2>. HIDE DEF vc, vd
  <2>3. /\ IsArray(vc) /\ Len(vc) = Len(kc) + Len(tc)
        /\ IsArray(vd) /\ Len(vd) = Len(kd) + Len(td)
    BY <2>1, <2>2, Joined
  <2>. QED  BY <1>1, <1>2, <2>3
<1>8. vc = vd <=> kc = kd /\ tc = td
  <2>1. IsArray(kc) /\ IsArray(kd) /\ IsArray(tc) /\ IsArray(td) /\ Len(kc) = Len(kd)
    BY <1>1, <1>2
  <2>2. ASSUME kc \o tc = kd \o td  PROVE kc = kd /\ tc = td
    <3>1. IsJoin(kc \o tc, kc, tc) /\ IsJoin(kc \o tc, kd, td)
      BY <2>2 DEF IsJoin
    <3>. QED  BY <2>1, <3>1, Split
  <2>. QED  BY <2>2
<1>. HIDE DEF vc, vd
<1>9. vc \o pc = vd \o pd <=> vc = vd /\ pc = pd
  <2>1. ASSUME vc \o pc = vd \o pd  PROVE vc = vd /\ pc = pd
    <3>1. IsJoin(vc \o pc, vc, pc) /\ IsJoin(vc \o pc, vd, pd)
      BY <2>1 DEF IsJoin
    <3>. QED  BY <1>4, <1>7, <3>1, Split
  <2>. QED  BY <2>1
<1>10. ASSUME m = n
       PROVE  (\A i \in 1..m, k \in 1..w : bc[i][k] = bd[i][k]) <=>
                 \A i \in 1..m : /\ sc[i] = sd[i]
                                 /\ \A j \in 1..StepIpaRounds : hc[i][j] = hd[i][j]
  <2>0. ASSUME NEW i \in 1..m
        PROVE  /\ bc[i][1] = X(sc[i]) /\ bc[i][2] = Y(sc[i])
               /\ \A j \in 1..StepIpaRounds : bc[i][j + 2] = ToField(hc[i][j], VestaEndo.scalar)
               /\ bd[i][1] = X(sd[i]) /\ bd[i][2] = Y(sd[i])
               /\ \A j \in 1..StepIpaRounds : bd[i][j + 2] = ToField(hd[i][j], VestaEndo.scalar)
    BY <1>10, PrevBlocks
  <2>. HIDE DEF bc, bd
  <2>1. ASSUME NEW i \in 1..m, \A k \in 1..w : bc[i][k] = bd[i][k]
        PROVE  sc[i] = sd[i]
    <3>1. 1 \in 1..w
      BY <1>0
    <3>2. X(sc[i]) = X(sd[i])
      BY <2>0, <2>1, <3>1
    <3>. QED  BY <3>2 DEF X
  <2>2. ASSUME NEW i \in 1..m, \A k \in 1..w : bc[i][k] = bd[i][k], NEW j \in 1..StepIpaRounds
        PROVE  hc[i][j] = hd[i][j]
    <3>1. j + 2 \in 1..w
      BY <1>0
    <3>2. ToField(hc[i][j], VestaEndo.scalar) = ToField(hd[i][j], VestaEndo.scalar)
      BY <2>0, <2>2, <3>1
    <3>. QED  BY <3>2 DEF ToField
  <2>3. ASSUME NEW i \in 1..m, NEW k \in 1..w, sc[i] = sd[i],
               \A j \in 1..StepIpaRounds : hc[i][j] = hd[i][j]
        PROVE  bc[i][k] = bd[i][k]
    <3>1. CASE k = 1 \/ k = 2
      BY <2>0, <2>3, <3>1
    <3>2. CASE k > 2
      <4>1. k - 2 \in 1..StepIpaRounds /\ (k - 2) + 2 = k
        BY <1>0, <3>2
      <4>2. bc[i][(k - 2) + 2] = bd[i][(k - 2) + 2]
        BY <2>0, <2>3, <4>1
      <4>. QED  BY <4>1, <4>2
    <3>. QED  BY <1>0, <3>1, <3>2
  <2>. QED  BY <2>1, <2>2, <2>3
<1>. QED  BY <1>1, <1>2, <1>5, <1>6, <1>8, <1>9, <1>10 DEF StepHashAgrees

-----------------------------------------------------------------------------
\* A pair of evaluations is read and compared as it is (point_eval_chunked).
LEMMA ColumnPins ==
    ASSUME NEW v, IsArray(v), Len(v) = 2, NEW name, NEW id
    PROVE  point_eval_chunked(v) = At(Eval(name, id)) <=> v = Eval(name, id)
<1>. DEFINE e == Eval(name, id)
<1>1. e = [i \in 1..2 |-> e[i]]
  BY DEF Eval
<1>. HIDE DEF e
<1>2. IsArray(e) /\ Len(e) = 2
  BY <1>1, FunctionArray
<1>3. v = e <=> v[1] = e[1] /\ v[2] = e[2]
  <2>1. ASSUME v[1] = e[1], v[2] = e[2]  PROVE v = e
    <3>1. \A i \in 1..2 : v[i] = e[i]
      BY <2>1
    <3>. QED  BY <1>2, <3>1, SameArray
  <2>. QED  BY <2>1
<1>4. point_eval_chunked(v) = At(e) <=> v[1] = e[1] /\ v[2] = e[2]
  BY DEF point_eval_chunked, At
<1>. QED  BY <1>3, <1>4 DEF e

\* The columns of one kind, likewise (fixed_chunked).
LEMMA ColumnsPin ==
    ASSUME NEW v, NEW n \in Nat, IsArrays(v), is_fixed(v, n), NEW name, NEW id
    PROVE  fixed_chunked(v) = AtAll(Evals(name, id, n)) <=> v = Evals(name, id, n)
<1>. DEFINE e == Evals(name, id, n)
<1>1. DOMAIN v = 1..n /\ Len(v) = n /\ IsArray(v)
  BY ArrayDomain DEF IsArrays, is_fixed
<1>2. /\ e = [i \in 1..n |-> e[i]]
      /\ \A i \in 1..n : e[i] = Eval(<<name, i>>, id)
  BY DEF Evals
<1>. HIDE DEF e
<1>3. IsArray(e) /\ Len(e) = n
  BY <1>2, FunctionArray
<1>4. ASSUME NEW i \in 1..n
      PROVE  point_eval_chunked(v[i]) = At(e[i]) <=> v[i] = e[i]
  <2>1. IsArray(v[i]) /\ Len(v[i]) = 2
    BY <1>1 DEF IsArrays, is_fixed, is_chunked
  <2>2. e[i] = Eval(<<name, i>>, id)
    BY <1>2
  <2>3. point_eval_chunked(v[i]) = At(Eval(<<name, i>>, id)) <=> v[i] = Eval(<<name, i>>, id)
    BY <2>1, ColumnPins
  <2>. QED  BY <2>2, <2>3, Zenon
<1>5. fixed_chunked(v) = AtAll(e) <=> \A i \in 1..n : point_eval_chunked(v[i]) = At(e[i])
  BY <1>1, <1>3 DEF fixed_chunked, AtAll
<1>6. v = e <=> \A i \in 1..n : v[i] = e[i]
  BY <1>1, <1>3, SameArray
<1>. QED  BY <1>4, <1>5, <1>6 DEF e

\* The evaluations that are read and handed to kimchi are pinned, column by column and
\* selector by selector (parse_all_evals, to_proof_evaluations).
LEMMA EvaluationsPin ==
    ASSUME NEW e, IsEvals(e), has_all_evals(e), NEW inst
    PROVE  /\ to_proof_evaluations(parse_all_evals(e)) = StepEvaluations(inst)
           /\ e.ft_eval1 = DumpedEvals(inst).ft_eval1
           <=> e = DumpedEvals(inst)
<1>. DEFINE d == DumpedEvals(inst)
            id == inst.id
            sel == e.selectors
<1>0. Columns \in Nat /\ Sigmas \in Nat
  BY RoundsAssumption
<1>1. /\ IsArray(e.z) /\ Len(e.z) = 2
      /\ IsArray(e.public_input) /\ Len(e.public_input) = 2
      /\ IsArrays(e.w) /\ is_fixed(e.w, Columns)
      /\ IsArrays(e.coefficients) /\ is_fixed(e.coefficients, Columns)
      /\ IsArrays(e.s) /\ is_fixed(e.s, Sigmas)
  BY DEF IsEvals, has_all_evals, is_chunked
<1>2. /\ IsArray(sel.generic_selector) /\ Len(sel.generic_selector) = 2
      /\ IsArray(sel.poseidon_selector) /\ Len(sel.poseidon_selector) = 2
      /\ IsArray(sel.complete_add_selector) /\ Len(sel.complete_add_selector) = 2
      /\ IsArray(sel.mul_selector) /\ Len(sel.mul_selector) = 2
      /\ IsArray(sel.emul_selector) /\ Len(sel.emul_selector) = 2
      /\ IsArray(sel.endomul_scalar_selector) /\ Len(sel.endomul_scalar_selector) = 2
  <2>1. DOMAIN IndexOrder = 1..6
    BY DEF IndexOrder
  <2>2. \A i \in 1..6 : Len(sel[IndexOrder[i]]) = 2
    BY <2>1 DEF has_all_evals, is_chunked
  <2>3. /\ Len(sel[IndexOrder[1]]) = 2 /\ Len(sel[IndexOrder[2]]) = 2
        /\ Len(sel[IndexOrder[3]]) = 2 /\ Len(sel[IndexOrder[4]]) = 2
        /\ Len(sel[IndexOrder[5]]) = 2 /\ Len(sel[IndexOrder[6]]) = 2
    BY <2>2
  <2>. QED  BY <2>3 DEF IndexOrder, IsEvals, IsSelectors
<1>3. to_proof_evaluations(parse_all_evals(e)) =
        [public |-> point_eval_flat(e.public_input), w |-> fixed_chunked(e.w),
         z |-> point_eval_chunked(e.z), s |-> fixed_chunked(e.s),
         coefficients |-> fixed_chunked(e.coefficients),
         generic_selector |-> point_eval_chunked(sel.generic_selector),
         poseidon_selector |-> point_eval_chunked(sel.poseidon_selector),
         complete_add_selector |-> point_eval_chunked(sel.complete_add_selector),
         mul_selector |-> point_eval_chunked(sel.mul_selector),
         emul_selector |-> point_eval_chunked(sel.emul_selector),
         endomul_scalar_selector |-> point_eval_chunked(sel.endomul_scalar_selector)]
  BY DEF to_proof_evaluations, parse_all_evals, IndexOrder
<1>4. StepEvaluations(inst) =
        [public |-> At(Eval("pub", id)), w |-> AtAll(Evals("w", id, Columns)),
         z |-> At(Eval("z", id)), s |-> AtAll(Evals("s", id, Sigmas)),
         coefficients |-> AtAll(Evals("coefficients", id, Columns)),
         generic_selector |-> At(Eval("generic_selector", id)),
         poseidon_selector |-> At(Eval("poseidon_selector", id)),
         complete_add_selector |-> At(Eval("complete_add_selector", id)),
         mul_selector |-> At(Eval("mul_selector", id)),
         emul_selector |-> At(Eval("emul_selector", id)),
         endomul_scalar_selector |-> At(Eval("endomul_scalar_selector", id))]
  BY DEF StepEvaluations, DumpedEvals
<1>5. point_eval_flat(e.public_input) = At(Eval("pub", id))
        <=> e.public_input = <<<<"pub", "zeta", id>>, <<"pub", "omega", id>>>>
  <2>. DEFINE u == e.public_input
              pub == <<<<"pub", "zeta", id>>, <<"pub", "omega", id>>>>
  <2>1. pub = [i \in 1..2 |-> pub[i]] /\ pub[1] = <<"pub", "zeta", id>> /\ pub[2] = <<"pub", "omega", id>>
    OBVIOUS
  <2>2. point_eval_flat(u) = At(Eval("pub", id))
          <=> u[1] = <<"pub", "zeta", id>> /\ u[2] = <<"pub", "omega", id>>
    BY DEF point_eval_flat, At, Eval
  <2>. HIDE DEF pub
  <2>3. IsArray(pub) /\ Len(pub) = 2
    BY <2>1, FunctionArray
  <2>4. u = pub <=> \A i \in 1..2 : u[i] = pub[i]
    BY <1>1, <2>3, SameArray
  <2>5. (\A i \in 1..2 : u[i] = pub[i]) <=> u[1] = pub[1] /\ u[2] = pub[2]
    OBVIOUS
  <2>6. u = pub <=> u[1] = <<"pub", "zeta", id>> /\ u[2] = <<"pub", "omega", id>>
    BY <2>1, <2>4, <2>5
  <2>. QED  BY <2>2, <2>6 DEF pub
<1>6. /\ point_eval_chunked(e.z) = At(Eval("z", id)) <=> e.z = Eval("z", id)
      /\ fixed_chunked(e.w) = AtAll(Evals("w", id, Columns)) <=> e.w = Evals("w", id, Columns)
      /\ fixed_chunked(e.coefficients) = AtAll(Evals("coefficients", id, Columns))
           <=> e.coefficients = Evals("coefficients", id, Columns)
      /\ fixed_chunked(e.s) = AtAll(Evals("s", id, Sigmas)) <=> e.s = Evals("s", id, Sigmas)
  BY <1>0, <1>1, ColumnPins, ColumnsPin
<1>7. ASSUME NEW v, IsArray(v), Len(v) = 2, NEW name
      PROVE  point_eval_chunked(v) = At(Eval(name, id)) <=> v = Eval(name, id)
  BY <1>7, ColumnPins
<1>8. e = d <=>
        /\ e.ft_eval1 = d.ft_eval1
        /\ e.public_input = <<<<"pub", "zeta", id>>, <<"pub", "omega", id>>>>
        /\ e.z = Eval("z", id) /\ e.w = Evals("w", id, Columns)
        /\ e.coefficients = Evals("coefficients", id, Columns) /\ e.s = Evals("s", id, Sigmas)
        /\ sel = d.selectors
  BY SMTT(30) DEF IsEvals, DumpedEvals
<1>9. sel = d.selectors <=>
        /\ sel.generic_selector = Eval("generic_selector", id)
        /\ sel.poseidon_selector = Eval("poseidon_selector", id)
        /\ sel.complete_add_selector = Eval("complete_add_selector", id)
        /\ sel.mul_selector = Eval("mul_selector", id)
        /\ sel.emul_selector = Eval("emul_selector", id)
        /\ sel.endomul_scalar_selector = Eval("endomul_scalar_selector", id)
  BY DEF IsEvals, IsSelectors, DumpedEvals
<1>10. sel = d.selectors <=>
        /\ point_eval_chunked(sel.generic_selector) = At(Eval("generic_selector", id))
        /\ point_eval_chunked(sel.poseidon_selector) = At(Eval("poseidon_selector", id))
        /\ point_eval_chunked(sel.complete_add_selector) = At(Eval("complete_add_selector", id))
        /\ point_eval_chunked(sel.mul_selector) = At(Eval("mul_selector", id))
        /\ point_eval_chunked(sel.emul_selector) = At(Eval("emul_selector", id))
        /\ point_eval_chunked(sel.endomul_scalar_selector)
             = At(Eval("endomul_scalar_selector", id))
  BY <1>2, <1>7, <1>9
<1>11. to_proof_evaluations(parse_all_evals(e)) = StepEvaluations(inst) <=>
        /\ point_eval_flat(e.public_input) = At(Eval("pub", id))
        /\ fixed_chunked(e.w) = AtAll(Evals("w", id, Columns))
        /\ point_eval_chunked(e.z) = At(Eval("z", id))
        /\ fixed_chunked(e.s) = AtAll(Evals("s", id, Sigmas))
        /\ fixed_chunked(e.coefficients) = AtAll(Evals("coefficients", id, Columns))
        /\ point_eval_chunked(sel.generic_selector) = At(Eval("generic_selector", id))
        /\ point_eval_chunked(sel.poseidon_selector) = At(Eval("poseidon_selector", id))
        /\ point_eval_chunked(sel.complete_add_selector) = At(Eval("complete_add_selector", id))
        /\ point_eval_chunked(sel.mul_selector) = At(Eval("mul_selector", id))
        /\ point_eval_chunked(sel.emul_selector) = At(Eval("emul_selector", id))
        /\ point_eval_chunked(sel.endomul_scalar_selector)
             = At(Eval("endomul_scalar_selector", id))
  BY <1>3, <1>4
<1>. QED  BY <1>5, <1>6, <1>8, <1>10, <1>11

-----------------------------------------------------------------------------
\* The verifier of a key, for step circuits of one chunk.
verifier_of(key) == Verifier_new(key, PallasSrs, VestaSrs, 1)

\* The step challenges of the previous proofs are pinned by their expansion (expand_all).
LEMMA StepChallengesPin ==
    ASSUME NEW v, IsStepVectors(v), NEW inst, IsInstance(inst)
    PROVE  expand_all(v, VestaEndo.scalar) = StepChallenges(inst)
             <=> v = Skeleton(inst).prev_step_chals
<1>. DEFINE g == Skeleton(inst).prev_step_chals
            n == Len(inst.prevs)
            m == Len(v)
            S == StepIpaRounds
            ev == expand_all(v, VestaEndo.scalar)
            eg == StepChallenges(inst)
<1>1. m \in Nat /\ DOMAIN v = 1..m /\ IsArray(v)
  BY ArrayDomain DEF IsStepVectors, IsArrays
<1>2. \A i \in 1..m : IsArray(v[i]) /\ Len(v[i]) = S /\ DOMAIN v[i] = 1..S
  BY <1>1, ArrayDomain DEF IsStepVectors, IsArrays
<1>3. /\ n \in Nat /\ IsStepVectors(g) /\ Len(g) = n
      /\ \A i \in 1..n : g[i] = inst.prevs[i].step
  BY InstancePrevs
<1>4. IsArray(g) /\ \A i \in 1..n : IsArray(g[i]) /\ Len(g[i]) = S
  <2>1. IsArray(g) /\ \A i \in DOMAIN g : IsArray(g[i]) /\ Len(g[i]) = S
    BY <1>3 DEF IsStepVectors, IsArrays
  <2>2. DOMAIN g = 1..n
    BY <1>3, <2>1, ArrayDomain
  <2>. QED  BY <2>1, <2>2
<1>5. ev = [i \in 1..m |-> [j \in 1..S |-> ToField(v[i][j], VestaEndo.scalar)]]
  BY <1>1, <1>2 DEF expand_all, expand
<1>6. eg = [i \in 1..n |-> [j \in 1..S |-> ToField(g[i][j], VestaEndo.scalar)]]
  <2>1. \A i \in 1..n : Len(inst.prevs[i].step) = S
    BY <1>3, <1>4
  <2>. HIDE DEF g
  <2>. QED  BY <1>3, <2>1 DEF StepChallenges, Effective
<1>. HIDE DEF g, ev, eg
<1>7. ASSUME ev = eg  PROVE v = g
  <2>1. m = n
    <3>1. 1..m = 1..n
      <4>1. DOMAIN ev = 1..m /\ DOMAIN eg = 1..n
        BY <1>5, <1>6
      <4>. QED  BY <1>7, <4>1
    <3>. QED  BY <1>1, <1>3, <3>1
  <2>2. ASSUME NEW i \in 1..m  PROVE v[i] = g[i]
    <3>1. ASSUME NEW j \in 1..S  PROVE v[i][j] = g[i][j]
      <4>1. ev[i][j] = ToField(v[i][j], VestaEndo.scalar)
        BY <1>5
      <4>2. eg[i][j] = ToField(g[i][j], VestaEndo.scalar)
        BY <1>6, <2>1
      <4>. QED  BY <1>7, <4>1, <4>2 DEF ToField
    <3>2. IsArray(v[i]) /\ Len(v[i]) = S /\ IsArray(g[i]) /\ Len(g[i]) = S
      BY <1>2, <1>4, <2>1
    <3>. QED  BY <3>1, <3>2, SameArray
  <2>. QED  BY <1>1, <1>3, <1>4, <2>1, <2>2, SameArray
<1>8. ASSUME v = g  PROVE ev = eg
  <2>1. m = n
    BY <1>3, <1>8
  <2>. QED  BY <1>5, <1>6, <1>8, <2>1
<1>. QED  BY <1>7, <1>8 DEF g, ev, eg

\* The transcript that expand_deferred hands to the oracles.
transcript(s) ==
    [domain |-> (s.domain_log2 % 256) % 64, max_poly_size |-> StepIpaRounds, zk_rows |-> 3,
     gate_endo |-> PallasEndo.base, linearization |-> <<"lin", "Fp">>,
     powers_of_alpha |-> <<"alphas", "Fp">>, digest |-> s.sponge_digest,
     alpha |-> ToField(s.plonk.alpha, VestaEndo.scalar),
     beta |-> s.plonk.beta, gamma |-> s.plonk.gamma,
     zeta |-> ToField(s.plonk.zeta, VestaEndo.scalar),
     prev_challenges |-> expand_all(s.prev_step_chals, VestaEndo.scalar),
     evals |-> to_proof_evaluations(parse_all_evals(s.prev_evals)),
     ft_eval1 |-> s.prev_evals.ft_eval1]

\* The transcript pins the domain, the challenges of the step proof and of the previous proofs,
\* the digest and the evaluations (expand_deferred).
LEMMA TranscriptPins ==
    ASSUME NEW s, IsSkeleton(s), parses(s), NEW inst, IsInstance(inst)
    PROVE  transcript(s) = Transcript(inst) <=>
             /\ (s.domain_log2 % 256) % 64 = inst.log2
             /\ s.sponge_digest = Skeleton(inst).sponge_digest
             /\ s.plonk = Skeleton(inst).plonk
             /\ s.prev_step_chals = Skeleton(inst).prev_step_chals
             /\ s.prev_evals = Skeleton(inst).prev_evals
<1>. DEFINE g == Skeleton(inst)
            id == inst.id
<1>1. IsStepVectors(s.prev_step_chals)
  BY DEF IsSkeleton, parses, IsStepVectors
<1>2. expand_all(s.prev_step_chals, VestaEndo.scalar) = StepChallenges(inst)
        <=> s.prev_step_chals = g.prev_step_chals
  BY <1>1, StepChallengesPin
<1>3. g.prev_evals = DumpedEvals(inst) /\ g.sponge_digest = <<"digest", id>>
      /\ g.plonk = [alpha |-> <<"alpha", id>>, beta |-> <<"beta", id>>,
                    gamma |-> <<"gamma", id>>, zeta |-> <<"zeta", id>>]
  BY DEF Skeleton
<1>4. /\ to_proof_evaluations(parse_all_evals(s.prev_evals)) = StepEvaluations(inst)
      /\ s.prev_evals.ft_eval1 = <<"ft", "omega", id>>
      <=> s.prev_evals = DumpedEvals(inst)
  <2>1. DumpedEvals(inst).ft_eval1 = <<"ft", "omega", id>>
    BY DEF DumpedEvals
  <2>. QED  BY <2>1, EvaluationsPin DEF IsSkeleton, parses
<1>5. s.plonk = g.plonk <=>
        /\ ToField(s.plonk.alpha, VestaEndo.scalar) = ToField(<<"alpha", id>>, VestaEndo.scalar)
        /\ s.plonk.beta = <<"beta", id>> /\ s.plonk.gamma = <<"gamma", id>>
        /\ ToField(s.plonk.zeta, VestaEndo.scalar) = ToField(<<"zeta", id>>, VestaEndo.scalar)
  <2>1. s.plonk = [alpha |-> s.plonk.alpha, beta |-> s.plonk.beta,
                   gamma |-> s.plonk.gamma, zeta |-> s.plonk.zeta]
    BY DEF IsSkeleton
  <2>2. \A x, y : ToField(x, VestaEndo.scalar) = ToField(y, VestaEndo.scalar) <=> x = y
    BY DEF ToField
  <2>. HIDE DEF g
  <2>. QED  BY <1>3, <2>1, <2>2
<1>6. transcript(s) = Transcript(inst) <=>
        /\ (s.domain_log2 % 256) % 64 = inst.log2
        /\ s.sponge_digest = <<"digest", id>>
        /\ ToField(s.plonk.alpha, VestaEndo.scalar) = ToField(<<"alpha", id>>, VestaEndo.scalar)
        /\ s.plonk.beta = <<"beta", id>> /\ s.plonk.gamma = <<"gamma", id>>
        /\ ToField(s.plonk.zeta, VestaEndo.scalar) = ToField(<<"zeta", id>>, VestaEndo.scalar)
        /\ expand_all(s.prev_step_chals, VestaEndo.scalar) = StepChallenges(inst)
        /\ to_proof_evaluations(parse_all_evals(s.prev_evals)) = StepEvaluations(inst)
        /\ s.prev_evals.ft_eval1 = <<"ft", "omega", id>>
  BY DEF transcript, Transcript
<1>. HIDE DEF g
<1>. QED  BY <1>2, <1>3, <1>4, <1>5, <1>6 DEF g

\* Three arrays behind a first one are one array behind it.
JoinsTail(h, a, b, c, d) == ((h \o a) \o b) \o c = h \o d

\* They are when that one array has their elements (evaluation_table).
LEMMA JoinedTail ==
    ASSUME NEW h, NEW a, NEW b, NEW c, NEW d,
           IsArray(h), IsArray(a), IsArray(b), IsArray(c), IsArray(d),
           Len(d) = Len(a) + Len(b) + Len(c),
           \A i \in 1..Len(a) : d[i] = a[i],
           \A i \in 1..Len(b) : d[Len(a) + i] = b[i],
           \A i \in 1..Len(c) : d[Len(a) + Len(b) + i] = c[i]
    PROVE  JoinsTail(h, a, b, c, d)
<1>. DEFINE ha == h \o a
            hab == ha \o b
            all == hab \o c
            hd == h \o d
<1>0. IsJoin(ha, h, a) /\ IsJoin(hab, ha, b) /\ IsJoin(all, hab, c) /\ IsJoin(hd, h, d)
  BY DEF IsJoin
<1>. HIDE DEF ha, hab, all, hd
<1>1. Len(h) \in Nat /\ Len(a) \in Nat /\ Len(b) \in Nat /\ Len(c) \in Nat
  BY ArrayDomain
<1>2. /\ IsArray(ha) /\ Len(ha) = Len(h) + Len(a)
      /\ \A i \in 1..Len(h) : ha[i] = h[i]
      /\ \A i \in 1..Len(a) : ha[Len(h) + i] = a[i]
  BY <1>0, Joined
<1>3. /\ IsArray(hab) /\ Len(hab) = Len(ha) + Len(b)
      /\ \A i \in 1..Len(ha) : hab[i] = ha[i]
      /\ \A i \in 1..Len(b) : hab[Len(ha) + i] = b[i]
  <2>1. IsArray(ha)
    BY <1>2
  <2>. QED  BY <1>0, <2>1, Joined
<1>4. /\ IsArray(all) /\ Len(all) = Len(hab) + Len(c)
      /\ \A i \in 1..Len(hab) : all[i] = hab[i]
      /\ \A i \in 1..Len(c) : all[Len(hab) + i] = c[i]
  <2>1. IsArray(hab)
    BY <1>3
  <2>. QED  BY <1>0, <2>1, Joined
<1>5. /\ IsArray(hd) /\ Len(hd) = Len(h) + Len(d)
      /\ \A i \in 1..Len(h) : hd[i] = h[i]
      /\ \A i \in 1..Len(d) : hd[Len(h) + i] = d[i]
  BY <1>0, Joined
<1>6. Len(all) = Len(hd)
  BY <1>1, <1>2, <1>3, <1>4, <1>5
<1>7. ASSUME NEW i \in 1..Len(all)  PROVE all[i] = hd[i]
  <2>1. CASE i <= Len(h)
    <3>1. i \in 1..Len(h) /\ i \in 1..Len(ha) /\ i \in 1..Len(hab)
      BY <1>1, <1>2, <1>3, <2>1
    <3>. QED  BY <1>2, <1>3, <1>4, <1>5, <3>1
  <2>2. CASE i > Len(h) /\ i <= Len(ha)
    <3>1. /\ i - Len(h) \in 1..Len(a) /\ i - Len(h) \in 1..Len(d)
          /\ Len(h) + (i - Len(h)) = i
          /\ i \in 1..Len(ha) /\ i \in 1..Len(hab)
      BY <1>1, <1>2, <1>3, <2>2
    <3>2. all[i] = ha[i]
      BY <1>3, <1>4, <3>1
    <3>3. ha[Len(h) + (i - Len(h))] = a[i - Len(h)]
      BY <1>2, <3>1
    <3>4. hd[Len(h) + (i - Len(h))] = d[i - Len(h)]
      BY <1>5, <3>1
    <3>. QED  BY <3>1, <3>2, <3>3, <3>4
  <2>3. CASE i > Len(ha) /\ i <= Len(hab)
    <3>. DEFINE k == i - Len(ha)
    <3>1. /\ k \in 1..Len(b) /\ Len(a) + k \in 1..Len(d)
          /\ Len(ha) + k = i /\ Len(h) + (Len(a) + k) = i /\ i \in 1..Len(hab)
      BY <1>1, <1>2, <1>3, <2>3
    <3>. HIDE DEF k
    <3>2. all[i] = hab[i]
      BY <1>4, <3>1
    <3>3. hab[Len(ha) + k] = b[k]
      BY <1>3, <3>1
    <3>4. hd[Len(h) + (Len(a) + k)] = d[Len(a) + k]
      BY <1>5, <3>1
    <3>5. d[Len(a) + k] = b[k]
      BY <3>1
    <3>. QED  BY <3>1, <3>2, <3>3, <3>4, <3>5
  <2>4. CASE i > Len(hab)
    <3>. DEFINE k == i - Len(hab)
    <3>1. /\ k \in 1..Len(c) /\ Len(a) + Len(b) + k \in 1..Len(d)
          /\ Len(hab) + k = i /\ Len(h) + (Len(a) + Len(b) + k) = i
      BY <1>1, <1>2, <1>3, <1>4, <2>4
    <3>. HIDE DEF k
    <3>2. all[Len(hab) + k] = c[k]
      BY <1>4, <3>1
    <3>3. hd[Len(h) + (Len(a) + Len(b) + k)] = d[Len(a) + Len(b) + k]
      BY <1>5, <3>1
    <3>4. d[Len(a) + Len(b) + k] = c[k]
      BY <3>1
    <3>. QED  BY <3>1, <3>2, <3>3, <3>4
  <2>. QED  BY <1>1, <1>2, <1>3, <2>1, <2>2, <2>3, <2>4
<1>8. all = hd
  BY <1>4, <1>5, <1>6, <1>7, SameArray
<1>. QED  BY <1>8 DEF all, hab, ha, hd, JoinsTail

\* Columns of evaluations as kimchi holds them, taken apart again for the table (pes).
LEMMA ColumnTable ==
    ASSUME NEW name, NEW id, NEW n \in Nat
    PROVE  LET c == pes(AtAll(Evals(name, id, n))) IN
           IsArray(c) /\ Len(c) = n /\ \A i \in 1..n : c[i] = Eval(<<name, i>>, id)
<1>. DEFINE e == Evals(name, id, n)
            a == AtAll(e)
            c == pes(a)
<1>1. e = [i \in 1..n |-> Eval(<<name, i>>, id)]
  BY DEF Evals
<1>2. Len(e) = n
  <2>1. e = [i \in 1..n |-> e[i]]
    BY <1>1
  <2>. HIDE DEF e
  <2>. QED  BY <2>1, FunctionArray
<1>. HIDE DEF e
<1>3. a = [i \in 1..n |-> At(Eval(<<name, i>>, id))]
  BY <1>1, <1>2 DEF AtAll
<1>4. \A i \in 1..n : pe(At(Eval(<<name, i>>, id))) = Eval(<<name, i>>, id)
  BY DEF pe, At, Eval
<1>. HIDE DEF a
<1>5. c = [i \in 1..n |-> Eval(<<name, i>>, id)]
  BY <1>3, <1>4 DEF pes
<1>. HIDE DEF c
<1>6. c = [i \in 1..n |-> c[i]]
  BY <1>5
<1>7. IsArray(c) /\ Len(c) = n
  BY <1>6, FunctionArray
<1>. QED  BY <1>5, <1>7 DEF c, a, e

\* The table of the combined inner product is the table of kimchi's batched opening
\* (evaluation_table).
LEMMA InstanceTable ==
    ASSUME NEW inst, NEW t, IsArray(t.prev_challenges)
    PROVE  evaluation_table(OraclePolys(t.prev_challenges, t), StepEvaluations(inst),
                            FtEval0(t), t.ft_eval1) = OpeningTable(inst, t)
<1>. DEFINE id == inst.id
            e == StepEvaluations(inst)
            polys == OraclePolys(t.prev_challenges, t)
            nine == <<Eval("pub", id), << <<FtEval0(t)>>, <<t.ft_eval1>> >>, Eval("z", id),
                      Eval("generic_selector", id), Eval("poseidon_selector", id),
                      Eval("complete_add_selector", id), Eval("mul_selector", id),
                      Eval("emul_selector", id), Eval("endomul_scalar_selector", id)>>
            h == polys \o nine
            cw == pes(AtAll(Evals("w", id, Columns)))
            cc == pes(AtAll(Evals("coefficients", id, Columns)))
            cs == pes(AtAll(Evals("s", id, Sigmas)))
            tail == [i \in 1..(2 * Columns + Sigmas) |->
                      CASE i <= Columns -> Eval(<<"w", i>>, id)
                        [] i \in (Columns + 1)..(2 * Columns) ->
                              Eval(<<"coefficients", i - Columns>>, id)
                        [] OTHER -> Eval(<<"s", i - 2 * Columns>>, id)]
<1>0. Columns \in Nat /\ Sigmas \in Nat
  BY RoundsAssumption
<1>1. \A name : pe(At(Eval(name, id))) = Eval(name, id)
  BY DEF pe, At, Eval
<1>2. /\ pe(e.public) = Eval("pub", id) /\ pe(e.z) = Eval("z", id)
      /\ pe(e.generic_selector) = Eval("generic_selector", id)
      /\ pe(e.poseidon_selector) = Eval("poseidon_selector", id)
      /\ pe(e.complete_add_selector) = Eval("complete_add_selector", id)
      /\ pe(e.mul_selector) = Eval("mul_selector", id)
      /\ pe(e.emul_selector) = Eval("emul_selector", id)
      /\ pe(e.endomul_scalar_selector) = Eval("endomul_scalar_selector", id)
      /\ e.w = AtAll(Evals("w", id, Columns))
      /\ e.coefficients = AtAll(Evals("coefficients", id, Columns))
      /\ e.s = AtAll(Evals("s", id, Sigmas))
  BY <1>1 DEF StepEvaluations, DumpedEvals
<1>. HIDE DEF e
<1>3. evaluation_table(polys, e, FtEval0(t), t.ft_eval1) = ((h \o cw) \o cc) \o cs
  BY <1>2, Zenon DEF evaluation_table
<1>4. OpeningTable(inst, t) = h \o tail
  BY Zenon DEF OpeningTable
<1>5. IsArray(h)
  <2>1. IsArray(polys)
    <3>1. polys = [i \in 1..Len(t.prev_challenges) |-> polys[i]] /\ Len(t.prev_challenges) \in Nat
      BY ArrayDomain DEF OraclePolys
    <3>. HIDE DEF polys
    <3>. QED  BY <3>1, FunctionArray
  <2>2. IsArray(nine)
    <3>1. nine = [i \in 1..9 |-> nine[i]]
      OBVIOUS
    <3>. HIDE DEF nine
    <3>. QED  BY <3>1, FunctionArray
  <2>3. IsJoin(h, polys, nine)
    BY DEF IsJoin
  <2>. HIDE DEF h, polys, nine
  <2>. QED  BY <2>1, <2>2, <2>3, Joined
<1>6. /\ IsArray(cw) /\ Len(cw) = Columns /\ \A i \in 1..Columns : cw[i] = Eval(<<"w", i>>, id)
      /\ IsArray(cc) /\ Len(cc) = Columns
      /\ \A i \in 1..Columns : cc[i] = Eval(<<"coefficients", i>>, id)
      /\ IsArray(cs) /\ Len(cs) = Sigmas /\ \A i \in 1..Sigmas : cs[i] = Eval(<<"s", i>>, id)
  BY <1>0, ColumnTable
<1>7. IsArray(tail) /\ Len(tail) = 2 * Columns + Sigmas
  <2>1. tail = [i \in 1..(2 * Columns + Sigmas) |-> tail[i]] /\ 2 * Columns + Sigmas \in Nat
    BY <1>0
  <2>. HIDE DEF tail
  <2>. QED  BY <2>1, FunctionArray
<1>8. ASSUME NEW i \in 1..Columns
      PROVE  tail[i] = Eval(<<"w", i>>, id)
  <2>1. i \in 1..(2 * Columns + Sigmas) /\ i <= Columns
        /\ ~(i \in (Columns + 1)..(2 * Columns))
    BY <1>0
  <2>. QED  BY <2>1
<1>9. ASSUME NEW i \in 1..Columns
      PROVE  tail[Columns + i] = Eval(<<"coefficients", i>>, id)
  <2>1. /\ Columns + i \in 1..(2 * Columns + Sigmas) /\ ~(Columns + i <= Columns)
        /\ Columns + i \in (Columns + 1)..(2 * Columns) /\ (Columns + i) - Columns = i
    BY <1>0
  <2>. QED  BY <2>1
<1>10. ASSUME NEW i \in 1..Sigmas
      PROVE  tail[Columns + Columns + i] = Eval(<<"s", i>>, id)
  <2>1. /\ Columns + Columns + i \in 1..(2 * Columns + Sigmas) /\ ~(Columns + Columns + i <= Columns)
        /\ ~(Columns + Columns + i \in (Columns + 1)..(2 * Columns))
        /\ (Columns + Columns + i) - 2 * Columns = i
    BY <1>0
  <2>. QED  BY <2>1
<1>. HIDE DEF h, cw, cc, cs, tail
<1>11. JoinsTail(h, cw, cc, cs, tail)
  <2>1. /\ \A i \in 1..Len(cw) : tail[i] = cw[i]
        /\ \A i \in 1..Len(cc) : tail[Len(cw) + i] = cc[i]
        /\ \A i \in 1..Len(cs) : tail[Len(cw) + Len(cc) + i] = cs[i]
    BY <1>6, <1>8, <1>9, <1>10
  <2>2. Len(tail) = Len(cw) + Len(cc) + Len(cs)
    BY <1>0, <1>6, <1>7
  <2>3. IsArray(cw) /\ IsArray(cc) /\ IsArray(cs) /\ IsArray(tail)
    BY <1>6, <1>7
  <2>. QED  BY <1>5, <2>1, <2>2, <2>3, JoinedTail
<1>. QED  BY <1>3, <1>4, <1>11, Zenon DEF JoinsTail, e, polys, id

-----------------------------------------------------------------------------
\* The fields of the deferred values as the transcript gives them.
deferred(t, s, branch_data) ==
    LET chals == expand(s.bulletproof_challenges, VestaEndo.scalar) IN
    [alpha |-> s.plonk.alpha, beta |-> s.plonk.beta,
     gamma |-> s.plonk.gamma, zeta |-> s.plonk.zeta,
     perm |-> PermScalars(Combine(t.evals, t.zeta, StepIpaRounds), s.plonk.beta, s.plonk.gamma,
                          <<<<"alphas", "Fp">>, t.alpha>>, <<t.zeta, t.domain, 3>>),
     zeta_to_domain_size |-> PowTwoTo(t.zeta, t.domain),
     zeta_to_srs_length |-> PowTwoTo(t.zeta, StepIpaRounds),
     combined_inner_product |->
        CombinedInnerProduct(OracleV(t), OracleU(t),
            evaluation_table(OraclePolys(t.prev_challenges, t), t.evals, FtEval0(t), t.ft_eval1)),
     xi |-> OracleVChal(t),
     bulletproof_prechallenges |-> s.bulletproof_challenges,
     b |-> LinComb(BPoly(chals, t.zeta), OracleU(t), BPoly(chals, TimesGenerator(t.zeta, t.domain))),
     branch_data |-> branch_data,
     sponge_digest |-> s.sponge_digest]

\* The deferred values come from the one transcript of the converted skeleton
\* (expand_deferred).
LEMMA Deferred ==
    ASSUME NEW f, IsSkeleton(f.skeleton), converts(f), NEW key
    PROVE  LET p == verifiable(f).value IN
           expand_deferred(verifier_of(key), p)
             = deferred(transcript(f.skeleton), f.skeleton, p.branch_data)
<1>. DEFINE s == f.skeleton
            p == verifiable(f).value
            v == verifier_of(key)
            t == transcript(s)
<1>1. /\ p.raw_plonk = s.plonk
      /\ p.raw_bulletproof_challenges = s.bulletproof_challenges
      /\ p.sponge_digest = s.sponge_digest
      /\ p.prev_evals = parse_all_evals(s.prev_evals)
      /\ p.old_bulletproof_challenges = expand_all(s.prev_step_chals, VestaEndo.scalar)
      /\ p.step_domain_log2 = s.domain_log2 % 256
  BY Converted
<1>2. /\ v.step_endo = VestaEndo.scalar /\ v.step_srs_length_log2 = StepIpaRounds
      /\ v.step_zk_rows = 3 /\ v.linearization = <<"lin", "Fp">>
      /\ v.powers_of_alpha = <<"alphas", "Fp">>
  <2>1. step_zk_rows(1) = 3
    BY DEF step_zk_rows
  <2>. QED  BY <2>1 DEF verifier_of, Verifier_new, ExprLinearization
<1>3. domain_shift(p) = t.domain
  BY <1>1 DEF domain_shift, UsizeBits, transcript
<1>4. /\ t.alpha = ToField(s.plonk.alpha, VestaEndo.scalar)
      /\ t.zeta = ToField(s.plonk.zeta, VestaEndo.scalar)
      /\ t.prev_challenges = expand_all(s.prev_step_chals, VestaEndo.scalar)
      /\ t.evals = to_proof_evaluations(parse_all_evals(s.prev_evals))
      /\ t.ft_eval1 = parse_all_evals(s.prev_evals).ft_eval1
  BY DEF transcript, parse_all_evals
<1>5. [domain |-> t.domain, max_poly_size |-> StepIpaRounds, zk_rows |-> 3,
       gate_endo |-> PallasEndo.base, linearization |-> <<"lin", "Fp">>,
       powers_of_alpha |-> <<"alphas", "Fp">>, digest |-> s.sponge_digest,
       alpha |-> t.alpha, beta |-> s.plonk.beta, gamma |-> s.plonk.gamma, zeta |-> t.zeta,
       prev_challenges |-> t.prev_challenges, evals |-> t.evals, ft_eval1 |-> t.ft_eval1] = t
  BY DEF transcript
<1>. HIDE DEF p, v, t, s
<1>6. expand_deferred(v, p) = deferred(t, s, p.branch_data)
  BY <1>1, <1>2, <1>3, <1>4, <1>5 DEF expand_deferred, deferred
<1>. QED  BY <1>6 DEF s, p, v, t

\* The bulletproof challenges of an instance, and their expansion (expand).
LEMMA InstanceChallenges ==
    ASSUME NEW inst
    PROVE  LET bp == Skeleton(inst).bulletproof_challenges IN
           /\ IsArray(bp) /\ Len(bp) = StepIpaRounds
           /\ \A i \in 1..StepIpaRounds : bp[i] = <<"bp", inst.id, i>>
           /\ Effective(bp, VestaEndo.scalar) = expand(bp, VestaEndo.scalar)
<1>. DEFINE bp == Skeleton(inst).bulletproof_challenges
            S == StepIpaRounds
<1>0. S \in Nat
  BY RoundsAssumption
<1>1. bp = [i \in 1..S |-> <<"bp", inst.id, i>>]
  BY DEF Skeleton, Vec
<1>. HIDE DEF bp
<1>2. bp = [i \in 1..S |-> bp[i]]
  BY <1>1
<1>3. IsArray(bp) /\ Len(bp) = S /\ DOMAIN bp = 1..S
  BY <1>0, <1>2, FunctionArray
<1>. QED  BY <1>1, <1>3 DEF bp, Effective, expand

\* The statement of an instance, slot by slot, in the verifier's terms (wrap_public_input).
LEMMA StatementSlots ==
    ASSUME NEW inst, IsInstance(inst), NEW branch_data
    PROVE  LET pi == Statement(inst)
               g == Skeleton(inst)
               dv == deferred(Transcript(inst), g, branch_data)
           IN  /\ IsArray(pi) /\ Len(pi) = StepIpaRounds + 24
               /\ \A i \in 1..13 : pi[i] = first_slots(dv, StepMessage(inst), WrapMessage(inst))[i]
               /\ \A i \in 1..StepIpaRounds : pi[13 + i] = fp_to_fq(g.bulletproof_challenges[i])
               /\ pi[StepIpaRounds + 14]
                    = fq_from(4 * inst.log2 + <<0, 2, 3>>[Len(inst.prevs) + 1])
               /\ \A i \in 1..10 : pi[StepIpaRounds + 14 + i] = fq_from(0)
<1>. DEFINE S == StepIpaRounds
            pi == Statement(inst)
            g == Skeleton(inst)
            t == Transcript(inst)
            dv == deferred(t, g, branch_data)
            bp == Effective(g.bulletproof_challenges, VestaEndo.scalar)
            cip == CombinedInnerProduct(OracleV(t), OracleU(t), OpeningTable(inst, t))
            b == LinComb(BPoly(bp, t.zeta), OracleU(t),
                         BPoly(bp, TimesGenerator(t.zeta, inst.log2)))
            perm == PermScalars(Combine(t.evals, t.zeta, t.max_poly_size), t.beta, t.gamma,
                       <<t.powers_of_alpha, t.alpha>>, <<t.zeta, inst.log2, 3>>)
            slot == <<<<"type1", cip>>, <<"type1", b>>, <<"type1", PowTwoTo(t.zeta, S)>>,
                      <<"type1", PowTwoTo(t.zeta, inst.log2)>>, <<"type1", perm>>,
                      <<"fq", t.beta>>, <<"fq", t.gamma>>, <<"fq", <<"alpha", inst.id>>>>,
                      <<"fq", <<"zeta", inst.id>>>>, <<"fq", OracleVChal(t)>>, <<"fq", t.digest>>,
                      WrapMessage(inst), <<"fq", StepMessage(inst)>>>>
            packed == 4 * inst.log2 + <<0, 2, 3>>[Len(inst.prevs) + 1]
<1>0. S \in Nat /\ S >= 1
  BY RoundsAssumption
<1>1. pi = [i \in 1..(S + 24) |->
              CASE i <= 13 -> slot[i]
                [] i \in 14..(S + 13) -> <<"fq", <<"bp", inst.id, i - 13>>>>
                [] i = S + 14 -> <<"fq_nat", packed>>
                [] OTHER -> <<"fq_nat", 0>>]
  BY Zenon DEF Statement
<1>2. /\ t.domain = inst.log2 /\ t.max_poly_size = S /\ t.powers_of_alpha = <<"alphas", "Fp">>
      /\ t.beta = g.plonk.beta /\ t.gamma = g.plonk.gamma /\ t.digest = g.sponge_digest
      /\ g.plonk.alpha = <<"alpha", inst.id>> /\ g.plonk.zeta = <<"zeta", inst.id>>
      /\ t.evals = StepEvaluations(inst) /\ t.prev_challenges = StepChallenges(inst)
  BY DEF Transcript, Skeleton
<1>3. bp = expand(g.bulletproof_challenges, VestaEndo.scalar)
      /\ \A i \in 1..S : g.bulletproof_challenges[i] = <<"bp", inst.id, i>>
  BY InstanceChallenges
<1>4. OpeningTable(inst, t)
        = evaluation_table(OraclePolys(t.prev_challenges, t), t.evals, FtEval0(t), t.ft_eval1)
  <2>1. IsArray(t.prev_challenges)
    <3>1. StepChallenges(inst) = [i \in 1..Len(inst.prevs) |-> StepChallenges(inst)[i]]
      BY DEF StepChallenges
    <3>2. Len(inst.prevs) \in Nat
      BY InstancePrevs
    <3>3. IsArray(StepChallenges(inst))
      BY <3>1, <3>2, FunctionArray
    <3>. QED  BY <1>2, <3>3
  <2>. HIDE DEF t
  <2>2. evaluation_table(OraclePolys(t.prev_challenges, t), StepEvaluations(inst),
                         FtEval0(t), t.ft_eval1) = OpeningTable(inst, t)
    BY <2>1, InstanceTable
  <2>3. t.evals = StepEvaluations(inst)
    BY <1>2
  <2>. QED  BY <2>2, <2>3, Zenon
<1>. HIDE DEF t, g, bp
<1>5. slot = first_slots(dv, StepMessage(inst), WrapMessage(inst))
  <2>1. cip = dv.combined_inner_product /\ b = dv.b /\ perm = dv.perm
    BY <1>2, <1>3, <1>4 DEF deferred
  <2>2. /\ PowTwoTo(t.zeta, S) = dv.zeta_to_srs_length
        /\ PowTwoTo(t.zeta, inst.log2) = dv.zeta_to_domain_size
        /\ t.beta = dv.beta /\ t.gamma = dv.gamma /\ <<"alpha", inst.id>> = dv.alpha
        /\ <<"zeta", inst.id>> = dv.zeta /\ OracleVChal(t) = dv.xi /\ t.digest = dv.sponge_digest
    BY <1>2 DEF deferred
  <2>. HIDE DEF dv, cip, b, perm
  <2>. QED  BY <2>1, <2>2, Zenon DEF first_slots, cross_field_type1, fp_to_fq
<1>. HIDE DEF slot, dv, packed, pi
<1>6. IsArray(pi) /\ Len(pi) = S + 24
  <2>1. pi = [i \in 1..(S + 24) |-> pi[i]] /\ S + 24 \in Nat
    BY <1>0, <1>1
  <2>. QED  BY <2>1, FunctionArray
<1>7. ASSUME NEW i \in 1..13  PROVE pi[i] = slot[i]
  <2>1. i \in 1..(S + 24) /\ i <= 13 /\ ~(i \in 14..(S + 13)) /\ i # S + 14
    BY <1>0
  <2>. QED  BY <1>1, <2>1
<1>8. ASSUME NEW i \in 1..S  PROVE pi[13 + i] = fp_to_fq(g.bulletproof_challenges[i])
  <2>1. /\ 13 + i \in 1..(S + 24) /\ ~(13 + i <= 13) /\ 13 + i \in 14..(S + 13)
        /\ 13 + i # S + 14 /\ (13 + i) - 13 = i
    BY <1>0
  <2>2. pi[13 + i] = <<"fq", <<"bp", inst.id, i>>>>
    BY <1>1, <2>1
  <2>. QED  BY <1>3, <2>2 DEF fp_to_fq
<1>9. pi[S + 14] = fq_from(packed)
  <2>1. /\ S + 14 \in 1..(S + 24) /\ ~(S + 14 <= 13) /\ ~(S + 14 \in 14..(S + 13))
    BY <1>0
  <2>. QED  BY <1>1, <2>1 DEF fq_from
<1>10. ASSUME NEW i \in 1..10  PROVE pi[S + 14 + i] = fq_from(0)
  <2>1. /\ S + 14 + i \in 1..(S + 24) /\ ~(S + 14 + i <= 13) /\ ~(S + 14 + i \in 14..(S + 13))
        /\ S + 14 + i # S + 14
    BY <1>0
  <2>. QED  BY <1>1, <2>1 DEF fq_from
<1>11. \A i \in 1..13 : pi[i] = first_slots(dv, StepMessage(inst), WrapMessage(inst))[i]
  BY <1>5, <1>7
<1>. QED  BY <1>6, <1>8, <1>9, <1>10, <1>11 DEF pi, g, dv, t, packed

-----------------------------------------------------------------------------
\* The packed branch data pins the domain and the number of previous proofs
\* (pack_branch_data).
LEMMA BranchPins ==
    ASSUME NEW bd, NEW tag \in Tags, NEW d \in Nat, NEW k \in Nat, NEW n \in Nat, n <= 2,
           bd.domain_log2 = d, bd.mask = proofs_verified_mask(tag)
    PROVE  pack_branch_data(bd) = fq_from(4 * k + <<0, 2, 3>>[n + 1])
             <=> d = k /\ tag = <<"N0", "N1", "N2">>[n + 1]
<1>. DEFINE m == bit(bd.mask[1]) + 2 * bit(bd.mask[2])
            q == <<0, 2, 3>>[n + 1]
<1>1. /\ tag = "N0" => m = 0
      /\ tag = "N1" => m = 2
      /\ tag = "N2" => m = 3
  BY DEF proofs_verified_mask, bit, Tags
<1>2. n = 0 \/ n = 1 \/ n = 2
  OBVIOUS
<1>3. /\ n = 0 => q = 0 /\ <<"N0", "N1", "N2">>[n + 1] = "N0"
      /\ n = 1 => q = 2 /\ <<"N0", "N1", "N2">>[n + 1] = "N1"
      /\ n = 2 => q = 3 /\ <<"N0", "N1", "N2">>[n + 1] = "N2"
  OBVIOUS
<1>4. tag = "N0" \/ tag = "N1" \/ tag = "N2"
  BY DEF Tags
<1>5. m \in Nat /\ m <= 3 /\ q \in Nat /\ q <= 3
  BY <1>1, <1>2, <1>3, <1>4
<1>6. m = q <=> tag = <<"N0", "N1", "N2">>[n + 1]
  BY <1>1, <1>2, <1>3, <1>4
<1>7. pack_branch_data(bd) = fq_from(4 * d + m)
  <2>1. bit(bd.mask[1]) \in Int /\ bit(bd.mask[2]) \in Int
    BY DEF bit
  <2>2. 4 * d + bit(bd.mask[1]) + 2 * bit(bd.mask[2]) = 4 * d + m
    BY <2>1
  <2>. QED  BY <2>2 DEF pack_branch_data
<1>. HIDE DEF m, q
<1>8. fq_from(4 * d + m) = fq_from(4 * k + q) <=> 4 * d + m = 4 * k + q
  BY DEF fq_from
<1>9. 4 * d + m = 4 * k + q <=> d = k /\ m = q
  BY <1>5
<1>. QED  BY <1>6, <1>7, <1>8, <1>9 DEF q

\* The slots of a public input pin the transcript, both digests, the challenges and the
\* branch data (wrap_public_input).
LEMMA SlotsPin ==
    ASSUME NEW t, NEW u, NEW s, NEW g, NEW bd, NEW bg, NEW sd, NEW sg, NEW wd, NEW wg
    PROVE  LET a == first_slots(deferred(t, s, bd), sd, wd)
               b == first_slots(deferred(u, g, bg), sg, wg)
           IN  /\ (\A i \in 1..13 : a[i] = b[i]) =>
                     /\ t = u /\ sd = sg /\ wd = wg
                     /\ s.plonk.alpha = g.plonk.alpha /\ s.plonk.beta = g.plonk.beta
                     /\ s.plonk.gamma = g.plonk.gamma /\ s.plonk.zeta = g.plonk.zeta
                     /\ s.sponge_digest = g.sponge_digest
               /\ (/\ t = u /\ sd = sg /\ wd = wg /\ s.plonk = g.plonk
                   /\ s.sponge_digest = g.sponge_digest
                   /\ s.bulletproof_challenges = g.bulletproof_challenges)
                    => a = b
<1>. DEFINE x == deferred(t, s, bd)
            y == deferred(u, g, bg)
            a == first_slots(x, sd, wd)
            b == first_slots(y, sg, wg)
<1>1. ASSUME \A i \in 1..13 : a[i] = b[i]
      PROVE  /\ t = u /\ sd = sg /\ wd = wg
             /\ s.plonk.alpha = g.plonk.alpha /\ s.plonk.beta = g.plonk.beta
             /\ s.plonk.gamma = g.plonk.gamma /\ s.plonk.zeta = g.plonk.zeta
             /\ s.sponge_digest = g.sponge_digest
  <2>1. /\ a[6] = <<"fq", x.beta>> /\ a[7] = <<"fq", x.gamma>> /\ a[8] = <<"fq", x.alpha>>
        /\ a[9] = <<"fq", x.zeta>> /\ a[10] = <<"fq", x.xi>> /\ a[11] = <<"fq", x.sponge_digest>>
        /\ a[12] = wd /\ a[13] = <<"fq", sd>>
    BY DEF first_slots, fp_to_fq
  <2>2. /\ b[6] = <<"fq", y.beta>> /\ b[7] = <<"fq", y.gamma>> /\ b[8] = <<"fq", y.alpha>>
        /\ b[9] = <<"fq", y.zeta>> /\ b[10] = <<"fq", y.xi>> /\ b[11] = <<"fq", y.sponge_digest>>
        /\ b[12] = wg /\ b[13] = <<"fq", sg>>
    BY DEF first_slots, fp_to_fq
  <2>3. /\ a[6] = b[6] /\ a[7] = b[7] /\ a[8] = b[8] /\ a[9] = b[9] /\ a[10] = b[10]
        /\ a[11] = b[11] /\ a[12] = b[12] /\ a[13] = b[13]
    <3>. HIDE DEF a, b
    <3>. QED  BY <1>1
  <2>4. /\ x.beta = s.plonk.beta /\ x.gamma = s.plonk.gamma /\ x.alpha = s.plonk.alpha
        /\ x.zeta = s.plonk.zeta /\ x.xi = <<"v_chal", t>> /\ x.sponge_digest = s.sponge_digest
    BY DEF deferred, OracleVChal
  <2>5. /\ y.beta = g.plonk.beta /\ y.gamma = g.plonk.gamma /\ y.alpha = g.plonk.alpha
        /\ y.zeta = g.plonk.zeta /\ y.xi = <<"v_chal", u>> /\ y.sponge_digest = g.sponge_digest
    BY DEF deferred, OracleVChal
  <2>. HIDE DEF a, b, x, y
  <2>. QED  BY <2>1, <2>2, <2>3, <2>4, <2>5
<1>2. ASSUME t = u, sd = sg, wd = wg, s.plonk = g.plonk, s.sponge_digest = g.sponge_digest,
             s.bulletproof_challenges = g.bulletproof_challenges
      PROVE  a = b
  BY <1>2, Zenon DEF first_slots, deferred
<1>. QED  BY <1>1, <1>2

-----------------------------------------------------------------------------
\* Four files that the verifier cannot tell from those of an instance, field by field.
Matches(f, inst) ==
    LET s == f.skeleton
        g == Skeleton(inst)
    IN  /\ first_chunks(f.vk) = first_chunks(inst.vk) /\ f.stmt = inst.stmt
        /\ s.plonk = g.plonk /\ s.bulletproof_challenges = g.bulletproof_challenges
        /\ s.domain_log2 % 256 = inst.log2 /\ s.proofs_verified = g.proofs_verified
        /\ s.sponge_digest = g.sponge_digest /\ s.cpc = g.cpc
        /\ s.prev_evals = g.prev_evals /\ s.prev_step_chals = g.prev_step_chals
        /\ Len(inst.prevs) <= Len(s.prev_step_sgs)
        /\ \A i \in 1..Len(inst.prevs) : s.prev_step_sgs[i] = g.prev_step_sgs[i]
        /\ slots(s.prev_wrap_chals) = slots(g.prev_wrap_chals)

\* The two digests pin the key's commitments, the statement, the commitments and challenges of
\* the previous proofs and the commitment to the accumulator (hash_messages_for_next_step,
\* hash_messages_for_next_wrap).
LEMMA DigestsPin ==
    ASSUME NEW f, IsKey(f.vk), IsSkeleton(f.skeleton), converts(f), NEW inst, IsInstance(inst),
           f.skeleton.prev_step_chals = Skeleton(inst).prev_step_chals
    PROVE  LET s == f.skeleton
               g == Skeleton(inst)
           IN  /\ step_digest_of(f) = StepMessage(inst) <=>
                     /\ first_chunks(f.vk) = first_chunks(inst.vk) /\ f.stmt = inst.stmt
                     /\ Len(inst.prevs) <= Len(s.prev_step_sgs)
                     /\ \A i \in 1..Len(inst.prevs) : s.prev_step_sgs[i] = g.prev_step_sgs[i]
               /\ wrap_digest_of(s) = WrapMessage(inst) <=>
                     slots(s.prev_wrap_chals) = slots(g.prev_wrap_chals) /\ s.cpc = g.cpc
<1>. DEFINE s == f.skeleton
            g == Skeleton(inst)
            n == Len(inst.prevs)
            sgs == s.prev_step_sgs
            chals == s.prev_step_chals
            m == zipped(sgs, chals)
<1>1. IsArray(sgs) /\ IsStepVectors(chals) /\ IsWrapVectors(s.prev_wrap_chals)
  BY DEF IsSkeleton, converts, parses, IsStepVectors, IsWrapVectors
<1>2. n \in Nat /\ Len(g.prev_step_chals) = n
  BY InstancePrevs
<1>3. Len(sgs) \in Nat /\ Len(chals) = n
  BY <1>1, <1>2, ArrayDomain
<1>4. m \in Nat /\ (m = n <=> n <= Len(sgs))
  BY <1>2, <1>3 DEF zipped
<1>5. step_digest_of(f) = step_hash(first_chunks(f.vk), f.stmt, sgs, chals, m)
  BY <1>1, StepDigest
<1>6. StepMessage(inst) = step_hash(first_chunks(inst.vk), inst.stmt, g.prev_step_sgs,
                                    g.prev_step_chals, n)
  BY InstanceStepDigest
<1>7. /\ IsArray(first_chunks(f.vk)) /\ IsArray(first_chunks(inst.vk))
      /\ Len(first_chunks(f.vk)) = Len(first_chunks(inst.vk))
  <2>1. IsKey(inst.vk)
    BY DEF IsInstance
  <2>. QED  BY <2>1, KeyCommitments
<1>8. step_hash(first_chunks(f.vk), f.stmt, sgs, chals, m)
        = step_hash(first_chunks(inst.vk), inst.stmt, g.prev_step_sgs, g.prev_step_chals, n)
      <=> /\ first_chunks(f.vk) = first_chunks(inst.vk) /\ f.stmt = inst.stmt /\ m = n
          /\ \A i \in 1..m : /\ sgs[i] = g.prev_step_sgs[i]
                             /\ \A j \in 1..StepIpaRounds : chals[i][j] = g.prev_step_chals[i][j]
  <2>. DEFINE c == first_chunks(f.vk)
              d == first_chunks(inst.vk)
              gs == g.prev_step_sgs
              gc == g.prev_step_chals
              x == f.stmt
              y == inst.stmt
  <2>1. IsArray(c) /\ IsArray(d) /\ Len(c) = Len(d) /\ m \in Nat /\ n \in Nat
    BY <1>2, <1>4, <1>7
  <2>. HIDE DEF g, m, n, c, d, gs, gc, x, y, sgs, chals
  <2>2. StepHashAgrees(c, x, sgs, chals, m, d, y, gs, gc, n)
    BY <2>1, StepHashPins
  <2>. QED  BY <2>2, Zenon DEF StepHashAgrees, c, d, gs, gc, x, y
<1>9. step_digest_of(f) = StepMessage(inst) <=>
        /\ first_chunks(f.vk) = first_chunks(inst.vk) /\ f.stmt = inst.stmt
        /\ n <= Len(sgs) /\ \A i \in 1..n : sgs[i] = g.prev_step_sgs[i]
  <2>. HIDE DEF g, m
  <2>1. chals = g.prev_step_chals
    BY DEF g
  <2>. QED  BY <1>4, <1>5, <1>6, <1>8, <2>1
<1>10. wrap_digest_of(s) = WrapMessage(inst) <=>
         slots(s.prev_wrap_chals) = slots(g.prev_wrap_chals) /\ s.cpc = g.cpc
  <2>1. wrap_digest_of(s) = wrap_hash(s.prev_wrap_chals, s.cpc)
    BY <1>1, WrapDigest
  <2>2. WrapMessage(inst) = wrap_hash(g.prev_wrap_chals, g.cpc) /\ IsWrapVectors(g.prev_wrap_chals)
    BY InstanceWrapDigest, InstanceWraps
  <2>. HIDE DEF g
  <2>. QED  BY <1>1, <2>1, <2>2, WrapHashPins
<1>. QED  BY <1>9, <1>10

\* The public input rebuilt from the wire is the statement of an instance exactly when the
\* files match that instance (expand_deferred, wrap_public_input).
LEMMA PublicInputPins ==
    ASSUME NEW f, IsKey(f.vk), IsSkeleton(f.skeleton), converts(f), NEW key,
           NEW inst, IsInstance(inst)
    PROVE  public_input_of(verifier_of(key), verifiable(f).value) = Statement(inst)
             <=> Matches(f, inst)
<1>. DEFINE S == StepIpaRounds
            s == f.skeleton
            g == Skeleton(inst)
            p == verifiable(f).value
            t == transcript(s)
            u == Transcript(inst)
            n == Len(inst.prevs)
            dv == deferred(t, s, p.branch_data)
            du == deferred(u, g, p.branch_data)
            sd == step_digest_of(f)
            wd == wrap_digest_of(s)
            pi == public_input_of(verifier_of(key), p)
            stmt == Statement(inst)
<1>0. S \in Nat /\ S >= 1
  BY RoundsAssumption
<1>1. pi = wrap_public_input(dv, sd, wd)
  <2>1. p.step_digest = sd /\ p.wrap_digest = wd
    BY Converted
  <2>2. expand_deferred(verifier_of(key), p) = dv
    BY Deferred
  <2>. QED  BY <2>1, <2>2, Zenon DEF public_input_of
<1>2. /\ dv.bulletproof_prechallenges = s.bulletproof_challenges
      /\ dv.branch_data = p.branch_data
  BY DEF deferred
<1>3. IsArray(s.bulletproof_challenges) /\ Len(s.bulletproof_challenges) = S
      /\ s.proofs_verified \in Tags /\ s.domain_log2 \in Nat
  BY DEF IsSkeleton, converts, parses
<1>4. /\ IsArray(g.bulletproof_challenges) /\ Len(g.bulletproof_challenges) = S
  BY InstanceChallenges
<1>5. n \in Nat /\ n <= 2 /\ inst.log2 \in Nat /\ inst.log2 <= 32
  <2>1. n \in Nat /\ n <= 2
    BY InstancePrevs
  <2>2. inst.log2 \in 0..32
    BY DEF IsInstance, TwoAdicity
  <2>3. inst.log2 \in Nat /\ inst.log2 <= 32
    BY <2>2
  <2>. QED  BY <2>1, <2>3, Zenon
<1>6. g.proofs_verified = <<"N0", "N1", "N2">>[n + 1]
  BY DEF Skeleton
<1>7. pack_branch_data(p.branch_data) = fq_from(4 * inst.log2 + <<0, 2, 3>>[n + 1])
        <=> s.domain_log2 % 256 = inst.log2 /\ s.proofs_verified = g.proofs_verified
  <2>1. p.branch_data.domain_log2 = s.domain_log2 % 256
        /\ p.branch_data.mask = proofs_verified_mask(s.proofs_verified)
    BY Converted
  <2>2. s.domain_log2 % 256 \in Nat
    BY <1>3
  <2>. HIDE DEF p, g
  <2>. QED  BY <1>3, <1>5, <1>6, <2>1, <2>2, BranchPins, SMTT(30)
<1>8. /\ IsArray(pi) /\ Len(pi) = S + 24
      /\ \A i \in 1..13 : pi[i] = first_slots(dv, sd, wd)[i]
      /\ \A i \in 1..S : pi[13 + i] = fp_to_fq(s.bulletproof_challenges[i])
      /\ pi[S + 14] = pack_branch_data(p.branch_data)
      /\ \A i \in 1..10 : pi[S + 14 + i] = fq_from(0)
  <2>. HIDE DEF dv, pi, sd, wd, p
  <2>1. IsArray(dv.bulletproof_prechallenges) /\ Len(dv.bulletproof_prechallenges) = S
    BY <1>2, <1>3
  <2>2. LET w == wrap_public_input(dv, sd, wd) IN
        /\ IsArray(w) /\ Len(w) = S + 24
        /\ \A i \in 1..13 : w[i] = first_slots(dv, sd, wd)[i]
        /\ \A i \in 1..S : w[13 + i] = fp_to_fq(dv.bulletproof_prechallenges[i])
        /\ w[S + 14] = pack_branch_data(dv.branch_data)
        /\ \A i \in 1..10 : w[S + 14 + i] = fq_from(0)
    BY <2>1, PublicInputSlots
  <2>. QED  BY <1>1, <1>2, <2>2
<1>9. /\ IsArray(stmt) /\ Len(stmt) = S + 24
      /\ \A i \in 1..13 : stmt[i] = first_slots(du, StepMessage(inst), WrapMessage(inst))[i]
      /\ \A i \in 1..S : stmt[13 + i] = fp_to_fq(g.bulletproof_challenges[i])
      /\ stmt[S + 14] = fq_from(4 * inst.log2 + <<0, 2, 3>>[n + 1])
      /\ \A i \in 1..10 : stmt[S + 14 + i] = fq_from(0)
  BY StatementSlots
<1>10. t = u <=>
         /\ (s.domain_log2 % 256) % 64 = inst.log2
         /\ s.sponge_digest = g.sponge_digest /\ s.plonk = g.plonk
         /\ s.prev_step_chals = g.prev_step_chals /\ s.prev_evals = g.prev_evals
  BY TranscriptPins DEF converts
<1>11. s.prev_step_chals = g.prev_step_chals =>
         /\ sd = StepMessage(inst) <=>
               /\ first_chunks(f.vk) = first_chunks(inst.vk) /\ f.stmt = inst.stmt
               /\ Len(inst.prevs) <= Len(s.prev_step_sgs)
               /\ \A i \in 1..Len(inst.prevs) : s.prev_step_sgs[i] = g.prev_step_sgs[i]
         /\ wd = WrapMessage(inst) <=>
               slots(s.prev_wrap_chals) = slots(g.prev_wrap_chals) /\ s.cpc = g.cpc
  BY DigestsPin
<1>. HIDE DEF g, p, t, u, n, dv, du, sd, wd, pi, stmt
<1>12. ASSUME pi = stmt  PROVE Matches(f, inst)
  <2>1. \A i \in 1..13 :
           first_slots(dv, sd, wd)[i] = first_slots(du, StepMessage(inst), WrapMessage(inst))[i]
    BY <1>8, <1>9, <1>12
  <2>2. t = u /\ sd = StepMessage(inst) /\ wd = WrapMessage(inst)
    BY <2>1, SlotsPin DEF dv, du
  <2>3. s.bulletproof_challenges = g.bulletproof_challenges
    <3>1. ASSUME NEW i \in 1..S  PROVE s.bulletproof_challenges[i] = g.bulletproof_challenges[i]
      <4>1. fp_to_fq(s.bulletproof_challenges[i]) = fp_to_fq(g.bulletproof_challenges[i])
        BY <1>8, <1>9, <1>12
      <4>. QED  BY <4>1 DEF fp_to_fq
    <3>. QED  BY <1>3, <1>4, <3>1, SameArray
  <2>4. s.domain_log2 % 256 = inst.log2 /\ s.proofs_verified = g.proofs_verified
    BY <1>7, <1>8, <1>9, <1>12
  <2>. QED  BY <1>10, <1>11, <2>2, <2>3, <2>4 DEF Matches, g
<1>13. ASSUME Matches(f, inst)  PROVE pi = stmt
  <2>1. /\ first_chunks(f.vk) = first_chunks(inst.vk) /\ f.stmt = inst.stmt
        /\ s.plonk = g.plonk /\ s.bulletproof_challenges = g.bulletproof_challenges
        /\ s.domain_log2 % 256 = inst.log2 /\ s.proofs_verified = g.proofs_verified
        /\ s.sponge_digest = g.sponge_digest /\ s.cpc = g.cpc
        /\ s.prev_evals = g.prev_evals /\ s.prev_step_chals = g.prev_step_chals
        /\ Len(inst.prevs) <= Len(s.prev_step_sgs)
        /\ \A i \in 1..Len(inst.prevs) : s.prev_step_sgs[i] = g.prev_step_sgs[i]
        /\ slots(s.prev_wrap_chals) = slots(g.prev_wrap_chals)
    BY <1>13 DEF Matches, g
  <2>2. inst.log2 % 64 = inst.log2
    BY <1>5
  <2>3. t = u /\ sd = StepMessage(inst) /\ wd = WrapMessage(inst)
    BY <1>10, <1>11, <2>1, <2>2
  <2>4. first_slots(dv, sd, wd) = first_slots(du, StepMessage(inst), WrapMessage(inst))
    BY <2>1, <2>3, SlotsPin DEF dv, du
  <2>5. ASSUME NEW i \in 1..(S + 24)  PROVE pi[i] = stmt[i]
    <3>1. CASE i <= 13
      BY <1>8, <1>9, <2>4, <3>1
    <3>2. CASE i > 13 /\ i <= S + 13
      <4>1. i - 13 \in 1..S /\ 13 + (i - 13) = i
        BY <1>0, <3>2
      <4>. QED  BY <1>8, <1>9, <2>1, <4>1
    <3>3. CASE i = S + 14
      BY <1>7, <1>8, <1>9, <2>1, <3>3
    <3>4. CASE i > S + 14
      <4>1. i - (S + 14) \in 1..10 /\ S + 14 + (i - (S + 14)) = i
        BY <1>0, <3>4
      <4>. QED  BY <1>8, <1>9, <4>1
    <3>. QED  BY <1>0, <3>1, <3>2, <3>3, <3>4
  <2>. QED  BY <1>8, <1>9, <2>5, SameArray
<1>. QED  BY <1>12, <1>13 DEF pi, p, stmt

-----------------------------------------------------------------------------
\* One proof passes all three stages (lib.rs).
passes(v, p) == accumulator_check(v, p) /\ step_domain_exists(p) /\ kimchi_accepts(v, p)

\* A verification key completed by Verifier::new is the index the wrap prover holds, and of no
\* other key (Verifier::new).
LEMMA IndexPins ==
    ASSUME NEW key, NEW vk
    PROVE  CompleteIndex(vk) = verifier_of(key).wrap_vk <=> key = vk
<1>1. verifier_of(key).wrap_vk =
        [file |-> key, srs |-> PallasSrs, linearization |-> <<"lin", "Fq">>,
         powers_of_alpha |-> <<"alphas", "Fq">>, endo |-> VestaEndo.base]
  BY DEF verifier_of, Verifier_new, ExprLinearization, wrap_vk_endo
<1>. QED  BY <1>1 DEF CompleteIndex

\* The commitment to the accumulator of an instance passes the MSM (accumulator_check).
LEMMA AccumulatorOfInstance ==
    ASSUME NEW p, NEW key, NEW inst,
           p.raw_bulletproof_challenges = Skeleton(inst).bulletproof_challenges,
           p.cpc = Skeleton(inst).cpc
    PROVE  accumulator_check(verifier_of(key), p)
<1>. DEFINE bp == Skeleton(inst).bulletproof_challenges
            chals == expand(bp, VestaEndo.scalar)
            S == StepIpaRounds
<1>1. /\ verifier_of(key).step_endo = VestaEndo.scalar
      /\ verifier_of(key).vesta_srs = [points |-> "vesta", len |-> 2 ^ S]
  BY DEF verifier_of, Verifier_new, VestaSrs
<1>2. Len(chals) = S
  <2>1. chals = [i \in 1..S |-> chals[i]]
    <3>1. IsArray(bp) /\ Len(bp) = S
      BY InstanceChallenges
    <3>. HIDE DEF bp
    <3>2. DOMAIN bp = 1..S
      BY <3>1, ArrayDomain
    <3>. QED  BY <3>2 DEF expand
  <2>2. S \in Nat
    BY RoundsAssumption
  <2>. HIDE DEF chals
  <2>. QED  BY <2>1, <2>2, FunctionArray
<1>3. Skeleton(inst).cpc = ComputeSg(chals, "vesta", 2 ^ S)
  <2>1. Skeleton(inst).cpc = ComputeSg(Effective(bp, VestaEndo.scalar), "vesta", 2 ^ S)
    BY DEF Skeleton
  <2>2. Effective(bp, VestaEndo.scalar) = chals
    BY InstanceChallenges
  <2>. QED  BY <2>1, <2>2, Zenon
<1>. DEFINE n == 2 ^ S
            g == [points |-> "vesta", len |-> n]
<1>4. g.points = "vesta" /\ g.len = n
  OBVIOUS
<1>5. /\ expand(p.raw_bulletproof_challenges, verifier_of(key).step_endo) = chals
      /\ verifier_of(key).vesta_srs = g
  BY <1>1
<1>6. 2 ^ Len(chals) = n
  BY <1>2
<1>7. ComputeSg(chals, g.points, IF n <= g.len THEN n ELSE g.len) = p.cpc
  BY <1>3, <1>4
<1>. HIDE DEF chals, n, g
<1>. QED  BY <1>5, <1>6, <1>7, Zenon DEF accumulator_check

\* A converted proof passes exactly when the key is the instance's and the files match it: the
\* three checks together pin everything the verifier reads (verify).
LEMMA PassesExactlyMatches ==
    ASSUME NEW f, IsKey(f.vk), IsSkeleton(f.skeleton), converts(f), NEW key,
           NEW inst, IsInstance(inst), f.proof = WrapProof(inst)
    PROVE  passes(verifier_of(key), verifiable(f).value) <=> key = inst.vk /\ Matches(f, inst)
<1>. DEFINE s == f.skeleton
            g == Skeleton(inst)
            p == verifiable(f).value
            v == verifier_of(key)
<1>1. /\ p.wrap_proof = WrapProof(inst) /\ p.cpc = s.cpc
      /\ p.raw_bulletproof_challenges = s.bulletproof_challenges
      /\ p.step_domain_log2 = s.domain_log2 % 256
  BY Converted
<1>2. kimchi_accepts(v, p) <=>
        CompleteIndex(inst.vk) = v.wrap_vk /\ Statement(inst) = public_input_of(v, p)
  <2>1. WrapProof(inst).index = CompleteIndex(inst.vk) /\ WrapProof(inst).public = Statement(inst)
    BY DEF WrapProof
  <2>. HIDE DEF p, v
  <2>. QED  BY <1>1, <2>1 DEF kimchi_accepts, KimchiAccepts
<1>3. kimchi_accepts(v, p) <=> key = inst.vk /\ Matches(f, inst)
  <2>1. public_input_of(v, p) = Statement(inst) <=> Matches(f, inst)
    BY PublicInputPins
  <2>2. CompleteIndex(inst.vk) = v.wrap_vk <=> key = inst.vk
    BY IndexPins
  <2>. HIDE DEF v, p
  <2>. QED  BY <1>2, <2>1, <2>2
<1>4. ASSUME Matches(f, inst)  PROVE accumulator_check(v, p)
  <2>1. s.cpc = g.cpc /\ s.bulletproof_challenges = g.bulletproof_challenges
    BY <1>4 DEF Matches
  <2>2. p.cpc = g.cpc /\ p.raw_bulletproof_challenges = g.bulletproof_challenges
    BY <1>1, <2>1
  <2>. HIDE DEF p, g
  <2>. QED  BY <2>2, AccumulatorOfInstance DEF g
<1>5. ASSUME Matches(f, inst)  PROVE step_domain_exists(p)
  <2>1. s.domain_log2 % 256 = inst.log2
    BY <1>5 DEF Matches
  <2>2. inst.log2 \in 0..32
    BY DEF IsInstance, TwoAdicity
  <2>3. inst.log2 % 64 <= 32
    BY <2>2
  <2>. QED  BY <1>1, <2>1, <2>3 DEF step_domain_exists, domain_shift, UsizeBits, TwoAdicity
<1>. QED  BY <1>3, <1>4, <1>5 DEF passes

\* A batch is accepted exactly when each of its proofs passes (verify_batch).
LEMMA BatchPasses ==
    ASSUME NEW v, NEW ps
    PROVE  verify_batch(v, ps) = "true" <=> \A i \in DOMAIN ps : passes(v, ps[i])
  BY DEF verify_batch, passes

\* A proof alone is accepted exactly when it passes (verify).
LEMMA SinglePasses ==
    ASSUME NEW v, NEW p
    PROVE  verify(v, p) = "true" <=> passes(v, p)
<1>1. DOMAIN <<p>> = {1} /\ <<p>>[1] = p
  OBVIOUS
<1>2. verify_batch(v, <<p>>) = "true" <=> \A i \in DOMAIN <<p>> : passes(v, <<p>>[i])
  BY BatchPasses
<1>. QED  BY <1>1, <1>2 DEF verify

-----------------------------------------------------------------------------
\* A dumped evaluation is a pair of as many chunks (external: the dump tools).
LEMMA EvalShape ==
    ASSUME NEW name, NEW id
    PROVE  IsArray(Eval(name, id)) /\ Len(Eval(name, id)) = 2 /\ is_chunked(Eval(name, id))
<1>. DEFINE e == Eval(name, id)
            a == <<<<name, "zeta", id>>>>
            b == <<<<name, "omega", id>>>>
<1>1. e = [i \in 1..2 |-> e[i]] /\ e[1] = a /\ e[2] = b
  BY DEF Eval
<1>2. Len(a) = 1 /\ Len(b) = 1
  OBVIOUS
<1>. HIDE DEF e, a, b
<1>3. IsArray(e) /\ Len(e) = 2
  BY <1>1, FunctionArray
<1>4. is_chunked(e)
  BY <1>1, <1>2, <1>3 DEF is_chunked
<1>. QED  BY <1>3, <1>4 DEF e

\* Dumped columns are as many pairs (external: the dump tools).
LEMMA EvalsShape ==
    ASSUME NEW name, NEW id, NEW n \in Nat
    PROVE  IsArrays(Evals(name, id, n)) /\ is_fixed(Evals(name, id, n), n)
<1>. DEFINE e == Evals(name, id, n)
<1>1. e = [i \in 1..n |-> Eval(<<name, i>>, id)]
  BY DEF Evals
<1>. HIDE DEF e
<1>2. e = [i \in 1..n |-> e[i]]
  BY <1>1
<1>3. IsArray(e) /\ Len(e) = n /\ DOMAIN e = 1..n
  BY <1>2, FunctionArray
<1>4. \A i \in 1..n : IsArray(e[i]) /\ is_chunked(e[i])
  BY <1>1, EvalShape
<1>. QED  BY <1>3, <1>4 DEF IsArrays, is_fixed, e

\* The evaluations of an instance have the shape that is asked for (parse_all_evals).
LEMMA InstanceEvals ==
    ASSUME NEW inst
    PROVE  IsEvals(DumpedEvals(inst)) /\ has_all_evals(DumpedEvals(inst))
<1>. DEFINE d == DumpedEvals(inst)
            id == inst.id
            sel == d.selectors
            pub == <<<<"pub", "zeta", id>>, <<"pub", "omega", id>>>>
<1>0. Columns \in Nat /\ Sigmas \in Nat
  BY RoundsAssumption
<1>1. /\ d.public_input = pub /\ d.z = Eval("z", id)
      /\ d.w = Evals("w", id, Columns) /\ d.coefficients = Evals("coefficients", id, Columns)
      /\ d.s = Evals("s", id, Sigmas)
  BY DEF DumpedEvals
<1>2. /\ sel.generic_selector = Eval("generic_selector", id)
      /\ sel.poseidon_selector = Eval("poseidon_selector", id)
      /\ sel.complete_add_selector = Eval("complete_add_selector", id)
      /\ sel.mul_selector = Eval("mul_selector", id)
      /\ sel.emul_selector = Eval("emul_selector", id)
      /\ sel.endomul_scalar_selector = Eval("endomul_scalar_selector", id)
  BY DEF DumpedEvals
<1>3. d = [ft_eval1 |-> d.ft_eval1, public_input |-> d.public_input, z |-> d.z, w |-> d.w,
           coefficients |-> d.coefficients, s |-> d.s, selectors |-> d.selectors]
  BY DEF DumpedEvals
<1>4. sel = [generic_selector |-> sel.generic_selector,
             poseidon_selector |-> sel.poseidon_selector,
             complete_add_selector |-> sel.complete_add_selector,
             mul_selector |-> sel.mul_selector, emul_selector |-> sel.emul_selector,
             endomul_scalar_selector |-> sel.endomul_scalar_selector]
  BY DEF DumpedEvals
<1>5. IsArray(pub) /\ Len(pub) = 2
  <2>1. pub = [i \in 1..2 |-> pub[i]]
    OBVIOUS
  <2>. HIDE DEF pub
  <2>. QED  BY <2>1, FunctionArray
<1>. HIDE DEF d, pub
<1>6. IsSelectors(sel)
  BY <1>2, <1>4, EvalShape DEF IsSelectors
<1>7. IsEvals(d)
  <2>1. IsArray(d.public_input) /\ IsArray(d.z)
    BY <1>1, <1>5, EvalShape
  <2>2. IsArrays(d.w) /\ IsArrays(d.coefficients) /\ IsArrays(d.s)
    BY <1>0, <1>1, EvalsShape
  <2>. QED  BY <1>3, <1>6, <2>1, <2>2, Zenon DEF IsEvals
<1>8. has_all_evals(d)
  <2>1. Len(d.public_input) = 2 /\ is_chunked(d.z)
    BY <1>1, <1>5, EvalShape
  <2>2. is_fixed(d.w, Columns) /\ is_fixed(d.coefficients, Columns) /\ is_fixed(d.s, Sigmas)
    BY <1>0, <1>1, EvalsShape
  <2>3. /\ is_chunked(sel.generic_selector) /\ is_chunked(sel.poseidon_selector)
        /\ is_chunked(sel.complete_add_selector) /\ is_chunked(sel.mul_selector)
        /\ is_chunked(sel.emul_selector) /\ is_chunked(sel.endomul_scalar_selector)
    BY <1>2, EvalShape
  <2>4. \A i \in DOMAIN IndexOrder : is_chunked(sel[IndexOrder[i]])
    <3>1. \A i \in DOMAIN IndexOrder :
             IndexOrder[i] \in {"generic_selector", "poseidon_selector", "complete_add_selector",
                                "mul_selector", "emul_selector", "endomul_scalar_selector"}
      BY DEF IndexOrder
    <3>. HIDE DEF sel
    <3>2. ASSUME NEW x \in {"generic_selector", "poseidon_selector", "complete_add_selector",
                            "mul_selector", "emul_selector", "endomul_scalar_selector"}
          PROVE  is_chunked(sel[x])
      BY <2>3
    <3>. QED  BY <3>1, <3>2
  <2>. QED  BY <2>1, <2>2, <2>4 DEF has_all_evals
<1>. QED  BY <1>7, <1>8 DEF d

\* The skeleton of an instance is what serde expects and parses (OcamlProof::parse).
LEMMA InstanceSkeleton ==
    ASSUME NEW inst, IsInstance(inst)
    PROVE  IsSkeleton(Skeleton(inst)) /\ parses(Skeleton(inst))
<1>. DEFINE g == Skeleton(inst)
            n == Len(inst.prevs)
<1>1. g = [plonk |-> g.plonk, bulletproof_challenges |-> g.bulletproof_challenges,
            domain_log2 |-> g.domain_log2, proofs_verified |-> g.proofs_verified,
            sponge_digest |-> g.sponge_digest, cpc |-> g.cpc, prev_evals |-> g.prev_evals,
            prev_step_sgs |-> g.prev_step_sgs, prev_step_chals |-> g.prev_step_chals,
            prev_wrap_chals |-> g.prev_wrap_chals]
  BY DEF Skeleton
<1>2. g.plonk = [alpha |-> g.plonk.alpha, beta |-> g.plonk.beta,
                 gamma |-> g.plonk.gamma, zeta |-> g.plonk.zeta]
  BY DEF Skeleton
<1>3. IsArray(g.bulletproof_challenges) /\ Len(g.bulletproof_challenges) = StepIpaRounds
  BY InstanceChallenges
<1>4. g.domain_log2 \in Nat
  <2>1. g.domain_log2 = inst.log2
    BY DEF Skeleton
  <2>2. inst.log2 \in 0..32
    BY DEF IsInstance, TwoAdicity
  <2>3. inst.log2 \in Nat
    BY <2>2
  <2>. QED  BY <2>1, <2>3, Zenon
<1>5. IsEvals(g.prev_evals) /\ has_all_evals(g.prev_evals)
  <2>1. g.prev_evals = DumpedEvals(inst)
    BY DEF Skeleton
  <2>. QED  BY <2>1, InstanceEvals
<1>6. n \in Nat /\ n <= 2 /\ IsArray(g.prev_step_sgs) /\ IsStepVectors(g.prev_step_chals)
  BY InstancePrevs
<1>7. IsWrapVectors(g.prev_wrap_chals)
  BY InstanceWraps
<1>8. g.proofs_verified \in Tags
  <2>1. g.proofs_verified = <<"N0", "N1", "N2">>[n + 1]
    BY DEF Skeleton
  <2>2. n \in Nat /\ n <= 2
    BY <1>6
  <2>. HIDE DEF n, g
  <2>3. n = 0 \/ n = 1 \/ n = 2
    BY <2>2
  <2>. QED  BY <2>1, <2>3 DEF Tags
<1>. HIDE DEF g
<1>9. IsSkeleton(g)
  <2>1. IsArrays(g.prev_step_chals) /\ IsArrays(g.prev_wrap_chals)
    BY <1>6, <1>7 DEF IsStepVectors, IsWrapVectors
  <2>. QED  BY <1>1, <1>2, <1>3, <1>4, <1>5, <1>6, <2>1, Zenon DEF IsSkeleton
<1>10. parses(g)
  BY <1>3, <1>5, <1>6, <1>7, <1>8 DEF parses, IsStepVectors, IsWrapVectors
<1>. QED  BY <1>9, <1>10 DEF g

\* Every commitment of an instance's key has a chunk (into_verifiable).
LEMMA InstanceKey ==
    ASSUME NEW inst, IsInstance(inst)
    PROVE  IsKey(inst.vk) /\ vk_has_chunks(inst.vk)
<1>. DEFINE a == inst.vk.sigma_comm
            b == inst.vk.coefficients_comm
            c == inst.vk.index_comms
            ab == a \o b
            all == ab \o c
<1>0. Columns \in Nat /\ Sigmas \in Nat
  BY RoundsAssumption
<1>1. /\ IsKey(inst.vk) /\ IsArray(a) /\ IsArray(b) /\ IsArray(c)
      /\ Len(a) = Sigmas + 1 /\ Len(b) = Columns /\ Len(c) = 6
      /\ \A i \in 1..(Sigmas + 1) : a[i] # <<>>
      /\ \A i \in 1..Columns : b[i] # <<>>
      /\ \A i \in 1..6 : c[i] # <<>>
  BY DEF IsInstance, IsKey, IsArrays
<1>2. vk_commitments(inst.vk) = all
  BY DEF vk_commitments
<1>3. IsJoin(ab, a, b) /\ IsJoin(all, ab, c)
  BY DEF IsJoin
<1>. HIDE DEF a, b, c, ab, all
<1>arr. IsArray(a) /\ IsArray(b) /\ IsArray(c)
  BY <1>1
<1>4. /\ IsArray(ab) /\ Len(ab) = Len(a) + Len(b)
      /\ \A i \in 1..Len(a) : ab[i] = a[i]
      /\ \A i \in 1..Len(b) : ab[Len(a) + i] = b[i]
  BY <1>3, <1>arr, Joined
<1>5. /\ IsArray(all) /\ Len(all) = Len(ab) + Len(c)
      /\ \A i \in 1..Len(ab) : all[i] = ab[i]
      /\ \A i \in 1..Len(c) : all[Len(ab) + i] = c[i]
  <2>1. IsArray(ab)
    BY <1>4
  <2>. QED  BY <1>3, <1>arr, <2>1, Joined
<1>6. DOMAIN all = 1..Len(all)
  <2>1. IsArray(all)
    BY <1>5
  <2>. QED  BY <2>1, ArrayDomain
<1>7. ASSUME NEW i \in 1..Len(all)  PROVE all[i] # <<>>
  <2>1. CASE i <= Len(a)
    <3>1. i \in 1..Len(a) /\ i \in 1..Len(ab)
      BY <1>0, <1>1, <1>4, <2>1
    <3>. QED  BY <1>1, <1>4, <1>5, <3>1
  <2>2. CASE i > Len(a) /\ i <= Len(ab)
    <3>1. i - Len(a) \in 1..Len(b) /\ Len(a) + (i - Len(a)) = i /\ i \in 1..Len(ab)
      BY <1>0, <1>1, <1>4, <2>2
    <3>2. all[i] = b[i - Len(a)]
      BY <1>4, <1>5, <3>1
    <3>. QED  BY <1>1, <3>1, <3>2
  <2>3. CASE i > Len(ab)
    <3>1. i - Len(ab) \in 1..Len(c) /\ Len(ab) + (i - Len(ab)) = i
      BY <1>0, <1>1, <1>4, <1>5, <2>3
    <3>2. all[i] = c[i - Len(ab)]
      BY <1>5, <3>1
    <3>. QED  BY <1>1, <3>1, <3>2
  <2>. QED  BY <1>0, <1>1, <1>4, <2>1, <2>2, <2>3
<1>8. vk_has_chunks(inst.vk)
  BY <1>2, <1>6, <1>7 DEF vk_has_chunks
<1>. QED  BY <1>1, <1>8

\* The files of an instance convert, and match it (into_verifiable).
LEMMA FixtureMatches ==
    ASSUME NEW f, NEW inst, IsInstance(inst), f = Fixture(inst)
    PROVE  IsKey(f.vk) /\ IsSkeleton(f.skeleton) /\ converts(f) /\ Matches(f, inst)
<1>. DEFINE g == Skeleton(inst)
<1>1. f.vk = inst.vk /\ f.skeleton = g /\ f.stmt = inst.stmt
  BY DEF Fixture
<1>2. IsKey(inst.vk) /\ vk_has_chunks(inst.vk) /\ IsSkeleton(g) /\ parses(g)
  BY InstanceKey, InstanceSkeleton
<1>3. Len(g.prev_wrap_chals) <= 2
  BY InstanceWraps DEF IsWrapVectors
<1>4. g.domain_log2 % 256 = inst.log2
  <2>1. g.domain_log2 = inst.log2
    BY DEF Skeleton
  <2>2. inst.log2 \in 0..32
    BY DEF IsInstance, TwoAdicity
  <2>3. inst.log2 % 256 = inst.log2
    BY <2>2
  <2>. QED  BY <2>1, <2>3, Zenon
<1>5. Len(inst.prevs) <= Len(g.prev_step_sgs)
  BY InstancePrevs
<1>. HIDE DEF g
<1>6. converts(f)
  BY <1>1, <1>2, <1>3 DEF converts
<1>7. Matches(f, inst)
  BY <1>1, <1>4, <1>5 DEF Matches, g
<1>. QED  BY <1>1, <1>2, <1>6, <1>7

\* A genuine skeleton that matches another instance is that instance's: with the number of
\* previous proofs known nothing is left open (pad_challenges, Zip).
LEMMA GenuineSkeletons ==
    ASSUME NEW f, NEW a, NEW b, IsInstance(a), IsInstance(b),
           f.skeleton = Skeleton(b), Matches(f, a)
    PROVE  f.skeleton = Skeleton(a)
<1>. DEFINE s == Skeleton(b)
            g == Skeleton(a)
            m == Len(b.prevs)
            n == Len(a.prevs)
<1>1. /\ s.plonk = g.plonk /\ s.bulletproof_challenges = g.bulletproof_challenges
      /\ s.domain_log2 % 256 = a.log2 /\ s.proofs_verified = g.proofs_verified
      /\ s.sponge_digest = g.sponge_digest /\ s.cpc = g.cpc
      /\ s.prev_evals = g.prev_evals /\ s.prev_step_chals = g.prev_step_chals
      /\ \A i \in 1..n : s.prev_step_sgs[i] = g.prev_step_sgs[i]
      /\ slots(s.prev_wrap_chals) = slots(g.prev_wrap_chals)
  BY DEF Matches
<1>2. /\ m \in Nat /\ m <= 2 /\ IsArray(s.prev_step_sgs) /\ Len(s.prev_step_sgs) = m
      /\ Len(s.prev_step_chals) = m
  BY InstancePrevs
<1>3. /\ n \in Nat /\ n <= 2 /\ IsArray(g.prev_step_sgs) /\ Len(g.prev_step_sgs) = n
      /\ Len(g.prev_step_chals) = n
  BY InstancePrevs
<1>4. /\ Len(s.prev_wrap_chals) = m /\ IsArray(s.prev_wrap_chals)
      /\ Len(g.prev_wrap_chals) = n /\ IsArray(g.prev_wrap_chals)
  BY InstanceWraps DEF IsWrapVectors, IsArrays
<1>5. s.domain_log2 = g.domain_log2
  <2>1. s.domain_log2 = b.log2 /\ g.domain_log2 = a.log2
    BY DEF Skeleton
  <2>2. b.log2 \in 0..32
    BY DEF IsInstance, TwoAdicity
  <2>3. b.log2 % 256 = b.log2
    BY <2>2
  <2>. QED  BY <1>1, <2>1, <2>3, Zenon
<1>6. IsSkeleton(s) /\ IsSkeleton(g)
  BY InstanceSkeleton
<1>. HIDE DEF s, g, m, n
<1>7. m = n
  BY <1>1, <1>2, <1>3
<1>8. s.prev_step_sgs = g.prev_step_sgs
  BY <1>1, <1>2, <1>3, <1>7, SameArray
<1>9. s.prev_wrap_chals = g.prev_wrap_chals
  <2>. DEFINE v == s.prev_wrap_chals
              w == g.prev_wrap_chals
  <2>1. ASSUME NEW i \in 1..n  PROVE v[i] = w[i]
    <3>1. /\ i + (2 - n) \in 1..2 /\ ~(i + (2 - n) <= 2 - n)
          /\ (i + (2 - n)) - (2 - n) = i
      BY <1>3
    <3>2. slots(v)[i + (2 - n)] = v[i]
      BY <1>4, <1>7, <3>1 DEF slots
    <3>3. slots(w)[i + (2 - n)] = w[i]
      BY <1>4, <3>1 DEF slots
    <3>. QED  BY <1>1, <3>2, <3>3
  <2>2. IsArray(v) /\ IsArray(w) /\ Len(v) = n /\ Len(w) = n
    BY <1>4, <1>7
  <2>. HIDE DEF v, w
  <2>3. v = w
    BY <2>1, <2>2, SameArray
  <2>. QED  BY <2>3 DEF v, w
<1>10. s = g
  BY <1>1, <1>5, <1>6, <1>8, <1>9 DEF IsSkeleton
<1>. QED  BY <1>10 DEF s, g
=============================================================================
