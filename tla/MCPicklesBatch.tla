-------------------------- MODULE MCPicklesBatch --------------------------
(***************************************************************************)
(* Instances of every recursion shape the fixtures have: no previous proof *)
(* (nrr), one (simplechain, the first link with a base-case predecessor),  *)
(* two (treeproofreturn), all of one tag, and one of another tag.  The     *)
(* inputs are the genuine ones, those with one file taken from another     *)
(* instance, and damaged skeletons.                                        *)
(***************************************************************************)
EXTENDS PicklesBatch

Key(k) == [sigma_comm |-> [i \in 1..(Sigmas + 1) |-> << <<"sigma", k, i>> >>],
           coefficients_comm |-> [i \in 1..Columns |-> << <<"coeff", k, i>> >>],
           index_comms |-> [i \in 1..6 |-> << <<"index", k, i>> >>],
           domain |-> 14]

MCTag == Key("A")

nrr    == [id |-> "nrr", vk |-> Key("A"), stmt |-> <<"stmt", 1>>, log2 |-> 9, prevs |-> <<>>]
chain0 == [id |-> "chain0", vk |-> Key("A"), stmt |-> <<"stmt", 2>>, log2 |-> 14,
           prevs |-> <<BaseCase("p")>>]
chain1 == [id |-> "chain1", vk |-> Key("A"), stmt |-> <<"stmt", 1>>, log2 |-> 14,
           prevs |-> <<Previous("q")>>]
tree   == [id |-> "tree", vk |-> Key("A"), stmt |-> <<"stmt", 2>>, log2 |-> 9,
           prevs |-> <<BaseCase("p"), Previous("q")>>]
other  == [id |-> "other", vk |-> Key("B"), stmt |-> <<"stmt", 1>>, log2 |-> 9, prevs |-> <<>>]

Instance ==
    [nrr |-> nrr, chain0 |-> chain0, chain1 |-> chain1, tree |-> tree, other |-> other]

MCInstances == {Instance[n] : n \in DOMAIN Instance}

\* Damage to one file of an input, by name.
Damages ==
    {"none", "log2_plus_64", "log2_none", "log2_plus_256", "N0", "N1", "N3", "extra_sg",
     "lost_sg", "extra_step", "extra_wrap", "lost_wrap", "beta_gamma", "bad_sg",
     "short_bp", "evals_column", "evals_chunk",
     "evals_chunks", "evals_swapped", "evals_flat", "chunkless_vk", "chunked_vk", "redomained_vk"}

DamagedSkeleton(s, d) ==
    CASE d = "log2_plus_64"  -> [s EXCEPT !.domain_log2 = @ + 64]
      [] d = "log2_none"     -> [s EXCEPT !.domain_log2 = 40]
      [] d = "log2_plus_256" -> [s EXCEPT !.domain_log2 = @ + 256]
      [] d \in {"N0", "N1", "N3"} -> [s EXCEPT !.proofs_verified = d]
      [] d = "extra_sg"      -> [s EXCEPT !.prev_step_sgs = Append(@, <<"prev_sg", "z">>)]
      [] d = "lost_sg"       -> [s EXCEPT !.prev_step_sgs = SubSeq(@, 1, Len(@) - 1)]
      [] d = "extra_step"    -> [s EXCEPT !.prev_step_chals = Append(@, Previous("z").step)]
      [] d = "extra_wrap"    -> [s EXCEPT !.prev_wrap_chals = Append(@, Previous("z").wrap)]
      [] d = "lost_wrap"     -> [s EXCEPT !.prev_wrap_chals = SubSeq(@, 1, Len(@) - 1)]
      [] d = "beta_gamma"    -> [s EXCEPT !.plonk.beta = s.plonk.gamma]
      [] d = "bad_sg"        -> [s EXCEPT !.cpc = <<"msm", <<>>, "vesta", 0>>]
      [] d = "short_bp"      -> [s EXCEPT !.bulletproof_challenges = Tail(@)]
      [] d = "evals_column"  -> [s EXCEPT !.prev_evals.s = Tail(@)]
      [] d = "evals_chunk"   -> [s EXCEPT !.prev_evals.z[2] = @ \o @]
      [] d = "evals_chunks"  -> [s EXCEPT !.prev_evals.z = << @[1] \o @[1], @[2] \o @[2] >>]
      [] d = "evals_swapped" -> [s EXCEPT !.prev_evals.selectors.mul_selector =
                                              s.prev_evals.selectors.emul_selector]
      [] d = "evals_flat"    -> [s EXCEPT !.prev_evals.public_input = Tail(@)]
      [] OTHER -> s

\* "chunkless_vk", "chunked_vk": a commitment without chunks, or with a second one;
\* "redomained_vk": a key that differs from the instance's outside the commitments.
DamagedKey(vk, d) ==
    CASE d = "chunkless_vk"  -> [vk EXCEPT !.sigma_comm[1] = <<>>]
      [] d = "chunked_vk"    -> [vk EXCEPT !.index_comms[6] = @ \o @]
      [] d = "redomained_vk" -> [vk EXCEPT !.domain = 15]
      [] OTHER -> vk

Whole(n, d) == [vk |-> n, proof |-> n, skeleton |-> n, stmt |-> n, damage |-> d]

\* Whole fixtures; fixtures with one file from another instance; damaged fixtures.
MCInputs ==
    LET names == DOMAIN Instance
        whole == {Whole(n, "none") : n \in names}
    IN  whole
        \cup UNION {{[Whole(n, "none") EXCEPT !.vk = m], [Whole(n, "none") EXCEPT !.proof = m],
                     [Whole(n, "none") EXCEPT !.skeleton = m],
                     [Whole(n, "none") EXCEPT !.stmt = m]} : n, m \in names}
        \cup {Whole(n, d) : n \in {"chain0", "tree"}, d \in Damages}

\* An input takes each file from some instance; `damage` is done to it afterwards.
Contents ==
    [in \in MCInputs |->
        [vk       |-> DamagedKey(Instance[in.vk].vk, in.damage),
         proof    |-> WrapProof(Instance[in.proof]),
         skeleton |-> DamagedSkeleton(Skeleton(Instance[in.skeleton]), in.damage),
         stmt     |-> Instance[in.stmt].stmt]]

MCFiles(in) == Contents[in]
=============================================================================
