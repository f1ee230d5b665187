----------------------------- MODULE MCO1zkvm -----------------------------
(***************************************************************************)
(* Two keys; two proofs of the first, one of the second.                   *)
(***************************************************************************)
EXTENDS O1zkvm

Key(k) == [sigma_comm |-> [i \in 1..(Sigmas + 1) |-> << <<"sigma", k, i>> >>],
           coefficients_comm |-> [i \in 1..Columns |-> << <<"coeff", k, i>> >>],
           index_comms |-> [i \in 1..6 |-> << <<"index", k, i>> >>],
           domain |-> 14]

MCBundles ==
    [a1 |-> [id |-> "a1", vk |-> Key("A"), stmt |-> <<"stmt", 1>>, log2 |-> 9, prevs |-> <<>>],
     a2 |-> [id |-> "a2", vk |-> Key("A"), stmt |-> <<"stmt", 2>>, log2 |-> 9,
             prevs |-> <<Previous("p")>>],
     b1 |-> [id |-> "b1", vk |-> Key("B"), stmt |-> <<"stmt", 1>>, log2 |-> 9, prevs |-> <<>>]]

Arg(mode, dir, timeout, skip) ==
    [mode |-> mode, dir |-> dir, timeout |-> timeout, skip_simulation |-> skip]

\* One run in every mode, on a directory that is being rewritten.
SoloArgs == {Arg(m, "d1", FALSE, FALSE) : m \in {"execute", "cpu", "cuda"}}
            \cup {Arg("network", "d1", t, s) : t, s \in BOOLEAN}
SoloRedump == [d \in Dirs |-> "a2"]

\* Two runs in one checkout; the directories are left alone.
PairArgs == {Arg("execute", d, FALSE, FALSE) : d \in Dirs}
            \cup {Arg("cpu", "d2", FALSE, FALSE), Arg("network", "d1", TRUE, TRUE)}
PairRedump == [d \in Dirs |-> "none"]
=============================================================================
