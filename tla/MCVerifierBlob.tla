--------------------------- MODULE MCVerifierBlob ---------------------------
(***************************************************************************)
(* SRSes of one or two generators, domains of one, two and four points.    *)
(***************************************************************************)
EXTENDS VerifierBlob

Pt(tag, n) == [k \in 1..POD |-> CASE k = 1 -> tag [] k = 2 -> n [] OTHER -> 0]

Generators(tag, n) == [i \in 1..n |-> Pt(tag, i)]

MCVestaGs == {Generators(1, 1), Generators(1, 2)}
MCWrapGs == {Generators(2, 2)}
MCH == Pt(3, 1)
MCVKs == {[id |-> 7, domain |-> d] : d \in {1, 2, 4}}
MCLagrangeBasis(g, d) == [i \in 1..d |-> Pt(10 + d, i)]
=============================================================================
