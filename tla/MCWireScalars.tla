--------------------------- MODULE MCWireScalars ---------------------------
(***************************************************************************)
(* Bytes of one bit, limbs of two and field elements of eight, so that as  *)
(* in the code a challenge has two limbs, four limbs fill a field element, *)
(* and the order of the field is a little more than a quarter of what      *)
(* these hold: the topmost bit is unused, the next one almost.             *)
(***************************************************************************)
EXTENDS WireScalars

CONSTANTS MaxLimbs, MaxHex

Array(s) == [type |-> "array", items |-> s]
Inner(s) == [type |-> "object", items |-> s]
Str(d, h) == [type |-> "string", digits |-> d, hex |-> h]
Null == [type |-> "null"]

Text(r, j) == [reader |-> r, json |-> j]

\* One more than Int64 on either side.
Numbers == (-(LimbValues \div 2) - 1)..(LimbValues \div 2)
Limbs == SeqOf(Numbers, MaxLimbs)
Hex == SeqOf(0..(Base - 1), MaxHex)
ShortHex == {Str(d, TRUE) : d \in {<<>>, <<1>>, <<0, 1>>, [i \in 1..FieldBytes |-> i % 2],
                                   [i \in 1..FieldBytes |-> 1]}}
            \cup {Str(<<1>>, FALSE), Null}

MCTexts ==
    {Text("challenge", Array(s)) : s \in Limbs} \cup {Text("challenge", Inner(s)) : s \in Limbs}
    \cup {Text("digest", Array(s)) : s \in Limbs}
    \cup {Text("be_hex", Str(d, h)) : d \in Hex, h \in BOOLEAN}
    \cup {Text("affine", Array(s)) : s \in SeqOf(ShortHex, 3)}
    \cup {Text(r, Null) : r \in {"challenge", "digest", "be_hex", "affine"}}
    \cup {Text("digest", Inner(<<0>>))}
=============================================================================
