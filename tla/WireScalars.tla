---------------------------- MODULE WireScalars ----------------------------
(***************************************************************************)
(* crates/pickles-verifier/src/wire.rs: how one JSON value of the skeleton *)
(* becomes a field element or a point.  A text is a value together with    *)
(* the function that reads it; the loop of combine_limbs_le takes one      *)
(* step for each limb.                                                     *)
(*                                                                         *)
(* The widths are parameters.  In the code a byte has 256 values, a limb 8 *)
(* bytes, a field element 32 bytes, and P is one of the two Pasta primes.  *)
(*                                                                         *)
(* An operator named Bug_... is a plausible mistake in the definition that *)
(* follows it; no specification uses it.                                   *)
(***************************************************************************)
EXTENDS Integers, Sequences, SequencesExt

CONSTANTS Base,         \* the values of a byte
          LimbBytes,    \* the bytes of an OCaml Hex64 limb
          FieldBytes,   \* F::size_in_bytes()
          P,            \* the order of the field
          Texts         \* the values there may be, with their readers

\* Base to the n.
Power[n \in Nat] == IF n = 0 THEN 1 ELSE Base * Power[n - 1]

\* Base is even: half of the values of a limb have its sign bit set.
ASSUME WireAssumption ==
    /\ Base \in Nat \ {0} /\ Base % 2 = 0
    /\ LimbBytes \in Nat \ {0} /\ FieldBytes \in Nat \ {0}
    /\ P \in 2..Power[FieldBytes]

IsScalar(json) ==
    json.type = "string" => json.digits \in Seq(0..(Base - 1)) /\ json.hex \in BOOLEAN

\* A text is a JSON value whose parts are of the kind its reader looks for.  That an array
\* of limbs has other members than integers is the case of a member outside Int64.
ASSUME TextsAssumption ==
    \A t \in Texts :
        /\ t.reader \in {"challenge", "digest", "be_hex", "affine"}
        /\ t.reader \in {"challenge", "digest"} /\ t.json.type \in {"array", "object"} =>
             t.json.items \in Seq(Int)
        /\ t.reader = "be_hex" => IsScalar(t.json)
        /\ t.reader = "affine" /\ t.json.type = "array" =>
             /\ DOMAIN t.json.items = 1..Len(t.json.items) /\ Len(t.json.items) \in Nat
             /\ \A i \in DOMAIN t.json.items : IsScalar(t.json.items[i])

VARIABLES text,     \* the value and its reader
          le,       \* the bytes collected so far, least significant first
          pos,      \* the limbs that are done
          result    \* "reading", or what the reader returned

vars == <<text, le, pos, result>>

Reading == [state |-> "reading"]
Ok(v) == [state |-> "ok", value |-> v]
Err == [state |-> "err"]

-----------------------------------------------------------------------------
LimbValues == Power[LimbBytes]

\* The JSON numbers for which as_i64 is Some.
Int64 == -(LimbValues \div 2)..((LimbValues \div 2) - 1)

Bug_sign_dropped(v) ==
    [i \in 1..LimbBytes |-> ((IF v < 0 THEN -v ELSE v) \div Power[i - 1]) % Base]

\* `as u64`, then to_le_bytes.
limb_bytes(v) ==
    [i \in 1..LimbBytes |-> ((v % LimbValues) \div Power[i - 1]) % Base]

resize(bytes) ==
    [i \in 1..FieldBytes |-> IF i <= Len(bytes) THEN bytes[i] ELSE 0]

\* The number that little-endian bytes stand for.
number(bytes) ==
    LET sum[i \in 0..Len(bytes)] ==
            IF i = 0 THEN 0 ELSE sum[i - 1] + bytes[i] * Power[i - 1]
    IN  sum[Len(bytes)]

Bug_unchecked(bytes) == Ok(number(resize(bytes)))

\* Padded or cut to the size of the field; from_bytes refuses what is not below P.
field_from_le(bytes) ==
    IF number(resize(bytes)) < P THEN Ok(number(resize(bytes))) ELSE Err

Bug_hex_not_reversed(str) == IF str.hex THEN field_from_le(str.digits) ELSE Err

\* A string of hex digits, with or without 0x, most significant byte first.
parse_field_be_hex(str) ==
    IF str.hex THEN field_from_le(Reverse(str.digits)) ELSE Err

be_hex(json) == IF json.type = "string" THEN parse_field_be_hex(json) ELSE Err

\* [x, y]; whether the point is on the curve is not asked (new_unchecked).
affine(json) ==
    IF json.type # "array" \/ Len(json.items) # 2 THEN Err
    ELSE LET x == be_hex(json.items[1])
             y == be_hex(json.items[2])
         IN  IF x.state = "ok" /\ y.state = "ok" THEN Ok(<<x.value, y.value>>) ELSE Err

\* The values in which each reader finds its limbs: challenge also looks under "inner".
HasLimbs(reader, json) ==
    \/ json.type = "array" /\ reader \in {"challenge", "digest"}
    \/ json.type = "object" /\ reader = "challenge"

-----------------------------------------------------------------------------
Init == text \in Texts /\ le = <<>> /\ pos = 0 /\ result = Reading

\* One iteration of the loop of combine_limbs_le.
Limb ==
    /\ result = Reading /\ HasLimbs(text.reader, text.json) /\ pos < Len(text.json.items)
    /\ LET v == text.json.items[pos + 1] IN
       IF v \in Int64
       THEN /\ le' = le \o limb_bytes(v) /\ pos' = pos + 1
            /\ UNCHANGED result
       ELSE result' = Err /\ UNCHANGED <<le, pos>>
    /\ UNCHANGED text

\* combine_limbs_le after its loop.
LimbsDone ==
    /\ result = Reading /\ HasLimbs(text.reader, text.json) /\ pos = Len(text.json.items)
    /\ result' = field_from_le(le)
    /\ UNCHANGED <<text, le, pos>>

\* challenge and as_vec on anything else.
NoLimbs ==
    /\ result = Reading /\ text.reader \in {"challenge", "digest"}
    /\ ~HasLimbs(text.reader, text.json)
    /\ result' = Err
    /\ UNCHANGED <<text, le, pos>>

ReadHex ==
    /\ result = Reading /\ text.reader = "be_hex"
    /\ result' = be_hex(text.json)
    /\ UNCHANGED <<text, le, pos>>

ReadPoint ==
    /\ result = Reading /\ text.reader = "affine"
    /\ result' = affine(text.json)
    /\ UNCHANGED <<text, le, pos>>

Next == Limb \/ LimbsDone \/ NoLimbs \/ ReadHex \/ ReadPoint

Spec == Init /\ [][Next]_vars

-----------------------------------------------------------------------------
\* Types: what comes out is a canonical field element, or a pair of them.
TypeOK ==
    /\ text.reader \in {"challenge", "digest", "be_hex", "affine"}
    /\ le \in Seq(0..(Base - 1)) /\ Len(le) = LimbBytes * pos
    /\ \/ result \in {Reading, Err}
       \/ result.state = "ok" /\ IF text.reader = "affine"
                                 THEN result.value \in (0..(P - 1)) \X (0..(P - 1))
                                 ELSE result.value \in 0..(P - 1)

(***************************************************************************)
(* What the OCaml side writes: n Hex64 limbs, least significant first,     *)
(* each as a signed number; n bytes of hex, most significant first.        *)
(***************************************************************************)
Signed(u) == IF u >= LimbValues \div 2 THEN u - LimbValues ELSE u
WritesLimbs(items, x) ==
    /\ x < Power[LimbBytes * Len(items)]
    /\ \A i \in DOMAIN items :
          items[i] = Signed((x \div Power[LimbBytes * (i - 1)]) % LimbValues)

WritesHex(str, x) ==
    LET n == Len(str.digits) IN
    /\ str.hex /\ x < Power[n]
    /\ \A i \in 1..n : str.digits[i] = (x \div Power[n - i]) % Base

\* The text is the OCaml side's way to write the value v.
Writes(t, v) ==
    CASE t.reader \in {"challenge", "digest"} ->
            HasLimbs(t.reader, t.json) /\ WritesLimbs(t.json.items, v)
      [] t.reader = "be_hex" -> t.json.type = "string" /\ WritesHex(t.json, v)
      [] t.reader = "affine" ->
            /\ t.json.type = "array" /\ Len(t.json.items) = 2
            /\ \A i \in 1..2 : t.json.items[i].type = "string" /\ WritesHex(t.json.items[i], v[i])

Values(t) == IF t.reader = "affine" THEN (0..(P - 1)) \X (0..(P - 1)) ELSE 0..(P - 1)

\* No scalar in the text is longer than a field element.
ShortScalar(json) == json.type = "string" => Len(json.digits) <= FieldBytes
Short(t) ==
    /\ HasLimbs(t.reader, t.json) => LimbBytes * Len(t.json.items) <= FieldBytes
    /\ t.reader = "be_hex" => ShortScalar(t.json)
    /\ t.reader = "affine" /\ t.json.type = "array" =>
         \A i \in DOMAIN t.json.items : ShortScalar(t.json.items[i])

\* Every value the OCaml side can write is read back as itself, negative limbs, all lengths
\* and leading zeros included; and of the texts that are no longer than a field element
\* nothing else is accepted: not a number of P or more, not a limb outside int64, not bad
\* hex, not a point of three coordinates (combine_limbs_le, field_from_le,
\* parse_field_be_hex, challenge, affine).  The number of limbs is left open: that a challenge
\* is two of them is a comment (wire.rs, challenge), and an array of one or four that writes
\* the same number is read alike.
ReadsWhatIsWritten ==
    result # Reading =>
        /\ \A v \in Values(text) : Writes(text, v) => result = Ok(v)
        /\ result.state = "ok" /\ Short(text) => Writes(text, result.value)

\* wire.rs on field_from_le: "Little-endian bytes (zero-padded to the field byte size) →
\* field, via the o1-utils checked deserializer": whatever is accepted is the number that is
\* written.
AcceptedIsTheNumber == result.state = "ok" => Writes(text, result.value)
=============================================================================
