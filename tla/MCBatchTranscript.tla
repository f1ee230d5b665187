------------------------- MODULE MCBatchTranscript -------------------------
(***************************************************************************)
(* Batches of up to MaxItems items over two byte values; among the byte    *)
(* strings is one that looks like a length prefix.                         *)
(***************************************************************************)
EXTENDS BatchTranscript, SequencesExt

CONSTANT MaxItems

Strings == {<<>>, <<0>>, <<1>>, <<0, 1>>, u64_le(0)}

MCBatches == SeqOf([proof : Strings, pi : {<<>>, <<0>>, <<1>>, u64_le(1)}], MaxItems)

MCDomain == <<112>>
=============================================================================
