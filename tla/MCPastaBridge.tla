--------------------------- MODULE MCPastaBridge ---------------------------
(***************************************************************************)
(* Two primes as close together as the Pasta orders are, and the shift of  *)
(* their width: an 11-bit copy of the real numbers.                        *)
(***************************************************************************)
EXTENDS PastaBridge
=============================================================================
