------------------------------ MODULE MCBackoff ------------------------------
(* An instance of Backoff for TLC: durations of seven bits.                  *)
EXTENDS Backoff

MCMaxRetries == -1..4
=============================================================================
