--------------------------- MODULE MCIdempotency ---------------------------
(* Three attempts on two keys with two bodies: a first try, its retry and a *)
(* changed reuse, or any other assignment, at once or one after the other.  *)
EXTENDS Idempotency
=============================================================================
