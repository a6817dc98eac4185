-------------------------- MODULE MCRedisRateLimit --------------------------
(***************************************************************************)
(* RedisRateLimit with a quota of two, five or six per refill of five      *)
(* milliseconds, and seconds of three milliseconds, so that the refill is  *)
(* not a whole number of seconds.                                          *)
(***************************************************************************)
EXTENDS RedisRateLimit, TLC

Symmetry == Permutations(Clients)
=============================================================================
