--------------------------- MODULE MCProviderPool ---------------------------
(***************************************************************************)
(* ProviderPool on a small instance: one provider, two requests in flight, *)
(* channels of capacity one and two instead of 16, so that they do fill    *)
(* up, counts of at most MaxCount per lap and waits of up to one second.   *)
(***************************************************************************)
EXTENDS ProviderPool, TLC

\* Retry-After answers: none at all, or one shorter than the default
BothHeaders == {NoRetryAfter, 0}

Symmetry == Permutations(Providers) \cup Permutations(Clients)
=============================================================================
