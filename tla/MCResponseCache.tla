--------------------------- MODULE MCResponseCache ---------------------------
(***************************************************************************)
(* ResponseCache with two requests at once on zero or two buckets, and     *)
(* directives that name everything a directive may say.                    *)
(***************************************************************************)
EXTENDS ResponseCache, TLC

Symmetry == Permutations(Clients)

Silent == [noCache |-> FALSE, maxAge |-> NoAge, minFresh |-> 0, maxStale |-> 0,
           strict |-> FALSE]

\* max-age=0, max-stale=1 (the shape of the documented example);
\* min-fresh=2, must-revalidate; no-cache, must-revalidate
MCDirectives ==
    { [Silent EXCEPT !.maxAge = 0, !.maxStale = 1],
      [Silent EXCEPT !.minFresh = 2, !.strict = TRUE],
      [Silent EXCEPT !.noCache = TRUE, !.strict = TRUE] }
=============================================================================
