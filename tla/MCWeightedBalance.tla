-------------------------- MODULE MCWeightedBalance --------------------------
(***************************************************************************)
(* WeightedBalance with three services, two of them of weight zero: the    *)
(* weights 1, 0, 0 sum to 1 and pass RouterConfig::validate.               *)
(***************************************************************************)
EXTENDS WeightedBalance, TLC

CONSTANTS k1, k2, k3

TwoZeros == k1 :> 10000 @@ k2 :> 0 @@ k3 :> 0
=============================================================================
