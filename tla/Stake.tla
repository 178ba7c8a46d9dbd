--------------------------------- MODULE Stake ---------------------------------
(***************************************************************************)
(* Stake: sums of validators' weights, which the signature aggregator and  *)
(* the start-up check add up in loops, and the comparison with a quorum    *)
(* (utils/utils.go).                                                       *)
(***************************************************************************)
EXTENDS Integers, FiniteSetsExt

\* The weights of the elements of S, added up.
StakeOf(weight, S) == MapThenSumSet(LAMBDA x : weight[x], S)

\* At least quorumNumerator / quorumDenominator of the total weight.
CheckStakeWeightExceedsThreshold(weight, totalWeight, quorumNumerator, quorumDenominator) ==
    totalWeight * quorumNumerator <= quorumDenominator * weight
================================================================================
