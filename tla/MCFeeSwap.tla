----------------------------- MODULE MCFeeSwap ------------------------------
(* FeeSwap from the genesis, cut after MaxExtrinsics extrinsics.           *)
EXTENDS FeeSwap, TLC

CONSTANTS
  MaxExtrinsics,    \* bound on the number of extrinsics
  NativeEndowment,  \* units of the native asset a user starts with
  Endowment         \* units of each other asset, share tokens apart

VARIABLE extrinsics

MCInit == FeeInit /\ extrinsics = 0

MCNext ==
  /\ FeeNext
  /\ extrinsics' = IF tx = None THEN extrinsics + 1 ELSE extrinsics
  /\ tx = None => extrinsics < MaxExtrinsics

MCSpec == MCInit /\ [][MCNext]_<<feeVars, extrinsics>>

ThreePools == {<<0, 1>>, <<0, 2>>, <<1, 2>>}
RuntimeFee == [numerator |-> 2, denominator |-> 1000]
\* A unit of the native asset costs one of the other, or four.
TwoPrices == {<<1, 1>>, <<4, 1>>}
Symmetry == Permutations(Users)

NothingFrozen == [u \in Users |-> 0]
EqualEndowment ==
  [a \in Assets |-> [u \in Users |-> CASE a = CORE_ASSET_ID -> NativeEndowment
                                        [] a >= FirstAssetId -> 0
                                        [] OTHER             -> Endowment]]
TotalEndowment == [a \in Assets |-> SumFunction(InitialBalance[a])]
=============================================================================
