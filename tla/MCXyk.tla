------------------------------- MODULE MCXyk --------------------------------
(***************************************************************************)
(* Model-checking instances of Xyk.  Behaviours are cut after MaxCalls     *)
(* successful calls.                                                       *)
(***************************************************************************)
EXTENDS XykPools, XykRpc, Functions, TLC

CONSTANTS
  MaxCalls,         \* bound on the number of successful calls
  NativeEndowment,  \* units of the native asset a user starts with
  Endowment         \* units of each other asset, share tokens apart

VARIABLE calls    \* successful calls so far

MCInit == Init /\ calls = 0

MCNext == calls < MaxCalls /\ Next /\ calls' = calls + 1

MCSpec == MCInit /\ [][MCNext]_<<xykVars, calls>>

\* One pool, between assets 0 and 1; fees of a third so that they show on
\* amounts of a few units.
OnePool == {<<0, 1>>}
CoarseFee == [numerator |-> 1, denominator |-> 3]
TwoPrices == {<<1, 1>>, <<2, 1>>}
SimplePrices == {<<1, 1>>, <<2, 1>>, <<1, 2>>}

RuntimeFee == [numerator |-> 2, denominator |-> 1000]

Symmetry == Permutations(Users)

NothingFrozen == [u \in Users |-> 0]
EqualEndowment ==
  [a \in Assets |-> [u \in Users |-> CASE a = CORE_ASSET_ID -> NativeEndowment
                                        [] a >= FirstAssetId -> 0
                                        [] OTHER             -> Endowment]]
TotalEndowment == [a \in Assets |-> SumFunction(InitialBalance[a])]
=============================================================================
