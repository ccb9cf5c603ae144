------------------------------ MODULE Weights ------------------------------
(***************************************************************************)
(* The weights the HydraDX pallets declare for their calls, and the limits *)
(* the runtime puts on a block.  The unit is 1000 weights, so that a       *)
(* second of computing is 10^9 and the block limits fit TLC's integers;    *)
(* every weight of the source is a multiple of 1000.                       *)
(***************************************************************************)
EXTENDS Integers

\* RocksDbWeight: what the database charges for `reads` and `writes`.
DbWeight(reads, writes) == 25000 * reads + 100000 * writes

-----------------------------------------------------------------------------
(* pallet_exchange, HydraWeight                                            *)

known_overhead_for_on_finalize == 11782 + DbWeight(1, 0)
sell_intention == 109767 + DbWeight(6, 2)
buy_intention == 112747 + DbWeight(6, 2)
on_finalize_for_one_sell_extrinsic == 163828 + DbWeight(9, 6)
on_finalize_for_one_buy_extrinsic == 179585 + DbWeight(9, 6)

\* The benchmarks of on_finalize: t intentions on one pair of assets, in
\* matching sells and buys, in buys alone, in sells alone.
on_finalize(t) == 110967 * t + DbWeight(4 + 2 * t, 2 + 2 * t)
on_finalize_buys_no_matches(t) == 125236 * t + DbWeight(4 + 2 * t, 2 + 2 * t)
on_finalize_sells_no_matches(t) ==
    8528 + 109453 * t + DbWeight(4 + 2 * t, 2 + 2 * t)

\* The range of t over which those benchmarks were run.
MAX_INTENTIONS_IN_BLOCK == 1000

-----------------------------------------------------------------------------
(* The other pallets                                                       *)

\* pallet_transaction_multi_payment, HydraWeight.
swap_currency == 132983 + DbWeight(6, 4)
set_currency == 34622 + DbWeight(2, 1)
add_currency == 26292 + DbWeight(2, 1)
remove_currency == 26232 + DbWeight(2, 1)
add_member == 23021 + DbWeight(1, 1)
remove_member == 24963 + DbWeight(1, 1)

\* pallet_xyk, HydraWeight.
create_pool == 189645 + DbWeight(11, 13)
add_liquidity == 171602 + DbWeight(9, 8)
remove_liquidity == 170846 + DbWeight(8, 7)
xyk_sell == 122125 + DbWeight(5, 4)
xyk_buy == 121289 + DbWeight(5, 4)

\* pallet_claims, HydraWeight.
claim == 248181 + DbWeight(2, 2)

\* pallet_balances, whose runtime configuration takes the `()` weights.
transfer == 100698 + DbWeight(1, 1)
transfer_keep_alive == 69407 + DbWeight(1, 1)
set_balance_creating == 38489 + DbWeight(1, 1)
set_balance_killing == 48458 + DbWeight(1, 1)
force_transfer == 99320 + DbWeight(2, 2)

-----------------------------------------------------------------------------
(* The weight a call is charged                                            *)

\* A registered intention is resolved by on_finalize, after the block's last
\* extrinsic; the call that registers it pays for that, less the overhead
\* on_initialize has paid for the block.
SellIntentionOnly == sell_intention
SellIntention ==
    sell_intention + on_finalize_for_one_sell_extrinsic
                   - known_overhead_for_on_finalize
BuyIntention ==
    buy_intention + on_finalize_for_one_buy_extrinsic
                  - known_overhead_for_on_finalize

CallWeight ==
    [exchange_sell    |-> SellIntention,
     exchange_buy     |-> BuyIntention,
     faucet_mint      |-> 0,
     rampage_mint     |-> 0,
     create_pool      |-> create_pool,
     add_liquidity    |-> add_liquidity,
     remove_liquidity |-> remove_liquidity,
     xyk_sell         |-> xyk_sell,
     xyk_buy          |-> xyk_buy,
     set_currency     |-> set_currency,
     add_currency     |-> add_currency,
     remove_currency  |-> remove_currency,
     add_member       |-> add_member,
     remove_member    |-> remove_member,
     claim            |-> claim,
     transfer         |-> transfer,
     transfer_keep_alive |-> transfer_keep_alive,
     force_transfer   |-> force_transfer,
     set_balance      |-> IF set_balance_creating > set_balance_killing
                          THEN set_balance_creating ELSE set_balance_killing]

CallNames == DOMAIN CallWeight

-----------------------------------------------------------------------------
(* The limits of a block                                                   *)

\* Two seconds; three quarters of it for calls of the normal class, which all
\* the calls above are.
MAXIMUM_BLOCK_WEIGHT == 2000000000
NORMAL_DISPATCH_RATIO == 75
NormalMaxTotal == (MAXIMUM_BLOCK_WEIGHT \div 100) * NORMAL_DISPATCH_RATIO

\* Every extrinsic pays the base weight, with room for the swap of its fee.
ExtrinsicBaseWeight == 125000 + swap_currency

\* The largest call: the normal share less the average on_initialize and the
\* base weight.
AVERAGE_ON_INITIALIZE_RATIO == 25
MaxExtrinsic ==
    NormalMaxTotal
        - (MAXIMUM_BLOCK_WEIGHT \div 1000) * AVERAGE_ON_INITIALIZE_RATIO
        - ExtrinsicBaseWeight

\* The weight of `count` calls named `call`, in `copies` extrinsics.
ExtrinsicWeight(call, count, copies) ==
    copies * ExtrinsicBaseWeight + count * CallWeight[call]
=============================================================================
