------------------------------- MODULE XykRpc -------------------------------
(***************************************************************************)
(* What a node answers to xyk_getPoolBalances for the address of a pair    *)
(* account: the RPC handler asks the runtime API, which asks the pallet.   *)
(* The answer is that of the state of one block, the best one unless the   *)
(* request names another.                                                  *)
(***************************************************************************)
EXTENDS Xyk

\* get_pool_assets of the AMM trait.
GetPoolAssets(pool) == PoolAssets[pool]

\* get_pool_balances of the pallet: it finds no assets where there is no pool,
\* which is no error.
GetPoolBalances(pool) ==
  LET assets == GetPoolAssets(pool)
  IN  IF assets = None
      THEN <<>>
      ELSE [k \in 1 .. 2 |-> <<assets[k], Reserve(ledger, assets[k], pool)>>]

\* get_pool_balances of the runtime API: a BalanceInfo for each of them.
RuntimeApiPoolBalances(pool) ==
  [k \in DOMAIN GetPoolBalances(pool) |->
     [asset |-> GetPoolBalances(pool)[k][1], amount |-> GetPoolBalances(pool)[k][2]]]

\* The handler of the node.
RpcPoolBalances(pool) == RuntimeApiPoolBalances(pool)

\* What an account could take out of one asset, with all of its shares; a
\* remove_liquidity of no shares is an error.
RedeemableBy(who, asset, pool) ==
  LET held == FreeBalance(ledger, ShareToken[pool], who)
  IN  IF held = 0 THEN 0 ELSE RemoveAmount(asset, pool, held)

\* What everyone who holds shares of the pool could take out of one asset.
Redeemable(asset, pool) ==
  SumFunction([w \in Accounts |-> RedeemableBy(w, asset, pool)])

\* The balances reported for a pool are those of its two assets, and cover
\* what the holders of its shares can withdraw together, in either asset; a
\* pool of which nothing is reported owes nothing to anyone, no share of it
\* being left.  PoolAssets, which the answer is made of, is written by
\* create_pool and remove_liquidity apart from ShareToken and TotalLiquidity.
ReportCoversShares ==
  \A p \in Pools :
    LET report == RpcPoolBalances(p)
    IN  IF report = <<>>
        THEN TotalLiquidity[p] = 0 /\ (AssetIds[p] # None => ledger.issuance[AssetIds[p]] = 0)
        ELSE /\ {report[k].asset : k \in DOMAIN report} = {p[1], p[2]}
             /\ \A k \in DOMAIN report :
                  Redeemable(report[k].asset, p) <= report[k].amount
=============================================================================
