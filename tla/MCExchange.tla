----------------------------- MODULE MCExchange -----------------------------
(***************************************************************************)
(* Model-checking instances of Exchange: one pool, created by a founder    *)
(* before the first block, and users who register intentions, or one of    *)
(* the benchmarks.                                                         *)
(***************************************************************************)
EXTENDS ExchangeBenchmarks

CONSTANTS
  Founder,        \* the user that created the pool
  Reserves,       \* possible reserves <<of asset 0, of asset 1>> of the pool
  SetAsideBefore, \* what users have reserved for other purposes, per asset
  MaxIntentions,  \* bound on the intentions of a block
  MaxBenchIntentions, \* bound on the intentions of a benchmark
  MaxBlocks       \* bound on the number of blocks

VARIABLE blocks

mcVars == <<exchangeVars, bench, blocks>>

\* The pool <<0, 1>> as create_pool leaves it, with share token FirstAssetId.
PoolWith(r) ==
  /\ ledger =
       [free     |-> [a \in Assets |-> [w \in Accounts |->
            CASE w = <<0, 1>> -> IF a = 0 THEN r[1] ELSE IF a = 1 THEN r[2] ELSE 0
              [] w = Founder  -> IF a = FirstAssetId THEN r[1]
                                                     ELSE InitialBalance[a][w]
              [] OTHER        -> InitialBalance[a][w]]],
        reserved |-> [a \in Assets |-> [w \in Accounts |->
            IF w \in Users /\ a < FirstAssetId THEN SetAsideBefore ELSE 0]],
        issuance |-> [a \in Assets |->
            CASE a = 0 -> r[1] + InitialIssuance[a]
              [] a = 1 -> r[2] + InitialIssuance[a]
              [] a = FirstAssetId -> r[1]
              [] OTHER -> 0]]
  /\ TotalLiquidity = [p \in Pools |-> r[1]]

\* The price of the benchmarks' pools is 1, or 10.
BenchReserves(name) == IF name = "sells_no_matches" THEN <<10000, 100000>> ELSE <<30000, 30000>>

MCInit ==
  /\ \/ \E r \in Reserves : PoolWith(r) /\ bench = None
     \/ \E name \in Benchmarks :
          PoolWith(BenchReserves(name)) /\ bench = [name |-> name, before |-> ledger]
  /\ ShareToken  = [p \in Pools |-> FirstAssetId]
  /\ PoolAssets  = [p \in Pools |-> p]
  /\ AssetIds    = [p \in Pools |-> FirstAssetId]
  /\ NextAssetId = FirstAssetId + 1
  /\ ExchangeInit
  /\ blocks = 0

MCRegister ==
  /\ bench = None
  /\ \A p \in Pools : IntentionCount[p] < MaxIntentions
  /\ blocks < MaxBlocks
  /\ Register
  /\ UNCHANGED <<bench, blocks>>

MCBenchRegister ==
  /\ \A p \in Pools : IntentionCount[p] < MaxBenchIntentions
  /\ blocks < MaxBlocks
  /\ BenchRegister
  /\ UNCHANGED blocks

MCStart ==
  /\ bench # None => BenchReady
  /\ blocks < MaxBlocks
  /\ StartFinalize
  /\ blocks' = blocks + 1
  /\ UNCHANGED bench

MCResolve == Resolve /\ UNCHANGED <<bench, blocks>>

MCNext == MCRegister \/ MCBenchRegister \/ MCStart \/ MCResolve

MCSpec == MCInit /\ [][MCNext]_mcVars

OnePool == {<<0, 1>>}
RuntimeFee == [numerator |-> 2, denominator |-> 1000]

\* One unit of asset 1 is worth two of asset 0, or half a unit.
TwoPrices == {<<30000, 15000>>, <<15000, 30000>>}
OnePrice  == {<<15000, 30000>>}

Symmetry == Permutations(Users \ {Founder})

\* What users have reserved for other purposes is never touched: unreserve and
\* repatriate_reserved take back at most what the same direct trade reserved,
\* on every failure path.
EarlierReservesKept ==
  \A a \in Assets, u \in Users :
    a < FirstAssetId => ledger.reserved[a][u] >= SetAsideBefore

NothingFrozen == [u \in Users |-> 0]
CONSTANTS NativeEndowment, Endowment
Endowments ==
  [a \in Assets |-> [u \in Users |-> CASE a = CORE_ASSET_ID -> NativeEndowment
                                       [] a >= FirstAssetId -> 0
                                       [] OTHER             -> Endowment]]
TotalEndowment == [a \in Assets |-> SumFunction(InitialBalance[a])]
=============================================================================
