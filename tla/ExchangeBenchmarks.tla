------------------------- MODULE ExchangeBenchmarks -------------------------
(***************************************************************************)
(* The benchmarks of the exchange.  Those of on_finalize register          *)
(* intentions, finalize the block, and verify what the accounts have then; *)
(* those of the calls sell and buy verify the count of intentions.  The    *)
(* weights charged for intentions (Weights) were measured on these blocks. *)
(*                                                                         *)
(* Every intention of a benchmark has an account of its own, with more     *)
(* funds than it trades.  Here an account registers up to two of one type, *)
(* which it has the funds for.  Amounts are smaller than the benchmarks'   *)
(* and the assets are those of the model's pool.                           *)
(***************************************************************************)
EXTENDS Exchange

CONSTANTS
  Benchmarks,        \* the benchmarks to run
  INTENTION_AMOUNTS  \* amounts of the intentions

ASSUME BenchmarksAssumption ==
  /\ Benchmarks \subseteq {"on_finalize", "buys_no_matches", "sells_no_matches",
                           "one_sell_extrinsic", "one_buy_extrinsic",
                           "sell_intention", "buy_intention"}
  /\ INTENTION_AMOUNTS \subseteq Nat

VARIABLE bench  \* the benchmark in progress and the ledger it began with, or None

asset_a == 0
asset_b == 1

SELL_INTENTION_LIMIT == 1

Sells == Intentions[<<asset_a, asset_b>>]
Buys  == Intentions[<<asset_b, asset_a>>]

\* The accounts that may register one more intention, of the kind in `same`.
FundedAccounts(same, opposite) ==
  {u \in Users : /\ \A i \in ToSet(opposite) : i.who # u
                 /\ Cardinality({k \in DOMAIN same : same[k].who = u}) < 2}

BenchSell(amount) ==
  \E who \in FundedAccounts(Sells, Buys) :
    SellIntention(who, asset_a, asset_b, amount, SELL_INTENTION_LIMIT, FALSE)

\* The limit is twice the amount.
BenchBuy(amount) ==
  \E who \in FundedAccounts(Buys, Sells) :
    BuyIntention(who, asset_a, asset_b, amount, 2 * amount, FALSE)

\* Pairs of a sale and a purchase of the same amount.
feed_intentions ==
  IF Len(Sells) = Len(Buys)
  THEN \E amount \in INTENTION_AMOUNTS : BenchSell(amount)
  ELSE BenchBuy(Last(Sells).amount_in)

\* The benchmarks of the calls measure one call after the pairs.
SellIntentionMeasured ==
  /\ bench.name = "sell_intention"
  /\ Len(Sells) = Len(Buys)
  /\ \E who \in FundedAccounts(Sells, Buys), amount \in INTENTION_AMOUNTS :
       SellIntention(who, asset_a, asset_b, amount, amount, FALSE)
  /\ bench' = [bench EXCEPT !.name = "measured"]

BuyIntentionMeasured ==
  /\ bench.name = "buy_intention"
  /\ Len(Sells) = Len(Buys)
  /\ \E who \in FundedAccounts(Buys, Sells), amount \in INTENTION_AMOUNTS :
       BuyIntention(who, asset_a, asset_b, amount \div 10, amount, FALSE)
  /\ bench' = [bench EXCEPT !.name = "measured"]

\* The set-up of a benchmark registers its next intention.
SetUp ==
  /\ \/ bench.name \in {"on_finalize", "sell_intention", "buy_intention"}
          /\ feed_intentions
     \/ bench.name = "buys_no_matches"
          /\ BenchBuy(CHOOSE x \in INTENTION_AMOUNTS : TRUE)
     \/ bench.name = "sells_no_matches"
          /\ BenchSell(CHOOSE x \in INTENTION_AMOUNTS : TRUE)
     \/ bench.name = "one_sell_extrinsic" /\ Sells = <<>>
          /\ \E x \in INTENTION_AMOUNTS : BenchSell(x)
     \/ bench.name = "one_buy_extrinsic" /\ Buys = <<>>
          /\ \E x \in INTENTION_AMOUNTS : BenchBuy(x)
  /\ UNCHANGED bench

BenchRegister ==
  bench # None /\ (SetUp \/ SellIntentionMeasured \/ BuyIntentionMeasured)

\* It has registered all it is to register, and finalizes its block.
BenchReady ==
  /\ bench.name \notin {"sell_intention", "buy_intention", "measured"}
  /\ bench.name = "on_finalize" => Len(Sells) = Len(Buys)
  /\ bench.name = "one_sell_extrinsic" => Len(Sells) = 1
  /\ bench.name = "one_buy_extrinsic" => Len(Buys) = 1

-----------------------------------------------------------------------------
(* The verify blocks                                                       *)

\* The pair's count is the number of intentions in both directions.
IntentionsCounted == IntentionCount[<<asset_a, asset_b>>] = Len(Sells) + Len(Buys)

SumOf(s, u, Amount(_)) ==
  FoldLeft(LAMBDA sum, i : IF i.who = u THEN sum + Amount(i) ELSE sum, 0, s)

\* Every seller is without the amounts it sold and every buyer has the ones it
\* bought, to the unit.
validate_finalize ==
  \A u \in Users :
    FreeBalance(ledger', asset_a, u) =
      FreeBalance(bench.before, asset_a, u)
        - SumOf(Sells, u, LAMBDA i : i.amount_in) + SumOf(Buys, u, LAMBDA i : i.amount_out)

\* A block's only intention leaves its account with what the xyk call
\* sell_extrinsic or buy_extrinsic of the same amount does.
LikeSellExtrinsic ==
  LET i == Sells[1]
      t == SellTransfer(bench.before, i.who, asset_a, asset_b, i.amount_in, FALSE)
  IN  \A a \in {asset_a, asset_b} :
        FreeBalance(ledger', a, i.who) = FreeBalance(ExecuteSell(bench.before, t), a, i.who)

LikeBuyExtrinsic ==
  LET i == Buys[1]
      t == BuyTransfer(bench.before, i.who, asset_b, asset_a, i.amount_out, FALSE)
  IN  \A a \in {asset_a, asset_b} :
        FreeBalance(ledger', a, i.who) = FreeBalance(ExecuteBuy(bench.before, t), a, i.who)

\* The blocks whose weight was measured do what the benchmarks verify: matched
\* in pairs or sent to the pool one after the other, in any order of amounts
\* that the sort makes of them, every intention is resolved in full, and an
\* intention alone in its block as the pool itself would have done.  Before
\* and after, the count that numbers the intentions is that of both queues.
BenchmarksVerify ==
  [][bench # None /\ phase' = "extrinsics" =>
       /\ IntentionsCounted'
       /\ phase = "finalize" =>
            /\ validate_finalize
            /\ bench.name = "one_sell_extrinsic" => LikeSellExtrinsic
            /\ bench.name = "one_buy_extrinsic" => LikeBuyExtrinsic]_<<exchangeVars, bench>>
=============================================================================
