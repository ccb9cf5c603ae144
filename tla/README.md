# HydraDX node: a TLA+ development

HydraDX is a Substrate chain for trading. Users swap assets against
constant-product pools (xyk); orders of one block ("intentions") are matched
against each other at the end of the block, and what is left goes to the pools
(exchange). Fees are paid in the native token or in another currency that is
swapped for it. This directory models the pallets, the runtime that executes
them in blocks and the node that runs the runtime, checks them with TLC on small
instances, and proves what matters most about the pools, the native token, fees
and claims, and the blocks with TLAPS, for every instance.

## 1. Inventory

| part | state | operations | modelled in |
|---|---|---|---|
| `primitives` | none | ordered pairs, fees, limits | `Primitives` |
| orml tokens and currencies (external) | balances, reserves, locks, issuance | transfer, deposit, withdraw, reserve, repatriate | `Currencies`, as the pallets use them |
| `asset-registry` | `AssetIds`, `NextAssetId` | `get_or_create_asset` | `AssetRegistry` |
| `xyk` | `ShareToken`, `TotalLiquidity`, `PoolAssets` | `create_pool`, `add_liquidity`, `remove_liquidity`, `sell`, `buy`; the `AMM` trait; the RPC query | `Xyk`, `XykRpc`; what it promises in `LiquidityPools` |
| `exchange` | `ExchangeAssetsIntentions`, `ExchangeAssetsIntentionCount` | `sell`, `buy`, `on_finalize` (matching, direct trades, pool trades); its benchmarks | `Exchange`, `ExchangeBenchmarks` |
| `balances` | accounts, `TotalIssuance`, `Locks` | root calls; `Currency`, `ReservableCurrency`, `LockableCurrency`, fungible traits, imbalances, dust | `Balances` |
| `claims` | `Claims` | `claim`, its signed extension, genesis, import at a runtime upgrade | `Claims` |
| `transaction-multi-payment` | `AccountCurrencyMap`, `AcceptedCurrencies`, `Authorities` | five calls; `withdraw_fee`, `correct_and_deposit_fee`, `withdraw_set_fee` | `MultiPayment`, `FeeSwap` |
| `faucet` | `Minted`, `MintLimit`, `Rampage`, `MintableCurrencies` | `rampage_mint`, `mint`, `on_finalize` | `Faucet` |
| `genesis-history` | `PreviousChain` | written at genesis only | `ChainSpec` |
| weights | none | what calls and hooks are charged | `Weights` |
| runtime | the block under execution | call filter, nested dispatch, hooks, limits | `Runtime` |
| chain specifications | none | three chains, the genesis builders | `ChainSpec` |
| node, service | process, tasks, database | commands, start, stop, loss of a task, blocks, purge, revert | `Node` |

How they interact: `xyk` keeps the reserves of a pool in a pair account of the
multi-currency ledger and takes its share token from the registry. `exchange`
uses the `AMM` trait of `xyk`, and the reserve operations of the ledger. Fee
payment buys native tokens through the same trait. `balances`, `claims` and fee
payment create and burn native tokens. The runtime charges weight for each call,
part of it for what the exchange will do at the end of the block; the node
builds the genesis and feeds blocks to the runtime.

What makes this code hard:

- `on_finalize` has no rollback. A direct trade is four reservations and four
  transfers, with a pool trade in between, and any of them may fail.
- Intentions are priced when they are registered and resolved later, after other
  calls and other intentions have moved the price or spent the balances.
- All amounts are integers: quotients are rounded, some by adding one. Some
  subtractions are unchecked and wrap in the release build.
- Issuance is kept apart from the balances it sums, frozen amounts apart from
  the locks they come from, and imbalances apart from both.
- The handler of dust writes to accounts in the middle of the transfer that left
  the dust.
- The fee of a transaction is in nobody's account while its call runs, and the
  call may move the price or remove the account that paid.
- The work of `on_finalize` is done outside any limit and must be paid before.
- Calls are dispatched inside calls, some of which pass the filter by.
- A change that is refused halfway has made its imbalances already, and issuance
  follows imbalances.
- A node may go down at any point of its start or of a block.

What should hold, by component: a pool's recorded liquidity is its shares in
circulation, holders can leave, nobody pays for others' withdrawals, trades stay
on the curve, reports cover the shares (xyk); ids are never reused
(asset-registry); an intention is taken once, gives no more than it offered, gets
what it asked for, is done whole or not at all, and the block ends (exchange);
issuance is backed, locks are enforced, queries are true of the operations
(balances); a claim is paid once, where it was signed for (claims); a fee is what
was due and costs its payer only (multi-payment); mints are limited (faucet);
finalization is prepaid and closed pallets stay closed (runtime); every chain has
a consistent genesis (chain specifications); a node that is up does all its role
is there for, or is going down, and the network starts last (node). `PROJECT.json` lists the hazards
behind these, line by line.

## 2. Modules

```
Primitives <- Currencies <- AssetRegistry <- Xyk
Xyk <- XykPools (implements LiquidityPools)
    <- XykRpc;  XykPools, XykRpc <- MCXyk
    <- FeeSwap <- MCFeeSwap
    <- Exchange <- ExchangeBenchmarks <- MCExchange <- MCExchangeLive
    <- XykFacts;  XykFacts, XykPools <- XykProofs
                  XykFacts, XykRpc, FeeSwap, SumFacts <- XykSupply
Balances <- Claims -------+
         <- MultiPayment -+- NativeToken <- MCNativeToken
         <- BalancesFacts;  NativeToken, BalancesFacts <- NativeTokenFacts
                            NativeTokenFacts, SumFacts <- NativeTokenProofs
Weights, Faucet <- Runtime <- RuntimeProofs
                   Runtime, ChainSpec <- Node <- MCNode
```

Conventions. A ledger is a value; an operation `Op` on it comes with `CanOp`, the
condition under which the code returns `Ok`. An action is enabled exactly when
its call succeeds, where the call is transactional or checks before it writes;
a failure that leaves a trace is part of the action. An operator that stands
directly before the one it resembles, with a suffix to its name, is a faulty
variant that no action uses: replacing the real one by it violates the property
that `PROJECT.json` pairs it with.

**Xyk, XykRpc.** `ledger` is the currencies' state; `ShareToken`,
`TotalLiquidity` and `PoolAssets` are the storage of the pallet. One action per
dispatchable, and `CurrencyTransfer` for the transfers that users make past the
pallet, pair accounts included. A pair account is the ordered pair of its assets.
`XykRpc` is the query through RPC handler, runtime API and pallet.

**LiquidityPools, XykPools.** The abstract specification: a pool is two reserves
and a number of shares; something leaves it only against shares, in proportion,
or by a trade within a unit of the curve. `XykPools` maps the reserves to what
the pair accounts hold, and the shares to `TotalLiquidity`.

**Exchange.** Extends `Xyk`. `phase` says whether the block runs extrinsics or
`on_finalize`, which is cut into one step per intention handled: `NextPair`,
`TakeMain`, the three scenarios of `resolve_matched_intentions`
(`MatchedFits`, `MatchedExceeds`, `MatchedEquals`), `ResolveMain`,
`ResolveLeftover`, `EndPair`, `EndBlock`. Nothing else runs in between, so this
adds no interleaving; it gives names to states inside the hook. `work` is the
local state of the hook, `fills` a history of what intentions gave and got. A
panic (`expect` in `execute`) is the phase `"panicked"`. `WrapSub` is the
unchecked subtraction of the release build; `MCExchange.cfg` reaches a wrap (the
trade limit of a main buy intention after two matches).

**ExchangeBenchmarks.** `bench` is the benchmark that runs, or none; its accounts
register the intentions it feeds, the block is finalized, and `BenchmarksVerify`
is the `verify` part: balances after `on_finalize`, counts after `sell` and `buy`.
The weights of `Weights` were measured on these blocks.

**Balances, Claims, MultiPayment, NativeToken.** `native` is the account data and
the issuance, `consumers` the references by which `frame_system` (external)
refuses to remove an account, `debt` and `credit` the negative and positive
imbalances that pallets hold. Such a refusal comes at the end of
`try_mutate_account`; imbalances and dust that were made before it are dropped,
and their drop lowers the issuance while the account keeps what it had. `Refused`
and the refused branches of `SetBalance`, `MakeFreeBalanceBe`, the slashes and the
repatriation model it, and the history `lost` adds up what was lost this way. A
withdrawal (`WithdrawFrom`) comes to it too. The subtraction of `burn_from` is
unchecked and wraps (`Wrapped`). `tx` is the transaction whose fee has been
withdrawn and not yet been corrected; any operation may come between the two.
`claimed` is a history. A signature of a claim is over the bytes of an account in
hexadecimal ASCII, as the code builds them; recovering the signer (external)
gives the owner's address for the message they signed, and an unrelated one for
any other. The other currencies are not in this ledger: the swap of a fee
is a transfer from the pool's account. Locks are set only on funds that the
account has, as their users (staking, democracy, elections, vesting: external)
check.

**FeeSwap.** Fee payment over the pools of `Xyk`: an extrinsic is the purchase
and withdrawal of the fee, the call or its failure, and the correction.
`WithdrawFeeForSetCurrency` is taken in both its values, so that
`withdraw_set_fee` runs too; the runtime sets it to `No`. A fee of zero returns
before any swap.

**Weights, Faucet, Runtime.** A block is begun, takes extrinsics, is finalized and
imported, or dropped at any point. `frame` is the dispatch in progress, one
level of nesting per step (`sudo`, `sudo_as`, batches, pseudonyms, motions of the
council and the technical committee, what the scheduler dispatches for
governance), with the origin and whether the filter is
passed by. `block.prepaid` is what was charged for `on_finalize`. Many equal
extrinsics may be applied in one step (`CopyCounts`), so that a block can be
filled; weights are in units of 1000, every weight being a multiple of it. The
runtime knows of the exchange how many intentions and pairs there are; what is
done with them is `Exchange`. With two intentions or more `on_finalize` may panic
there (run `exchange_panic`): `FinalizePanics` gives the block up with all it
wrote.

**ChainSpec, Node.** The genesis builders run one by one in the order of
`construct_runtime!`, on the three configurations, and may refuse them by a
panic. Balances are written in base 10^6. A node runs a command, whose service
starts step by step (`new_partial`, `new_full`, `new_light`); a step may spawn a
task, and the task may be essential. `Served` is what the RPC handler of
`create_full` serves and `create_full` the parts each interface holds on to.
`Stop` is an error, the end of the command
or a kill, at any point; `storage` and `past` are the database, which outlives
it. What tasks do is external but for the blocks they execute. `lost` says that
an essential task has ended and the task manager knows.

## 3. Runs

| run | outcome | what it shows |
|---|---|---|
| `xyk_pool` | pass | two users, one pool, amounts of 1 to 3 so that every quotient rounds, a fee of a third, donations: shares match liquidity, holders can leave, what the RPC reports covers the shares, destruction leaves nothing behind, withdrawals and trades keep their bounds, and every call is a step of `LiquidityPools` |
| `fee_swap` | pass | fees bought from the pools at their price, with the call before the refund; three pools with the fee of the runtime, discounts that burn native tokens, ids that run out: share tokens are fresh, issuance is held, a fee costs its payer only, within its limit |
| `xyk_share_price` | violation | shares are minted by amount, not by share of the reserve |
| `xyk_execute` | violation | what `validate_buy` checked separately, `execute_buy` spends together |
| `exchange_match` | pass | up to three intentions of three users at two prices, with funds that run out and amounts reserved before; the blocks of the benchmarks do what the benchmarks verify |
| `exchange_calls` | pass | a pool call or a transfer between registration and `on_finalize`: moved prices, spent balances, a pool that is gone; `on_finalize` ends, or panics, and never goes around in circles |
| `exchange_reserves` | violation | a failed `prepare` may leave an amount reserved |
| `exchange_panic` | violation | a native payment to an account without native tokens panics |
| `exchange_empty_main` | violation | an emptied main intention is matched once more, for zero |
| `exchange_buy_limit` | violation | a matched buy may pay more than its `max_sold` |
| `native_token` | pass | any four operations of balances, claims and fee payment on one ledger with an existential deposit and a handler of dust: issuance is backed up to what refused removals burn, locks are enforced, queries agree with operations, a claim is paid once, a fee is charged as corrected |
| `node_runtime` | pass | a node on each chain, from its command line to its blocks: genesis, starts, lost tasks, stops anywhere, nested calls, weights, mints |

A violation run checks what a comment of the source says; `findings` in
`PROJECT.json` quotes it. A remark on reach: the runtime's call filter rejects
calls of `xyk` and `exchange` on the current network. A remark without a run:
what refused removals take from the issuance shows only where there is an
existential deposit; the runtime sets it to 0, and with 0 nothing is refused
(`RuntimeIssuance` below).

What some properties do not say. `MintLimitHolds` limits the last currency of the
list; currencies before it are minted again by every mint that fails half way.
`MainSellMeetsLimit` is about limits that the amount computed at registration
satisfies; for others the code looks at none. `FeeCostsPayerOnly` is about the
withdrawal: a refund after the call is in native tokens, whatever the price is
then. `BenchmarksVerify` is about the measured blocks only. `FeeChargedAsCorrected`
is about a payer whose account is still there: to one the call has removed, the
code refunds nothing. The hazards of `PROJECT.json` say so where they have no
property.

Bounds. `MaxCalls`, `MaxExtrinsics`, `MaxIntentions` and `MaxBlocks` cut
behaviours; `Amounts`, `Limits` and the like are the inputs. Five calls are enough
to create a pool, add, trade, and remove until it is destroyed; three extrinsics,
to create a pool, choose its currency and pay with it. Three intentions are
enough for a main one with two matches in different scenarios; amounts start at
the trading minimum of 1000, and 3000 against 1000 gives matches that fit, exceed
and are equal. Benchmarks have at most four intentions
(`MaxBenchIntentions`), two a side. In `native_token` balances of 3 and 4, an
existential deposit of 2 and amounts of 3 make every payment leave dust, nothing
or a living account; root sets balances to zero, so removals are refused.
`WithinLimits` and a `MaxSupply` of 30 stand for
the fact that the supply is far from 2^128, where issuance would saturate. `PoolUnlocked` says that nobody asks
for a lock on the pool's account, to which nobody has a key. In `node_runtime` a
block takes two steps of extrinsics: two kinds of call can meet in a block, a
batch of 1020 sells is as large as a block takes, and 590 single sells are close
to as many as fit. One block on the chain is enough for revert and
purge; the local chain differs from the development chain in its genesis only and
takes no blocks. The tasks that may end by themselves are an essential one and
one that is not. Symmetry is used only over users that have equal endowments, and
never with liveness. Deadlock is not checked where behaviours are cut by a bound.

Fairness. `exchange_calls` assumes that the executive does not stop in the middle
of `on_finalize`: a block whose hook does not finish is no block.
`FinalizeGoesOn` is weak fairness of a step of the hook with its enabledness
written out as the phase; the run checks deadlock, so no state of that phase is
without a step, and `turn` makes every step visible, so going around in circles
without changing anything would be found. Liveness is checked in this run
only; `node_runtime` needs no fairness: its properties are about every state, and
nothing makes users, operators or peers do anything.

## 4. Proofs

Eight modules hold theorems. `SumFacts` has what is needed of finite sets and of
sums over them. `XykFacts` (formulas, ledger, calls, the invariant), `XykProofs`
(action properties, refinement) and `XykSupply` (shares, reports and fees over
the pools) are about any users, assets, pools, amounts, prices and fee, and any
number of calls. `BalancesFacts` (the pallet's operations), `NativeTokenFacts`
(the steps of fees and claims) and `NativeTokenProofs` (the theorems) are about
any accounts, locks, amounts, fees and claims. `RuntimeProofs` is about any
accounts, calls, batch sizes, nesting and genesis values of sudo and faucet, and
any number of blocks.

Pools:

- `TypeCorrect`: storage and ledger keep their types; no balance becomes negative;
- `SharesMatch`: recorded liquidity is the number of shares in circulation;
- `SharesFresh`: share tokens of different pools are different and new;
- `RemoveKeeps`, `DestroyedEmpty`, `TradeWithinOneUnit`: three action properties
  of `xyk_pool`;
- `PoolsRefined`: `Xyk` implements `LiquidityPools`;
- `HoldersExit`: who holds shares can redeem them all at once;
- `ReportsCover`: what the RPC reports covers what all holders could redeem.

Fees over the pools:

- `FeesHeld`: what is issued is held by accounts or is the fee in flight;
- `FeeCostsPayer`: a fee costs nobody but its payer, and at most its limit.

Native token:

- `NativeTypes`: accounts exist with their deposit or not at all;
- `NativeFrozen`: frozen amounts are those of the locks;
- `NativeClaims`, `NativeClaimsSigned`: a claim is paid once, where it was signed for;
- `NativeSwapNeutral`: buying a fee leaves the payer's native account as it was;
- `LimitedQueries`: what the pallet answers about an account, its operations do;
- `LimitedDust`: neither a transfer nor the dust paid in the middle of it is lost;
- `LimitedIssuance`: issuance, with positive imbalances and what refused removals
  have burnt, is what accounts hold and what is not settled;
- `RuntimeIssuance`: with the runtime's deposit of 0 no removal is refused, and
  issuance with positive imbalances is all of it;
- `LimitedFees`: a transaction burns its corrected fee, or what it paid if that is
  less, and its payer gets the rest back.

Runtime:

- `FinalizeIsPrepaid`: what a block has charged covers `on_finalize` for the
  intentions it holds;
- `BenchmarkRangeKept`: single extrinsics stay in the measured range;
- `MintsLimited`: the faucet's limit;
- `ClosedPalletsAreSudos`: closed pallets act only in extrinsics of the sudo key.

Assumptions are the named ones of the modules. For the pools
(`MaxBalanceAssumption`, `LedgerAssumption`, `RegistryAssumption`,
`XykAssumption`): assets are numbers and include the native one and all ids the
registry can give out; pools are ordered pairs of different assets; users are
finitely many and no pair accounts; balances have a largest value; the fee has a
denominator other than zero; no share token is in circulation at genesis, and
what is issued of an asset is what users are endowed with; amounts and limits are
natural numbers. For the native token (`BalancesAssumption`,
`ClaimsAssumption`, `MultiPaymentAssumption`): accounts and lock ids are finitely
many, endowments are 0 or at least the existential deposit, and fit in the
balance type. For the runtime (`OriginsAssumption`, `CallsAssumption`): root,
governance, collectives and pseudonyms are no accounts that sign; calls are calls
of the runtime; counts are positive. The assumptions that a value standing for
"none" is no value of the type it is joined to say nothing of the code.

Two conditions stand in theorems. The `Limited` theorems are about
`LimitedSpec`, the behaviours that stay within `WithinLimits`: the supply is at
most half of what a balance can count; what is missing from the issuance
(positive imbalances and what refused removals took) is no more than accounts
have; and no account has more than what is left of the supply after such losses.
Beyond it the code saturates or wraps, and issuance does not follow the balances.
`RuntimeIssuance` supposes an existential deposit of 0, the runtime's; the others
are for any deposit and whatever balances root sets.

Sums and finite sets. Balances are summed by a fold, and induction over data is
out of the prover's reach in its usual form. `SumFacts` argues from a smallest
counterexample instead, which is a first-order fact (`WFMin`): a finite set is
one that some sequence lists (`FiniteIsListed`), a proper subset has a shorter
list (`ShorterList`), so a set of subsets has minimal members (`SubsetMinimal`),
and a law of sums that fails would fail first for a minimal set (`SumUpdate`,
`SumAtLeast`, `SumScaled`). What the pallets need of it are the laws
`LedgerSums` and `FiniteLaws`: a change of one account changes the sum by as
much, no account holds more than all, and the frozen amount is the largest of
the locked ones. The facts about operations suppose these laws, and
`LedgerSumsHold` and `FiniteLawsHold` prove them.

The inductive invariant of `Xyk` is `IndInv == TypeOK /\ SharesMatchLiquidity /\
ShareTokensAreFresh`. Neither of the last two is inductive alone: that a new pool
starts with no shares in circulation needs that its token is new, or is the
pool's own and all of it burnt. The argument goes bottom-up: facts on the
quotients (`SellProduct`, `BuyProduct`, `RemoveProportional`), on one ledger
operation (`TransferFacts`, ...), on two in a row (`PayInFacts`, ...), on each
call (`CreateFacts`, ...), then the invariant (`IndInvStep`). The action
properties and the refinement follow from `PoolStep`: a call makes a pool grow,
shrink or trade, which are `Provide`, `Redeem` and `Trade` of `LiquidityPools`.
Holders can leave because of `SupplyInv`, which adds that every unit of an asset
that is issued is in an account: so a holder has no more shares than the pool
has liquidity, what is due for them fits in the reserves, and what all could
redeem is at most the reserve (`SumScaled`). `FeeInv` is the same with a fee in
flight. It keeps the types and the backing only: with `withdraw_set_fee` a call
takes a second fee, and neither needs what is known of shares.

The invariant of `NativeToken` is `NativeInv /\ ClaimsInv`: types, `LedgerOK`
(an account lives with its deposit or is all zero, and has frozen what its locks
say), and `References` (an account with locks has a reference). Frozen amounts
alone are not inductive, since an account that is removed forgets them; that it
has no locks then needs the reference. For every operation, `Gains` says how much
accounts together gain and how much of the dust was burnt, and issuance follows
by adding these up (`NativeBacked`). A refused step gains nothing and moves what
it took from the issuance to `lost`; `NoneRefused` says that with a deposit of 0
an account never dies, so no step is one. `HexInjective` and `SignedForOne` are the
core of claims: two accounts never have the same hexadecimal digits, so a
signature is for one account.

The inductive invariant of `Runtime` is `IInv == RuntimeTypeOK /\ OriginsTraced /\
BlockPaid /\ MintsCounted`. `OriginsTraced` says where the origin at a level of
nesting can come from: root, and a filter passed by, from sudo or governance only,
and what governance dispatches stays root. `BlockPaid` relates the weight charged to the intentions registered and to
those the dispatch in progress may still register, which are charged before they
exist. `MintsCounted` says that a mint is counted exactly when the last currency
of the list was deposited.

Only model-checked: `Exchange`, whose steps work on sequences that are sorted and
folded over; `ChainSpec`, which is about three given genesis configurations;
`Node`; and liveness, which is out of this prover's reach.

## 5. Not modelled

Events and logs. In `balances` the trait `Unbalanced`, whose functions nothing
calls; its calls `transfer` and `transfer_keep_alive` ask for root and then for a
signature, so they always fail and are no actions. The table of claims
(`claims_data.rs`, generated data) is the constant `CLAIMS_DATA`. The elliptic
curve and the hash of claims are external. In the runtime the configuration of
Substrate's own pallets (staking, sessions, elections, treasury, collectives,
consensus) and the runtime APIs that forward to them; in the node the
answers of Substrate's RPC interfaces, the tasks' work and benchmark commands: the code here
only passes parameters to libraries. Benchmarks other than the exchange's, mocks
and tests: one call each with an assertion that restates it. What the scenarios
of the exchange cost that its benchmarks do not measure. The definitions in `map` stand for
about 30% of the lines of code, tests apart; nearly all the rest is the
configuration of libraries, generated tables, mocks and benchmarks.

## 6. Next

1. Proofs: `SellNeverOversells` and `EachIntentionTakenOnce`, with an invariant
   that relates the intentions still pending to what has been filled.
2. An abstract order book (an intention is open, filled or dropped) that
   `Exchange` implements.
