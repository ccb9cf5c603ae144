------------------------------ MODULE Runtime ------------------------------
(***************************************************************************)
(* The runtime as a block executes it: initialize_block, the extrinsics    *)
(* with their nested dispatches, finalize_block, and the commit of what    *)
(* the block wrote.  Of the pallets it holds what passes between them in a *)
(* block: the call filter with the origins that pass it by, the weights    *)
(* charged, the number of intentions the exchange has to resolve, and the  *)
(* faucet.                                                                 *)
(*                                                                         *)
(*   config   what genesis has fixed: the sudo key, the faucet's values;   *)
(*   storage  the state the last block left: its number, and the faucet's  *)
(*            Minted and exhausted currencies;                             *)
(*   phase    "none", "extrinsics" while the block takes them, "finalized" *)
(*            until it is imported;                                        *)
(*   block    the state of the block under construction;                   *)
(*   frame    the dispatch in progress: who signed the extrinsic, the      *)
(*            origin and whether the filter is passed by at this level of  *)
(*            nesting, and the calls at the bottom of it.                  *)
(***************************************************************************)
EXTENDS Weights, Faucet

CONSTANTS
    Accounts,     \* accounts that sign extrinsics
    Derived,      \* the pseudonym utility.as_derivative makes of an account
    Root,         \* the root origin
    Governance,   \* the scheduler, dispatching what a referendum enacted
    Collective,   \* the origin of the council and of the technical committee
    Currencies,   \* the currencies rampage_mint is asked for
    Calls,        \* the calls extrinsics are made of
    BatchCounts,  \* how many equal calls one batch makes
    CopyCounts,   \* how many equal extrinsics one step applies
    MaxExtrinsics, \* bound on the extrinsic steps of a block
    MaxDepth,     \* how deep the decoder lets calls nest
    NoFrame

ASSUME OriginsAssumption ==
    /\ Root \notin Accounts
    /\ Governance \notin Accounts
    /\ Derived \notin Accounts
    /\ Root # Derived
    /\ Governance # Root
    /\ Governance # Derived
    /\ Collective \notin Accounts
    /\ Collective \notin {Root, Governance, Derived}

ASSUME CallsAssumption ==
    /\ Calls \subseteq CallNames
    /\ BatchCounts \subseteq Nat \ {0}
    /\ CopyCounts \subseteq Nat \ {0}

VARIABLES config, storage, phase, block, frame

runtimeVars == <<config, storage, phase, block, frame>>

-----------------------------------------------------------------------------
(* The calls                                                               *)

\* Call::X of construct_runtime!, for the calls modelled.
PalletOf ==
    [exchange_sell |-> "Exchange", exchange_buy |-> "Exchange",
     faucet_mint |-> "Faucet", rampage_mint |-> "Faucet",
     create_pool |-> "XYK", add_liquidity |-> "XYK", remove_liquidity |-> "XYK",
     xyk_sell |-> "XYK", xyk_buy |-> "XYK",
     set_currency |-> "MultiTransactionPayment",
     add_currency |-> "MultiTransactionPayment",
     remove_currency |-> "MultiTransactionPayment",
     add_member |-> "MultiTransactionPayment",
     remove_member |-> "MultiTransactionPayment",
     claim |-> "Claims", transfer |-> "Balances",
     transfer_keep_alive |-> "Balances", force_transfer |-> "Balances",
     set_balance |-> "Balances"]

\* BaseFilter: of the pallets of construct_runtime!, the ones whose calls
\* are not accepted yet.
BaseFilter(pallet) ==
    pallet \notin {"XYK", "AssetRegistry", "Currencies", "Exchange", "Faucet",
                   "MultiTransactionPayment", "Tokens"}

\* A dispatch passes the filter, unless it was made by
\* dispatch_bypass_filter.
Passes(pallet) == frame.trusted \/ BaseFilter(pallet)

\* The part of a call's weight that pays for its share of on_finalize.
FinalizeShare(call) ==
    CASE call = "exchange_sell" -> SellIntention - sell_intention
      [] call = "exchange_buy" -> BuyIntention - buy_intention
      [] OTHER -> 0

-----------------------------------------------------------------------------
(* The block                                                               *)

NewBlock ==
    [faucet |-> FreshBlock(config.faucet, storage.minted, storage.full),
     weight |-> 0, prepaid |-> known_overhead_for_on_finalize,
     intentions |-> 0, single |-> 0, pairs |-> 0, extrinsics |-> 0]

\* The block variable while there is no block.
NoBlock == [NewBlock EXCEPT !.faucet = FreshBlock(config.faucet, 0, {})]

\* A call the scheduler dispatches as root, a referendum having enacted it.
EnactedFrame(call) ==
    [signer |-> Governance, origin |-> Root, trusted |-> TRUE, batched |-> FALSE,
     stops |-> FALSE, call |-> call, count |-> 1, copies |-> 1, depth |-> 0]

\* Executive::initialize_block: the on_initialize hooks.  The exchange's
\* charges the overhead of its on_finalize; the scheduler's has nothing to
\* dispatch, or one call (MaxScheduledPerBlock of them at most).
InitializeBlock(dispatch) ==
    /\ phase = "none"
    /\ phase' = "extrinsics"
    /\ block' = NewBlock
    /\ frame' = dispatch
    /\ UNCHANGED <<config, storage>>

\* Executive::apply_extrinsic, up to the dispatch: CheckWeight charges the
\* declared weight before the call runs, whatever becomes of it.  One step
\* applies `count` calls, either in as many extrinsics or in one batch.
ApplyExtrinsic(signer, call, count, copies) ==
    /\ phase = "extrinsics"
    /\ frame = NoFrame
    /\ copies \in {1, count}
    /\ block.extrinsics < MaxExtrinsics
    /\ copies = 1 => (count * CallWeight[call] <= MaxExtrinsic)
    /\ ExtrinsicWeight(call, count, copies) <= NormalMaxTotal - block.weight
    /\ block' = [block EXCEPT
                    !.weight = @ + ExtrinsicWeight(call, count, copies),
                    !.prepaid = @ + count * FinalizeShare(call),
                    !.extrinsics = @ + 1]
    /\ frame' = [signer |-> signer, origin |-> signer, trusted |-> FALSE,
                 batched |-> FALSE, stops |-> FALSE, call |-> call, count |-> count,
                 copies |-> copies, depth |-> 0]
    /\ UNCHANGED <<config, storage, phase>>

-----------------------------------------------------------------------------
(* Nested dispatch: the calls of the pallets sudo, utility and collective  *)

\* The dispatch in progress is of a call that holds another one.
Nests == frame # NoFrame /\ frame.depth < MaxDepth

\* ensure_signed: neither root nor a collective has signed.
Signed == frame.origin \notin {Root, Collective}

\* The frame of the inner call.
Inner(f, origin, trusted, stops, batched) ==
    [signer |-> f.signer, origin |-> origin, trusted |-> trusted,
     batched |-> batched, stops |-> stops, call |-> f.call, count |-> f.count,
     copies |-> f.copies, depth |-> f.depth + 1]

\* utility.batch: the calls of a batch pass the filter each, unless the
\* origin is root, and the first error ends it.  Of nested batches the outer
\* one holds the `count` calls.
CallBatchUnfiltered ==
    /\ Nests
    /\ Passes("Utility")
    /\ frame' = Inner(frame, frame.origin, TRUE, frame.stops \/ ~frame.batched, TRUE)
    /\ UNCHANGED <<config, storage, phase, block>>
CallBatch ==
    /\ Nests
    /\ Passes("Utility")
    /\ frame' = Inner(frame, frame.origin, frame.origin = Root,
                      frame.stops \/ ~frame.batched, TRUE)
    /\ UNCHANGED <<config, storage, phase, block>>

\* utility.as_derivative: the call is dispatched, through the filter, with
\* the pseudonym as its origin.
CallAsDerivative ==
    /\ Nests
    /\ Passes("Utility")
    /\ Signed
    /\ frame' = Inner(frame, Derived, FALSE, frame.stops, frame.batched)
    /\ UNCHANGED <<config, storage, phase, block>>

\* The council and the technical committee: a member's `execute` or `propose`,
\* or anyone's `close` of a motion that is carried, has the call dispatched,
\* through the filter, with the collective as its origin; its error is only
\* reported.
CallCollective ==
    /\ Nests
    /\ \E pallet \in {"Council", "TechnicalCommittee"} : Passes(pallet)
    /\ Signed
    /\ frame' = Inner(frame, Collective, FALSE, FALSE, frame.batched)
    /\ UNCHANGED <<config, storage, phase, block>>

\* sudo.sudo and sudo.sudo_as: the key has the call dispatched past the
\* filter, as root or as any account, and its error goes no further.
CallSudo(origin) ==
    /\ Nests
    /\ Passes("Sudo")
    /\ frame.origin = config.sudo
    /\ frame' = Inner(frame, origin, TRUE, FALSE, frame.batched)
    /\ UNCHANGED <<config, storage, phase, block>>

\* The calls at the bottom can run: one of them, or several in a batch or in
\* as many extrinsics.
Runs(pallet) ==
    /\ frame # NoFrame
    /\ Passes(pallet)
    /\ PalletOf[frame.call] = pallet
    /\ frame.count # frame.copies => frame.batched

\* exchange.sell and exchange.buy register an intention each, on `fresh`
\* pairs of assets that had none in this block (none, one, or all different).
RegisterIntentions(fresh) ==
    /\ Runs("Exchange")
    /\ Signed
    /\ block.pairs + fresh > 0
    /\ block' = [block EXCEPT !.intentions = @ + frame.count,
                              !.single = IF frame.count = frame.copies
                                         THEN @ + frame.count ELSE @,
                              !.pairs = @ + fresh]
    /\ frame' = NoFrame
    /\ UNCHANGED <<config, storage, phase>>

\* faucet.mint; its error keeps the deposits made before it.
FaucetMint ==
    /\ Runs("Faucet")
    /\ frame.call = "faucet_mint"
    /\ Signed
    /\ CanMint(config.faucet, block.faucet)
    /\ LET tries == IF frame.stops THEN frame.copies ELSE frame.count
       IN  block' = [block EXCEPT !.faucet =
                        Mint(config.faucet, @, frame.count, tries)]
    /\ frame' = NoFrame
    /\ UNCHANGED <<config, storage, phase>>

\* faucet.rampage_mint, once.
FaucetRampageMint(currency, amount) ==
    /\ Runs("Faucet")
    /\ frame.call = "rampage_mint"
    /\ frame.count = 1
    /\ Signed
    /\ CanRampageMint(config.faucet, block.faucet, currency)
    /\ block' = [block EXCEPT !.faucet = RampageMint(@, currency, amount)]
    /\ frame' = NoFrame
    /\ UNCHANGED <<config, storage, phase>>

\* Any other end of the dispatch: the filter or the origin check refuses it,
\* the call fails without a change, or it is a call of a pallet whose state
\* is not part of this module.
EndDispatch ==
    /\ frame # NoFrame
    /\ frame' = NoFrame
    /\ UNCHANGED <<config, storage, phase, block>>

-----------------------------------------------------------------------------
(* The end of the block                                                    *)

\* Executive::finalize_block: the on_finalize hooks.  The exchange resolves
\* and forgets every intention, the faucet forgets the block's mints.
FinalizeBlock ==
    /\ phase = "extrinsics"
    /\ frame = NoFrame
    /\ phase' = "finalized"
    /\ block' = [block EXCEPT !.intentions = 0, !.single = 0, !.pairs = 0,
                              !.faucet = OnFinalize(@)]
    /\ UNCHANGED <<config, storage, frame>>

\* The import of the finished block makes its state the chain's.
ImportBlock ==
    /\ phase = "finalized"
    /\ phase' = "none"
    /\ storage' = [number |-> storage.number + 1,
                   minted |-> block.faucet.minted, full |-> block.faucet.full]
    /\ block' = NoBlock
    /\ UNCHANGED <<config, frame>>

\* The node goes down: the block under construction is lost, the storage of
\* the imported ones is kept.
DropBlock ==
    /\ phase' = "none"
    /\ block' = NoBlock
    /\ frame' = NoFrame
    /\ UNCHANGED <<config, storage>>

\* The exchange's on_finalize panics: it expects every transfer of a prepared
\* direct trade to succeed, and one may not.  The block cannot be finished;
\* nothing it wrote is kept.
FinalizePanics ==
    /\ phase = "extrinsics"
    /\ frame = NoFrame
    /\ block.intentions > 1
    /\ DropBlock

DispatchStep ==
    \/ CallBatch
    \/ CallAsDerivative
    \/ CallCollective
    \/ \E origin \in Accounts \union {Root} : CallSudo(origin)
    \/ frame # NoFrame /\ \E fresh \in {0, 1, frame.count} : RegisterIntentions(fresh)
    \/ FaucetMint
    \/ \E currency \in Currencies, amount \in {"some", "all"} :
          FaucetRampageMint(currency, amount)
    \/ EndDispatch

ExtrinsicStep ==
    \E signer \in Accounts, call \in Calls :
        \/ \E count \in BatchCounts : ApplyExtrinsic(signer, call, count, 1)
        \/ \E count \in CopyCounts : ApplyExtrinsic(signer, call, count, count)

BeginStep ==
    \E dispatch \in {NoFrame} \union {EnactedFrame(call) : call \in Calls} :
        InitializeBlock(dispatch)

RuntimeNext ==
    BeginStep \/ ExtrinsicStep \/ DispatchStep \/ FinalizeBlock \/ FinalizePanics
    \/ ImportBlock \/ DropBlock

Configs ==
    [sudo : Accounts,
     faucet : [rampage : BOOLEAN, mint_limit : Nat, mintable_currencies : Seq(Nat)]]
Storages == [number : Nat, minted : Nat, full : SUBSET Currencies]
Faucets ==
    [minted : Nat, full : SUBSET Currencies,
     received : [1..Len(config.faucet.mintable_currencies) -> Nat]]
Blocks ==
    [faucet : Faucets, weight : Nat, prepaid : Nat, intentions : Nat, single : Nat,
     pairs : Nat, extrinsics : Nat]
Frames ==
    [signer : Accounts \union {Governance},
     origin : Accounts \union {Derived, Root, Collective},
     trusted : BOOLEAN, batched : BOOLEAN, stops : BOOLEAN, call : Calls,
     count : Nat \ {0}, copies : Nat \ {0}, depth : Nat]

\* A chain at its genesis, whatever genesis has configured.
GenesisStorage == [number |-> 0, minted |-> 0, full |-> {}]
RuntimeInit ==
    /\ config \in Configs
    /\ storage = GenesisStorage
    /\ phase = "none"
    /\ block = NoBlock
    /\ frame = NoFrame

RuntimeSpec == RuntimeInit /\ [][RuntimeNext]_runtimeVars

-----------------------------------------------------------------------------
(* Properties                                                              *)

\* Type invariant of the runtime's state: a dispatch is in progress only while
\* the block takes extrinsics.
RuntimeTypeOK ==
    /\ config \in Configs
    /\ storage \in Storages
    /\ phase \in {"none", "extrinsics", "finalized"}
    /\ block \in Blocks
    /\ frame # NoFrame => frame \in Frames /\ phase = "extrinsics"

\* Resolving the intentions is paid for before it is done: whatever mix of
\* calls a block has taken, failed ones included, the weight it has charged
\* for on_finalize covers each of the three benchmarks of on_finalize for the
\* intentions and the pairs it has registered (exchange lib.rs, the weight
\* attributes of sell and buy and on_initialize).
FinalizePrepaid ==
    (phase = "extrinsics" /\ block.intentions > 0) =>
        LET t == block.intentions
            more == block.pairs - 1
        IN  /\ on_finalize(t) + more * on_finalize(0) <= block.prepaid
            /\ on_finalize_buys_no_matches(t)
                  + more * on_finalize_buys_no_matches(0) <= block.prepaid
            /\ on_finalize_sells_no_matches(t)
                  + more * on_finalize_sells_no_matches(0) <= block.prepaid

\* No block takes more intentions in extrinsics of their own than the
\* benchmarks behind those weights have measured, MAX_INTENTIONS_IN_BLOCK: the
\* weight of the extrinsics bounds them.  A batch, which shares one base
\* weight, can go beyond it.
IntentionsWithinBenchmark ==
    phase = "extrinsics" => block.single <= MAX_INTENTIONS_IN_BLOCK

\* What a closed pallet does is done at the word of the sudo key: intentions
\* are registered and currencies minted only in extrinsics the key has
\* signed, however the calls are nested.
ClosedPalletsNeedSudo ==
    [][(/\ phase = "extrinsics" /\ phase' = "extrinsics"
        /\ \/ block'.intentions # block.intentions
           \/ block'.faucet # block.faucet) => frame.signer = config.sudo]_runtimeVars

\* The mint limit holds for the last currency of the list in spite of mints
\* that fail half way, and a currency is never minted more often than one
\* before it in the list.
MintLimitHolds ==
    phase = "extrinsics" =>
        LET received == block.faucet.received
        IN  /\ \A i, j \in DOMAIN received : i <= j => received[j] <= received[i]
            /\ \A i \in DOMAIN received :
                  i = Len(config.faucet.mintable_currencies)
                      => received[i] <= config.faucet.mint_limit
=============================================================================
