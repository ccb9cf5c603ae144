--------------------------- MODULE RuntimeProofs ---------------------------
(***************************************************************************)
(* Proofs about the blocks of Runtime, for every set of accounts, every    *)
(* choice of calls, counts and nesting, and every genesis configuration of *)
(* the sudo key and the faucet.                                            *)
(*                                                                         *)
(* The inductive invariant adds to the types where the origin of a nested  *)
(* dispatch can come from (OriginsTraced), what the block has charged for  *)
(* the intentions it holds and for those the dispatch in progress may      *)
(* still register (BlockPaid), and that a mint is counted exactly when the *)
(* last currency of the list was deposited (MintsCounted).                 *)
(***************************************************************************)
EXTENDS Runtime, TLAPS

\* What a block charges at least for an intention: its share of on_finalize,
\* and the weight of an extrinsic that registers one.
ShareLeast == 952046
WeightLeast == 2219796

\* The intentions the dispatch in progress has paid for and not registered.
Pending ==
    IF frame # NoFrame /\ frame.signer # Governance
          /\ PalletOf[frame.call] = "Exchange"
    THEN frame.count ELSE 0
PendingSingle ==
    IF frame # NoFrame /\ frame.count = frame.copies THEN Pending ELSE 0

\* Only the sudo key has calls dispatched past the filter or with another
\* account's origin, but for what the scheduler dispatches, which stays root.
OriginsTraced ==
    frame # NoFrame =>
        /\ frame.signer = Governance => frame.origin = Root
        /\ frame.origin = config.sudo => frame.signer = config.sudo
        /\ frame.trusted \/ frame.origin = Root
              => frame.signer \in {config.sudo, Governance}

BlockPaid ==
    phase = "extrinsics" =>
        /\ block.pairs <= block.intentions
        /\ block.intentions > 0 => block.pairs > 0
        /\ known_overhead_for_on_finalize
              + ShareLeast * (block.intentions + Pending) <= block.prepaid
        /\ WeightLeast * (block.single + PendingSingle) <= block.weight
        /\ block.weight <= NormalMaxTotal

\* Counts that never grow along the list, a first part of it, and the counts
\* after further deposits of that part.
Ordered(q, last) ==
    q \in [1..last -> Nat] /\ \A i, j \in 1..last : i <= j => q[j] <= q[i]
FirstPart(D, last) == \A i, j \in 1..last : j \in D /\ i <= j => i \in D
Extended(r, D, times, last) ==
    [i \in 1..last |-> IF i \in D THEN r[i] + times ELSE r[i]]

MintsCounted ==
    /\ storage.minted = 0
    /\ phase = "finalized" => block.faucet.minted = 0
    /\ phase = "extrinsics" =>
          LET received == block.faucet.received
              last == Len(config.faucet.mintable_currencies)
          IN  /\ Ordered(received, last)
              /\ last > 0 => received[last] = block.faucet.minted
              /\ block.faucet.minted <= config.faucet.mint_limit

IInv == RuntimeTypeOK /\ OriginsTraced /\ BlockPaid /\ MintsCounted

-----------------------------------------------------------------------------
(* Weights and mints                                                       *)

\* The weights of the calls, and what they pay for on_finalize, are naturals;
\* those of an intention are at least the constants above.
LEMMA WeightsTyped ==
    ASSUME NEW call \in Calls
    PROVE  /\ CallWeight[call] \in Nat
           /\ FinalizeShare(call) \in Nat
           /\ PalletOf[call] = "Exchange" =>
                 /\ FinalizeShare(call) >= ShareLeast
                 /\ CallWeight[call] + ExtrinsicBaseWeight >= WeightLeast
  <1>1. call \in CallNames
    BY CallsAssumption
  <1>2. CallWeight[call] \in Nat
    BY <1>1 DEF CallNames, CallWeight, SellIntention, BuyIntention,
        sell_intention, buy_intention, on_finalize_for_one_sell_extrinsic,
        on_finalize_for_one_buy_extrinsic, known_overhead_for_on_finalize,
        create_pool, add_liquidity, remove_liquidity, xyk_sell, xyk_buy,
        set_currency, add_currency, remove_currency, add_member, remove_member,
        claim, transfer, transfer_keep_alive, force_transfer,
        set_balance_creating, set_balance_killing, DbWeight
  <1>3. FinalizeShare(call) \in Nat
    BY DEF FinalizeShare, SellIntention, BuyIntention, sell_intention,
        buy_intention, on_finalize_for_one_sell_extrinsic,
        on_finalize_for_one_buy_extrinsic, known_overhead_for_on_finalize,
        DbWeight
  <1>4. ASSUME PalletOf[call] = "Exchange"
        PROVE  call \in {"exchange_sell", "exchange_buy"}
    BY <1>1, <1>4 DEF CallNames, CallWeight, PalletOf
  <1>5. ASSUME call \in {"exchange_sell", "exchange_buy"}
        PROVE  /\ FinalizeShare(call) >= ShareLeast
               /\ CallWeight[call] + ExtrinsicBaseWeight >= WeightLeast
    BY <1>5 DEF FinalizeShare, CallWeight, SellIntention, BuyIntention,
        sell_intention, buy_intention, on_finalize_for_one_sell_extrinsic,
        on_finalize_for_one_buy_extrinsic, known_overhead_for_on_finalize,
        DbWeight, ExtrinsicBaseWeight, swap_currency, ShareLeast, WeightLeast
  <1>. QED
    BY <1>2, <1>3, <1>4, <1>5, Zenon

\* Depositing more of a first part of the list keeps the counts ordered.
LEMMA DepositsOrdered ==
    ASSUME NEW last \in Nat, NEW D, NEW r, NEW times \in Nat,
           Ordered(r, last), FirstPart(D, last)
    PROVE  Ordered(Extended(r, D, times, last), last)
  <1> DEFINE q == Extended(r, D, times, last)
  <1>1. \A i \in 1..last : q[i] = (IF i \in D THEN r[i] + times ELSE r[i]) /\ r[i] \in Nat
    BY DEF Ordered, Extended
  <1>2. q \in [1..last -> Nat]
    <2>1. \A i \in 1..last : (IF i \in D THEN r[i] + times ELSE r[i]) \in Nat
      BY <1>1
    <2>. QED
      BY <2>1 DEF Extended
  <1>3. ASSUME NEW i \in 1..last, NEW j \in 1..last, i <= j
        PROVE  q[j] <= q[i]
    <2>1. r[j] <= r[i] /\ r[i] \in Nat /\ r[j] \in Nat /\ (j \in D => i \in D)
      BY <1>3 DEF Ordered, FirstPart
    <2>2. CASE j \in D
      <3>1. q[j] = r[j] + times /\ q[i] = r[i] + times
        BY <1>1, <2>1, <2>2
      <3>. QED
        BY <2>1, <3>1
    <2>3. CASE j \notin D
      <3>1. q[j] = r[j] /\ (q[i] = r[i] + times \/ q[i] = r[i])
        BY <1>1, <2>3
      <3>. QED
        BY <2>1, <3>1
    <2>. QED
      BY <2>2, <2>3
  <1>. QED
    BY <1>2, <1>3 DEF Ordered

\* A mint, or several in a row, from the faucet's state at some moment of a
\* block: the type and the three facts of MintsCounted are kept.
LEMMA MintFacts ==
    ASSUME NEW g \in [rampage : BOOLEAN, mint_limit : Nat,
                      mintable_currencies : Seq(Nat)],
           NEW f \in [minted : Nat, full : SUBSET Currencies,
                      received : [1..Len(g.mintable_currencies) -> Nat]],
           NEW n \in Nat, NEW tries \in Nat, NEW last, NEW m,
           last = Len(g.mintable_currencies),
           m = Mint(g, f, n, tries),
           CanMint(g, f),
           Ordered(f.received, last),
           last > 0 => f.received[last] = f.minted
    PROVE  /\ m \in [minted : Nat, full : SUBSET Currencies,
                     received : [1..last -> Nat]]
           /\ Ordered(m.received, last)
           /\ last > 0 => m.received[last] = m.minted
           /\ m.minted <= g.mint_limit
  <1> DEFINE times == Times(g, f, n, tries)
             D == Deposited(g, f)
             q == Extended(f.received, D, times, last)
             minted == IF Completes(g, f) THEN f.minted + times ELSE f.minted
  <1>1. last \in Nat
    OBVIOUS
  <1>2. times \in Nat
    BY DEF Times, CanMint
  <1>3. Completes(g, f) => f.minted + times <= g.mint_limit
    BY DEF Times, CanMint
  <1>4. D \subseteq 1..last /\ FirstPart(D, last)
    BY <1>1 DEF Deposited, FirstPart
  <1>5. Completes(g, f) <=> D = 1..last
    BY DEF Completes
  <1>6. m = [minted |-> minted, full |-> f.full, received |-> q]
    BY Zenon DEF Mint, Extended
  <1>7. /\ f.minted \in Nat /\ g.mint_limit \in Nat /\ f.full \subseteq Currencies
        /\ f.minted < g.mint_limit
    BY DEF CanMint
  <1>8. minted \in Nat /\ minted <= g.mint_limit
    BY <1>2, <1>3, <1>7
  <1>9. Ordered(q, last)
    BY <1>1, <1>2, <1>4, DepositsOrdered, Zenon
  <1>10. last > 0 => q[last] = minted
    <2> HAVE last > 0
    <2>1. last \in 1..last
      BY <1>1
    <2>2. last \in D => \A i \in 1..last : i \in D
      BY <1>1, <1>4, <2>1 DEF FirstPart
    <2>3. last \in D <=> Completes(g, f)
      BY <1>4, <1>5, <2>1, <2>2, Zenon
    <2>. QED
      BY <2>1, <2>3 DEF Extended
  <1> HIDE DEF q, minted
  <1>. QED
    BY <1>6, <1>7, <1>8, <1>9, <1>10 DEF Ordered

-----------------------------------------------------------------------------
(* The invariant is inductive                                              *)

\* A block is typed whose faucet is, and so is the empty one.
LEMMA FreshTyped ==
    ASSUME config \in Configs, NEW minted \in Nat, NEW full \in SUBSET Currencies
    PROVE  /\ FreshBlock(config.faucet, minted, full) \in Faucets
           /\ [faucet |-> FreshBlock(config.faucet, minted, full),
               weight |-> 0, prepaid |-> known_overhead_for_on_finalize,
               intentions |-> 0, single |-> 0, pairs |-> 0, extrinsics |-> 0]
                 \in Blocks
  <1>1. FreshBlock(config.faucet, minted, full) \in Faucets
    BY DEF FreshBlock, Faucets
  <1>. QED
    BY <1>1 DEF Blocks, known_overhead_for_on_finalize, DbWeight

\* The value of `block` between two blocks is well typed.
LEMMA NoBlockTyped ==
    ASSUME config \in Configs, storage \in Storages
    PROVE  NewBlock \in Blocks /\ NoBlock \in Blocks
  <1>1. NewBlock \in Blocks
    BY FreshTyped DEF NewBlock, Storages
  <1>2. FreshBlock(config.faucet, 0, {}) \in Faucets
    BY FreshTyped, Zenon
  <1>. QED
    BY <1>1, <1>2 DEF NoBlock, Blocks

\* The invariant holds at genesis.
LEMMA InitHolds == RuntimeInit => IInv
  <1> HAVE RuntimeInit
  <1>1. storage \in Storages /\ storage.minted = 0
    BY DEF RuntimeInit, GenesisStorage, Storages
  <1>2. block \in Blocks
    BY <1>1, NoBlockTyped DEF RuntimeInit
  <1>. QED
    BY <1>1, <1>2 DEF RuntimeInit, IInv, RuntimeTypeOK, OriginsTraced, BlockPaid,
        MintsCounted

\* A step that changes nothing keeps the invariant.
LEMMA StutterKeeps == IInv /\ UNCHANGED runtimeVars => IInv'
  BY DEF IInv, runtimeVars, RuntimeTypeOK, OriginsTraced, BlockPaid, MintsCounted,
      Blocks, Faucets, Pending, PendingSingle

\* initialize_block: what the scheduler dispatches has paid for no intention.
LEMMA InitializeKeeps ==
    ASSUME IInv, NEW dispatch \in {NoFrame} \union {EnactedFrame(call) : call \in Calls},
           InitializeBlock(dispatch)
    PROVE  IInv'
  <1> USE DEF InitializeBlock
  <1>1. /\ config' = config /\ storage' = storage /\ phase' = "extrinsics"
        /\ block' = NewBlock /\ config \in Configs /\ storage \in Storages
        /\ storage.minted = 0
    BY DEF IInv, RuntimeTypeOK, MintsCounted
  <1>2. frame' = NoFrame
          \/ (/\ frame' \in Frames /\ frame'.signer = Governance
              /\ frame'.origin = Root)
    <2>1. CASE dispatch = NoFrame
      BY <2>1
    <2>2. ASSUME NEW call \in Calls, dispatch = EnactedFrame(call)
          PROVE  /\ frame' \in Frames /\ frame'.signer = Governance
                 /\ frame'.origin = Root
      BY <2>2 DEF EnactedFrame, Frames
    <2>. QED
      BY <2>1, <2>2
  <1>3. RuntimeTypeOK'
    <2>1. NewBlock \in Blocks
      BY <1>1, NoBlockTyped
    <2>. QED
      BY <1>1, <1>2, <2>1 DEF RuntimeTypeOK, Blocks, Faucets
  <1>4. OriginsTraced'
    BY <1>1, <1>2, OriginsAssumption DEF OriginsTraced, Configs
  <1>5. BlockPaid'
    <2>1. Pending' = 0 /\ PendingSingle' = 0
      BY <1>2 DEF Pending, PendingSingle
    <2>. QED
      BY <1>1, <2>1 DEF BlockPaid, NewBlock, known_overhead_for_on_finalize,
          DbWeight, ShareLeast, WeightLeast, NormalMaxTotal, MAXIMUM_BLOCK_WEIGHT,
          NORMAL_DISPATCH_RATIO
  <1>6. MintsCounted'
    <2> DEFINE last == Len(config.faucet.mintable_currencies)
    <2>1. /\ block'.faucet.received = [i \in 1..last |-> 0]
          /\ block'.faucet.minted = 0
      <3>1. block'.faucet = FreshBlock(config.faucet, 0, storage.full)
        BY <1>1 DEF NewBlock
      <3>. QED
        BY <3>1 DEF FreshBlock
    <2>2. last \in Nat /\ config.faucet.mint_limit \in Nat
      BY <1>1 DEF Configs
    <2> HIDE DEF last
    <2>3. Ordered([i \in 1..last |-> 0], last)
      BY <2>2 DEF Ordered
    <2>4. last > 0 => [i \in 1..last |-> 0][last] = 0
      BY <2>2
    <2>. QED
      BY <1>1, <2>1, <2>2, <2>3, <2>4 DEF MintsCounted, last
  <1>. QED
    BY <1>3, <1>4, <1>5, <1>6 DEF IInv

\* The nested dispatches keep who signed and what is called.
LEMMA NestedKeeps ==
    ASSUME IInv, frame # NoFrame, UNCHANGED <<config, storage, phase, block>>,
           frame' \in Frames, frame'.signer = frame.signer,
           frame'.call = frame.call, frame'.count = frame.count,
           frame'.copies = frame.copies, OriginsTraced'
    PROVE  IInv'
  <1>1. RuntimeTypeOK'
    BY DEF IInv, RuntimeTypeOK, Blocks, Faucets
  <1>2. BlockPaid'
    <2>1. /\ Pending' = Pending \/ (Pending' = 0 /\ Pending \in Nat)
          /\ PendingSingle' = PendingSingle \/ (PendingSingle' = 0 /\ PendingSingle \in Nat)
      <3>1. frame.count \in Nat
        BY DEF IInv, RuntimeTypeOK, Frames
      <3>. QED
        BY <3>1 DEF Pending, PendingSingle
    <2>2. block.intentions \in Nat /\ block.single \in Nat /\ block.prepaid \in Nat
          /\ block.weight \in Nat
      BY DEF IInv, RuntimeTypeOK, Blocks
    <2>. QED
      BY <2>1, <2>2 DEF IInv, BlockPaid, known_overhead_for_on_finalize,
          DbWeight, ShareLeast, WeightLeast
  <1>3. MintsCounted'
    BY DEF IInv, MintsCounted
  <1>. QED
    BY <1>1, <1>2, <1>3 DEF IInv

\* What the frame of an inner call takes from the outer one.
LEMMA FrameFields ==
    ASSUME frame \in Frames
    PROVE  /\ frame.signer \in Accounts \union {Governance}
           /\ frame.origin \in Accounts \union {Derived, Root, Collective}
           /\ frame.stops \in BOOLEAN /\ frame.batched \in BOOLEAN
           /\ frame.call \in Calls /\ frame.count \in Nat \ {0}
           /\ frame.copies \in Nat \ {0} /\ frame.depth + 1 \in Nat
  BY DEF Frames

\* utility.batch keeps it: the filter is passed by for root alone.
LEMMA BatchKeeps ==
    ASSUME IInv, CallBatch
    PROVE  IInv'
  <1> DEFINE t == frame.origin = Root
             s == frame.stops \/ ~frame.batched
  <1>1. /\ frame # NoFrame /\ UNCHANGED <<config, storage, phase, block>>
        /\ frame' = Inner(frame, frame.origin, t, s, TRUE)
    BY DEF CallBatch, Nests
  <1>2. frame \in Frames
    BY <1>1 DEF IInv, RuntimeTypeOK
  <1>3. t \in BOOLEAN /\ s \in BOOLEAN
    BY Zenon
  <1> HIDE DEF t, s
  <1>4. /\ frame' \in Frames /\ frame'.signer = frame.signer
        /\ frame'.call = frame.call /\ frame'.count = frame.count
        /\ frame'.copies = frame.copies /\ frame'.origin = frame.origin
        /\ frame'.trusted = t
    BY <1>1, <1>2, <1>3, FrameFields DEF Inner, Frames
  <1>5. OriginsTraced'
    BY <1>1, <1>4, Zenon DEF IInv, OriginsTraced, t
  <1>. QED
    BY <1>1, <1>4, <1>5, NestedKeeps

\* utility.as_derivative keeps it: its inner call is filtered.
LEMMA AsDerivativeKeeps ==
    ASSUME IInv, CallAsDerivative
    PROVE  IInv'
  <1>1. /\ frame # NoFrame /\ UNCHANGED <<config, storage, phase, block>>
        /\ frame' = Inner(frame, Derived, FALSE, frame.stops, frame.batched)
        /\ frame.origin # Root
    BY DEF CallAsDerivative, Nests, Signed
  <1>2. frame \in Frames
    BY <1>1 DEF IInv, RuntimeTypeOK
  <1>3. /\ frame' \in Frames /\ frame'.signer = frame.signer
        /\ frame'.call = frame.call /\ frame'.count = frame.count
        /\ frame'.copies = frame.copies /\ frame'.origin = Derived
        /\ frame'.trusted = FALSE
    BY <1>1, <1>2, FrameFields DEF Inner, Frames
  <1>4. OriginsTraced'
    BY <1>1, <1>3, OriginsAssumption, Zenon
       DEF IInv, RuntimeTypeOK, Configs, OriginsTraced
  <1>. QED
    BY <1>1, <1>3, <1>4, NestedKeeps

\* A call of a collective keeps it: it is filtered, and its origin is not root.
LEMMA CollectiveKeeps ==
    ASSUME IInv, CallCollective
    PROVE  IInv'
  <1>1. /\ frame # NoFrame /\ UNCHANGED <<config, storage, phase, block>>
        /\ frame' = Inner(frame, Collective, FALSE, FALSE, frame.batched)
        /\ frame.origin # Root
    BY DEF CallCollective, Nests, Signed
  <1>2. frame \in Frames
    BY <1>1 DEF IInv, RuntimeTypeOK
  <1>3. /\ frame' \in Frames /\ frame'.signer = frame.signer
        /\ frame'.call = frame.call /\ frame'.count = frame.count
        /\ frame'.copies = frame.copies /\ frame'.origin = Collective
        /\ frame'.trusted = FALSE
    BY <1>1, <1>2, FrameFields DEF Inner, Frames
  <1>4. OriginsTraced'
    BY <1>1, <1>3, OriginsAssumption, Zenon
       DEF IInv, RuntimeTypeOK, Configs, OriginsTraced
  <1>. QED
    BY <1>1, <1>3, <1>4, NestedKeeps

\* Who has the origin of the sudo key has signed with it, and may have any
\* call dispatched.
LEMMA SudoKeeps ==
    ASSUME IInv, NEW origin \in Accounts \union {Root}, CallSudo(origin)
    PROVE  IInv'
  <1>1. /\ frame # NoFrame /\ UNCHANGED <<config, storage, phase, block>>
        /\ frame' = Inner(frame, origin, TRUE, FALSE, frame.batched)
        /\ frame.origin = config.sudo
    BY DEF CallSudo, Nests
  <1>2. frame \in Frames
    BY <1>1 DEF IInv, RuntimeTypeOK
  <1>3. /\ frame' \in Frames /\ frame'.signer = frame.signer
        /\ frame'.call = frame.call /\ frame'.count = frame.count
        /\ frame'.copies = frame.copies /\ frame'.origin = origin
    BY <1>1, <1>2, FrameFields DEF Inner, Frames
  <1>4. frame.signer = config.sudo /\ config.sudo # Governance
    BY <1>1, OriginsAssumption DEF IInv, RuntimeTypeOK, Configs, OriginsTraced
  <1>5. OriginsTraced'
    BY <1>1, <1>3, <1>4, Zenon DEF OriginsTraced
  <1>. QED
    BY <1>1, <1>3, <1>5, NestedKeeps

\* What a step may use of the invariant while a block takes extrinsics.
LEMMA BlockFields ==
    ASSUME IInv
    PROVE  /\ block \in Blocks /\ config \in Configs /\ storage \in Storages
           /\ block.faucet \in Faucets
           /\ block.weight \in Nat /\ block.prepaid \in Nat
           /\ block.intentions \in Nat /\ block.single \in Nat
           /\ block.pairs \in Nat /\ block.extrinsics \in Nat
           /\ Pending \in Nat /\ PendingSingle \in Nat
  <1>1. frame # NoFrame => frame.count \in Nat
    BY DEF IInv, RuntimeTypeOK, Frames
  <1>2. Pending \in Nat /\ PendingSingle \in Nat
    BY <1>1 DEF Pending, PendingSingle
  <1>. QED
    BY <1>2 DEF IInv, RuntimeTypeOK, Blocks

\* What was charged for the dispatch in progress stays charged.
LEMMA PaidWithout ==
    ASSUME IInv, phase = "extrinsics"
    PROVE  /\ block.pairs <= block.intentions
           /\ block.intentions > 0 => block.pairs > 0
           /\ known_overhead_for_on_finalize + ShareLeast * (block.intentions + 0)
                 <= block.prepaid
           /\ WeightLeast * (block.single + 0) <= block.weight
           /\ block.weight <= NormalMaxTotal
  BY BlockFields DEF IInv, BlockPaid, known_overhead_for_on_finalize, DbWeight,
      ShareLeast, WeightLeast

\* The dispatch ends without an effect.
LEMMA EndDispatchKeeps ==
    ASSUME IInv, EndDispatch
    PROVE  IInv'
  <1>1. frame' = NoFrame /\ UNCHANGED <<config, storage, phase, block>>
    BY DEF EndDispatch
  <1>2. RuntimeTypeOK' /\ OriginsTraced' /\ MintsCounted'
    BY <1>1 DEF IInv, RuntimeTypeOK, OriginsTraced, MintsCounted, Blocks, Faucets
  <1>3. Pending' = 0 /\ PendingSingle' = 0
    BY <1>1 DEF Pending, PendingSingle
  <1>4. BlockPaid'
    BY <1>1, <1>3, PaidWithout DEF BlockPaid
  <1>. QED
    BY <1>2, <1>4 DEF IInv

\* Charging p for y more keeps the charge b for x at k each, over a base of c.
LEMMA ChargesAdd ==
    ASSUME NEW k \in Nat, NEW c \in Nat, NEW x \in Nat, NEW y \in Nat,
           NEW b \in Nat, NEW p \in Nat, c + k * x <= b, k * y <= p
    PROVE  c + k * (x + y) <= b + p
  <1>1. k * (x + y) = k * x + k * y
    BY SMT
  <1>2. k * x \in Nat /\ k * y \in Nat
    BY SMT
  <1>. QED
    BY <1>1, <1>2, SMT

\* CheckWeight charges an extrinsic before it is dispatched, intentions with
\* their share of on_finalize.
LEMMA ApplyKeeps ==
    ASSUME IInv, NEW signer \in Accounts, NEW call \in Calls,
           NEW count \in Nat \ {0}, NEW copies \in Nat \ {0},
           ApplyExtrinsic(signer, call, count, copies)
    PROVE  IInv'
  <1> DEFINE w == ExtrinsicWeight(call, count, copies)
             p == count * FinalizeShare(call)
  <1>1. /\ phase = "extrinsics" /\ phase' = phase /\ config' = config
        /\ storage' = storage /\ frame = NoFrame
        /\ w <= NormalMaxTotal - block.weight
        /\ block' = [block EXCEPT !.weight = @ + w, !.prepaid = @ + p,
                                  !.extrinsics = @ + 1]
        /\ frame' = [signer |-> signer, origin |-> signer, trusted |-> FALSE,
                     batched |-> FALSE, stops |-> FALSE, call |-> call,
                     count |-> count, copies |-> copies, depth |-> 0]
    BY DEF ApplyExtrinsic
  <1>2. /\ CallWeight[call] \in Nat /\ FinalizeShare(call) \in Nat
        /\ ExtrinsicBaseWeight \in Nat
    BY WeightsTyped DEF ExtrinsicBaseWeight, swap_currency, DbWeight
  <1>3. p \in Nat
    BY <1>2
  <1>4. w \in Nat
    <2>1. copies * ExtrinsicBaseWeight \in Nat /\ count * CallWeight[call] \in Nat
      BY <1>2
    <2>. QED
      BY <2>1 DEF ExtrinsicWeight
  <1>5. PalletOf[call] = "Exchange" => p >= ShareLeast * count
    BY <1>2, WeightsTyped, SMT DEF ShareLeast
  <1>6. PalletOf[call] = "Exchange" /\ count = copies => w >= WeightLeast * count
    <2> HAVE PalletOf[call] = "Exchange" /\ count = copies
    <2> DEFINE a == CallWeight[call]
               b == ExtrinsicBaseWeight
    <2>1. a + b >= WeightLeast /\ a \in Nat /\ b \in Nat
      BY <1>2, WeightsTyped
    <2>2. w = count * b + count * a
      BY DEF ExtrinsicWeight
    <2> HIDE DEF a, b, w
    <2>3. count * b + count * a = count * (a + b)
      BY <2>1
    <2>4. count * (a + b) >= count * WeightLeast
      BY <2>1, SMT DEF WeightLeast
    <2>. QED
      BY <2>1, <2>2, <2>3, <2>4, SMT DEF WeightLeast
  <1> HIDE DEF w, p
  <1>7. /\ block' \in Blocks
        /\ block'.weight = block.weight + w /\ block'.prepaid = block.prepaid + p
        /\ block'.intentions = block.intentions /\ block'.single = block.single
        /\ block'.pairs = block.pairs /\ block'.faucet = block.faucet
    <2>1. block' = [faucet |-> block.faucet, weight |-> block.weight + w,
                    prepaid |-> block.prepaid + p, intentions |-> block.intentions,
                    single |-> block.single, pairs |-> block.pairs,
                    extrinsics |-> block.extrinsics + 1]
      BY <1>1, BlockFields, Zenon DEF Blocks
    <2>2. /\ block.weight + w \in Nat /\ block.prepaid + p \in Nat
          /\ block.extrinsics + 1 \in Nat
      BY <1>3, <1>4, BlockFields
    <2>. QED
      BY <2>1, <2>2, BlockFields DEF Blocks
  <1>8. RuntimeTypeOK'
    <2>1. frame' \in Frames
      BY <1>1 DEF Frames
    <2>. QED
      BY <1>1, <1>7, <2>1, SMTT(60) DEF IInv, RuntimeTypeOK, Blocks, Faucets
  <1>9. OriginsTraced'
    BY <1>1, OriginsAssumption DEF OriginsTraced
  <1>10. BlockPaid'
    <2>1. Pending = 0 /\ PendingSingle = 0
      BY <1>1 DEF Pending, PendingSingle
    <2>2. /\ Pending' \in {0, count}
          /\ Pending' # 0 => PalletOf[call] = "Exchange"
          /\ PendingSingle' \in {0, count}
          /\ PendingSingle' # 0 => PalletOf[call] = "Exchange" /\ count = copies
      BY <1>1 DEF Pending, PendingSingle
    <2>3. Pending' \in Nat /\ PendingSingle' \in Nat
      BY <2>2
    <2>4. p >= ShareLeast * Pending'
      <3>1. CASE Pending' = 0
        BY <1>3, <3>1, SMT DEF ShareLeast
      <3>2. CASE Pending' = count /\ PalletOf[call] = "Exchange"
        BY <1>5, <3>2, SMT
      <3>. QED
        BY <2>2, <3>1, <3>2
    <2>5. w >= WeightLeast * PendingSingle'
      <3>1. CASE PendingSingle' = 0
        BY <1>4, <3>1, SMT DEF WeightLeast
      <3>2. CASE PendingSingle' = count /\ PalletOf[call] = "Exchange" /\ count = copies
        BY <1>6, <3>2, SMT
      <3>. QED
        BY <2>2, <3>1, <3>2
    <2> DEFINE P == Pending'
               S == PendingSingle'
    <2>6. /\ block.pairs <= block.intentions
          /\ block.intentions > 0 => block.pairs > 0
          /\ known_overhead_for_on_finalize + ShareLeast * block.intentions
                <= block.prepaid
          /\ WeightLeast * block.single <= block.weight
      BY <1>1, <2>1, BlockFields, SMT DEF IInv, BlockPaid
    <2>7. known_overhead_for_on_finalize + ShareLeast * (block.intentions + P)
             <= block.prepaid + p
      <3>1. ShareLeast \in Nat /\ known_overhead_for_on_finalize \in Nat
        BY SMT DEF ShareLeast, known_overhead_for_on_finalize, DbWeight
      <3>2. P \in Nat /\ ShareLeast * P <= p
        BY <1>3, <2>3, <2>4, <3>1, Zenon
      <3> HIDE DEF P
      <3>. QED
        BY <1>3, <2>6, <3>1, <3>2, BlockFields, ChargesAdd
    <2>8. WeightLeast * (block.single + S) <= block.weight + w
      <3>1. WeightLeast \in Nat
        BY SMT DEF WeightLeast
      <3>2. S \in Nat /\ WeightLeast * S <= w
        BY <1>4, <2>3, <2>5, <3>1, Zenon
      <3>3. 0 + WeightLeast * block.single <= block.weight
        BY <2>6, <3>1, BlockFields
      <3> HIDE DEF S
      <3>4. 0 + WeightLeast * (block.single + S) <= block.weight + w
        BY <1>4, <3>1, <3>2, <3>3, BlockFields, ChargesAdd
      <3>. QED
        BY <3>1, <3>2, <3>4, BlockFields
    <2>9. block.weight + w <= NormalMaxTotal
      BY <1>1, <1>4, BlockFields, SMT
         DEF NormalMaxTotal, MAXIMUM_BLOCK_WEIGHT, NORMAL_DISPATCH_RATIO
    <2>. QED
      BY <1>1, <1>7, <2>6, <2>7, <2>8, <2>9 DEF BlockPaid
  <1>11. MintsCounted'
    BY <1>1, <1>7 DEF IInv, MintsCounted
  <1>. QED
    BY <1>8, <1>9, <1>10, <1>11 DEF IInv

\* Who acts in a pallet the filter closes: a signed origin that passes the
\* filter by has got there by the sudo key.
LEMMA TrustedSigner ==
    ASSUME IInv, frame # NoFrame, frame.origin # Root,
           NEW pallet \in {"Exchange", "Faucet"}, Passes(pallet)
    PROVE  /\ frame.signer = config.sudo /\ frame.signer # Governance
           /\ frame \in Frames /\ phase = "extrinsics"
  <1>1. frame.trusted
    BY DEF Passes, BaseFilter
  <1>2. frame.signer \in {config.sudo, Governance} /\ frame.signer # Governance
    BY <1>1 DEF IInv, OriginsTraced
  <1>. QED
    BY <1>2 DEF IInv, RuntimeTypeOK

\* An intention is registered by a dispatch that has paid for it.
LEMMA RegisterKeeps ==
    ASSUME IInv, frame # NoFrame, NEW fresh \in {0, 1, frame.count},
           RegisterIntentions(fresh)
    PROVE  IInv'
  <1> DEFINE one == IF frame.count = frame.copies THEN block.single + frame.count
                                                  ELSE block.single
  <1>1. /\ config' = config /\ storage' = storage /\ phase' = phase
        /\ frame' = NoFrame /\ frame.origin # Root /\ Passes("Exchange")
        /\ PalletOf[frame.call] = "Exchange" /\ block.pairs + fresh > 0
        /\ block' = [block EXCEPT !.intentions = @ + frame.count, !.single = one,
                                  !.pairs = @ + fresh]
    BY DEF RegisterIntentions, Runs, Signed
  <1>2. frame.signer # Governance /\ frame \in Frames /\ phase = "extrinsics"
    BY <1>1, TrustedSigner
  <1>3. frame.count \in Nat /\ frame.count > 0 /\ fresh \in Nat /\ fresh <= frame.count
    BY <1>2 DEF Frames
  <1>4. /\ block' = [faucet |-> block.faucet, weight |-> block.weight,
                     prepaid |-> block.prepaid,
                     intentions |-> block.intentions + frame.count,
                     single |-> one, pairs |-> block.pairs + fresh,
                     extrinsics |-> block.extrinsics]
    BY <1>1, BlockFields, Zenon DEF Blocks
  <1>5. /\ block.intentions + frame.count \in Nat /\ one \in Nat
        /\ block.pairs + fresh \in Nat
    BY <1>3, BlockFields
  <1>6. Pending = frame.count /\ one = block.single + PendingSingle
    BY <1>1, <1>2, <1>3, BlockFields DEF Pending, PendingSingle
  <1> HIDE DEF one
  <1>7. RuntimeTypeOK'
    <2>1. block' \in Blocks
      BY <1>4, <1>5, BlockFields DEF Blocks
    <2>. QED
      BY <1>1, <2>1 DEF IInv, RuntimeTypeOK, Blocks, Faucets
  <1>8. OriginsTraced'
    BY <1>1 DEF OriginsTraced
  <1>9. BlockPaid'
    <2>1. Pending' = 0 /\ PendingSingle' = 0
      BY <1>1 DEF Pending, PendingSingle
    <2>2. /\ block.pairs <= block.intentions
          /\ known_overhead_for_on_finalize
                + ShareLeast * (block.intentions + frame.count) <= block.prepaid
          /\ WeightLeast * one <= block.weight /\ block.weight <= NormalMaxTotal
      BY <1>2, <1>6 DEF IInv, BlockPaid
    <2>3. /\ (block.intentions + frame.count) + 0 = block.intentions + frame.count
          /\ one + 0 = one
      BY <1>5
    <2>4. block.pairs + fresh <= block.intentions + frame.count
      BY <1>3, <2>2, BlockFields
    <2>. QED
      BY <1>1, <1>4, <2>1, <2>2, <2>3, <2>4 DEF BlockPaid
  <1>10. MintsCounted'
    BY <1>1, <1>4 DEF IInv, MintsCounted
  <1>. QED
    BY <1>7, <1>8, <1>9, <1>10 DEF IInv

\* A step of the faucet: it changes nothing of the block but the faucet, and
\* ends the dispatch.
LEMMA FaucetKeeps ==
    ASSUME IInv, frame # NoFrame, NEW f \in Faucets,
           UNCHANGED <<config, storage, phase>>, frame' = NoFrame,
           block' = [block EXCEPT !.faucet = f],
           LET last == Len(config.faucet.mintable_currencies)
           IN  /\ Ordered(f.received, last)
               /\ last > 0 => f.received[last] = f.minted
               /\ f.minted <= config.faucet.mint_limit
    PROVE  IInv'
  <1>1. block' = [faucet |-> f, weight |-> block.weight,
                  prepaid |-> block.prepaid, intentions |-> block.intentions,
                  single |-> block.single, pairs |-> block.pairs,
                  extrinsics |-> block.extrinsics]
    BY BlockFields DEF Blocks
  <1>2. phase = "extrinsics"
    BY DEF IInv, RuntimeTypeOK
  <1>3. RuntimeTypeOK'
    <2>1. block' \in Blocks
      BY <1>1, BlockFields DEF Blocks
    <2>. QED
      BY <2>1, SMTT(60) DEF IInv, RuntimeTypeOK, Blocks, Faucets
  <1>4. OriginsTraced'
    BY DEF OriginsTraced
  <1>5. BlockPaid'
    <2>1. Pending' = 0 /\ PendingSingle' = 0
      BY DEF Pending, PendingSingle
    <2>. QED
      BY <1>1, <1>2, <2>1, PaidWithout DEF BlockPaid
  <1>6. MintsCounted'
    BY <1>1, <1>2 DEF IInv, MintsCounted
  <1>. QED
    BY <1>3, <1>4, <1>5, <1>6 DEF IInv

\* faucet.mint keeps it: the limit bounds what a block's calls deposit.
LEMMA MintKeeps ==
    ASSUME IInv, FaucetMint
    PROVE  IInv'
  <1> DEFINE g == config.faucet
             last == Len(g.mintable_currencies)
             tries == IF frame.stops THEN frame.copies ELSE frame.count
             m == Mint(g, block.faucet, frame.count, tries)
  <1>1. /\ frame # NoFrame /\ frame.origin # Root /\ Passes("Faucet")
        /\ UNCHANGED <<config, storage, phase>> /\ frame' = NoFrame
        /\ CanMint(g, block.faucet) /\ block' = [block EXCEPT !.faucet = m]
    BY DEF FaucetMint, Runs, Signed
  <1>2. frame \in Frames /\ phase = "extrinsics"
    BY <1>1 DEF IInv, RuntimeTypeOK
  <1>3. frame.count \in Nat /\ tries \in Nat
    BY <1>2 DEF Frames
  <1>4. /\ Ordered(block.faucet.received, last)
        /\ last > 0 => block.faucet.received[last] = block.faucet.minted
    BY <1>2 DEF IInv, MintsCounted
  <1>5. g \in [rampage : BOOLEAN, mint_limit : Nat, mintable_currencies : Seq(Nat)]
    BY BlockFields DEF Configs
  <1>6. block.faucet \in [minted : Nat, full : SUBSET Currencies,
                          received : [1..last -> Nat]]
    BY BlockFields DEF Faucets
  <1> HIDE DEF g, tries, m
  <1>7. /\ m \in [minted : Nat, full : SUBSET Currencies, received : [1..last -> Nat]]
        /\ Ordered(m.received, last)
        /\ last > 0 => m.received[last] = m.minted
        /\ m.minted <= g.mint_limit
    BY <1>1, <1>3, <1>4, <1>5, <1>6, MintFacts DEF m
  <1>8. m \in Faucets
    BY <1>7 DEF Faucets, g
  <1>. QED
    BY <1>1, <1>7, <1>8, FaucetKeeps, ZenonT(30) DEF g

\* faucet.rampage_mint keeps it: it leaves the count alone.
LEMMA RampageKeeps ==
    ASSUME IInv, NEW currency \in Currencies, NEW amount \in {"some", "all"},
           FaucetRampageMint(currency, amount)
    PROVE  IInv'
  <1> DEFINE m == RampageMint(block.faucet, currency, amount)
  <1>1. /\ frame # NoFrame /\ UNCHANGED <<config, storage, phase>>
        /\ frame' = NoFrame /\ block' = [block EXCEPT !.faucet = m]
    BY DEF FaucetRampageMint, Runs, Signed
  <1>2. phase = "extrinsics"
    BY <1>1 DEF IInv, RuntimeTypeOK
  <1>3. /\ m \in Faucets /\ m.received = block.faucet.received
        /\ m.minted = block.faucet.minted
    BY BlockFields, Zenon DEF RampageMint, Faucets
  <1> HIDE DEF m
  <1>. QED
    BY <1>1, <1>2, <1>3, FaucetKeeps DEF IInv, MintsCounted

\* The end of a block leaves no mint counted.
LEMMA FinalizeKeeps ==
    ASSUME IInv, FinalizeBlock
    PROVE  IInv'
  <1> DEFINE f == OnFinalize(block.faucet)
  <1>1. /\ UNCHANGED <<config, storage, frame>> /\ frame = NoFrame
        /\ phase' = "finalized"
        /\ block' = [block EXCEPT !.intentions = 0, !.single = 0, !.pairs = 0,
                                  !.faucet = f]
    BY DEF FinalizeBlock
  <1>2. f \in Faucets /\ f.minted = 0
    BY BlockFields, Zenon DEF OnFinalize, Faucets
  <1> HIDE DEF f
  <1>3. block' \in Blocks /\ block'.faucet = f
    BY <1>1, <1>2, BlockFields, Zenon DEF Blocks
  <1>. QED
    BY <1>1, <1>2, <1>3 DEF IInv, RuntimeTypeOK, OriginsTraced, BlockPaid,
        MintsCounted, Blocks, Faucets

\* The import of a block keeps it: on_finalize has reset the count.
LEMMA ImportKeeps ==
    ASSUME IInv, ImportBlock
    PROVE  IInv'
  <1>1. /\ UNCHANGED <<config, frame>> /\ phase = "finalized" /\ phase' = "none"
        /\ storage' = [number |-> storage.number + 1,
                       minted |-> block.faucet.minted, full |-> block.faucet.full]
        /\ block' = NoBlock
    BY DEF ImportBlock
  <1>2. storage' \in Storages /\ storage'.minted = 0
    BY <1>1, BlockFields DEF IInv, MintsCounted, Storages, Faucets
  <1>3. NoBlock \in Blocks
    BY BlockFields, NoBlockTyped
  <1>4. frame = NoFrame
    BY <1>1 DEF IInv, RuntimeTypeOK
  <1>. QED
    BY <1>1, <1>2, <1>3, <1>4 DEF IInv, RuntimeTypeOK, OriginsTraced, BlockPaid,
        MintsCounted, Blocks, Faucets

\* Losing the block under construction keeps it.
LEMMA DropKeeps ==
    ASSUME IInv, DropBlock
    PROVE  IInv'
  <1>1. NoBlock \in Blocks
    BY BlockFields, NoBlockTyped
  <1>. QED
    BY <1>1 DEF DropBlock, IInv, RuntimeTypeOK, OriginsTraced, BlockPaid,
        MintsCounted, Blocks, Faucets

\* Every step of a dispatch keeps it.
LEMMA DispatchKeeps ==
    ASSUME IInv, DispatchStep
    PROVE  IInv'
  <1>1. CASE frame # NoFrame
             /\ \E fresh \in {0, 1, frame.count} : RegisterIntentions(fresh)
    BY <1>1, RegisterKeeps
  <1>2. CASE CallBatch
    BY <1>2, BatchKeeps
  <1>3. CASE CallAsDerivative
    BY <1>3, AsDerivativeKeeps
  <1>4. CASE \E origin \in Accounts \union {Root} : CallSudo(origin)
    BY <1>4, SudoKeeps
  <1>5. CASE FaucetMint
    BY <1>5, MintKeeps
  <1>6. CASE \E currency \in Currencies, amount \in {"some", "all"} :
                FaucetRampageMint(currency, amount)
    BY <1>6, RampageKeeps
  <1>7. CASE EndDispatch
    BY <1>7, EndDispatchKeeps
  <1>8. CASE CallCollective
    BY <1>8, CollectiveKeeps
  <1>. QED
    BY <1>1, <1>2, <1>3, <1>4, <1>5, <1>6, <1>7, <1>8, Zenon DEF DispatchStep

\* The invariant is inductive.
LEMMA NextKeeps == IInv /\ [RuntimeNext]_runtimeVars => IInv'
  <1> SUFFICES ASSUME IInv, [RuntimeNext]_runtimeVars PROVE IInv'
    OBVIOUS
  <1>1. CASE BeginStep
    BY <1>1, InitializeKeeps DEF BeginStep
  <1>2. CASE ExtrinsicStep
    <2>1. PICK signer \in Accounts, call \in Calls :
              \/ \E count \in BatchCounts : ApplyExtrinsic(signer, call, count, 1)
              \/ \E count \in CopyCounts : ApplyExtrinsic(signer, call, count, count)
      BY <1>2 DEF ExtrinsicStep
    <2>2. ASSUME NEW count \in BatchCounts, ApplyExtrinsic(signer, call, count, 1)
          PROVE  IInv'
      <3>1. count \in Nat \ {0} /\ 1 \in Nat \ {0}
        BY CallsAssumption
      <3>. QED
        BY <2>2, <3>1, ApplyKeeps
    <2>3. ASSUME NEW count \in CopyCounts, ApplyExtrinsic(signer, call, count, count)
          PROVE  IInv'
      <3>1. count \in Nat \ {0}
        BY CallsAssumption
      <3>. QED
        BY <2>3, <3>1, ApplyKeeps
    <2>. QED
      BY <2>1, <2>2, <2>3
  <1>3. CASE DispatchStep
    BY <1>3, DispatchKeeps
  <1>4. CASE FinalizeBlock
    BY <1>4, FinalizeKeeps
  <1>5. CASE ImportBlock
    BY <1>5, ImportKeeps
  <1>6. CASE DropBlock \/ FinalizePanics
    BY <1>6, DropKeeps DEF FinalizePanics
  <1>7. CASE UNCHANGED runtimeVars
    BY <1>7, StutterKeeps
  <1>. QED
    BY <1>1, <1>2, <1>3, <1>4, <1>5, <1>6, <1>7, Zenon DEF RuntimeNext

\* Every state a block goes through satisfies the inductive invariant.
THEOREM BlocksSafe == RuntimeSpec => []IInv
  BY InitHolds, NextKeeps, PTL DEF RuntimeSpec

-----------------------------------------------------------------------------
(* What follows from it                                                    *)

\* on_finalize is paid for before it runs, whatever the block has taken: the
\* weight attributes of exchange's sell and buy, and its on_initialize, cover
\* the benchmarks for any number of intentions on any number of pairs.
THEOREM FinalizeIsPrepaid == RuntimeSpec => []FinalizePrepaid
  <1>1. IInv => FinalizePrepaid
    <2> SUFFICES ASSUME IInv, phase = "extrinsics", block.intentions > 0
                 PROVE  FinalizePrepaid
      BY DEF FinalizePrepaid
    <2> DEFINE t == block.intentions
               more == block.pairs - 1
               paid == block.prepaid
    <2>1. /\ t \in Nat /\ paid \in Nat /\ more \in Nat /\ more + 1 <= t
          /\ known_overhead_for_on_finalize + ShareLeast * (t + 0) <= paid
      BY PaidWithout, BlockFields
    <2> HIDE DEF t, more, paid
    <2>2. on_finalize(t) + more * on_finalize(0) <= paid
      BY <2>1, SMT DEF on_finalize, DbWeight, known_overhead_for_on_finalize, ShareLeast
    <2>3. on_finalize_buys_no_matches(t) + more * on_finalize_buys_no_matches(0) <= paid
      BY <2>1, SMT DEF on_finalize_buys_no_matches, DbWeight,
          known_overhead_for_on_finalize, ShareLeast
    <2>4. on_finalize_sells_no_matches(t) + more * on_finalize_sells_no_matches(0) <= paid
      BY <2>1, SMT DEF on_finalize_sells_no_matches, DbWeight,
          known_overhead_for_on_finalize, ShareLeast
    <2>. QED
      BY <2>2, <2>3, <2>4 DEF FinalizePrepaid, t, more, paid
  <1>. QED
    BY <1>1, BlocksSafe, PTL

\* The block weight limit keeps the intentions of single extrinsics within
\* the range the benchmarks of on_finalize cover.
THEOREM BenchmarkRangeKept == RuntimeSpec => []IntentionsWithinBenchmark
  <1>1. IInv => IntentionsWithinBenchmark
    <2> SUFFICES ASSUME IInv, phase = "extrinsics"
                 PROVE  block.single <= MAX_INTENTIONS_IN_BLOCK
      BY DEF IntentionsWithinBenchmark
    <2>. QED
      BY PaidWithout, BlockFields, SMT DEF WeightLeast, NormalMaxTotal,
          MAXIMUM_BLOCK_WEIGHT, NORMAL_DISPATCH_RATIO, MAX_INTENTIONS_IN_BLOCK
  <1>. QED
    BY <1>1, BlocksSafe, PTL

\* The faucet's limit holds for the last mintable currency, and none is minted
\* more often than one before it, in spite of mints that fail half way.
THEOREM MintsLimited == RuntimeSpec => []MintLimitHolds
  <1>1. IInv => MintLimitHolds
    <2> SUFFICES ASSUME IInv, phase = "extrinsics" PROVE MintLimitHolds
      BY DEF MintLimitHolds
    <2> DEFINE received == block.faucet.received
               last == Len(config.faucet.mintable_currencies)
    <2>1. last \in Nat
      BY BlockFields DEF Configs
    <2>2. /\ Ordered(received, last)
          /\ last > 0 => received[last] <= config.faucet.mint_limit
      BY DEF IInv, MintsCounted
    <2>3. DOMAIN received = 1..last
      BY <2>2 DEF Ordered
    <2>4. \A i, j \in 1..last : i <= j => received[j] <= received[i]
      BY <2>2 DEF Ordered
    <2> HIDE DEF received, last
    <2>5. \A i \in 1..last : i = last => received[i] <= config.faucet.mint_limit
      BY <2>1, <2>2
    <2>. QED
      BY <2>3, <2>4, <2>5 DEF MintLimitHolds, received, last
  <1>. QED
    BY <1>1, BlocksSafe, PTL

\* However calls are nested in batches, pseudonyms, motions and sudo, the
\* exchange and the faucet act only in extrinsics the sudo key has signed.
THEOREM ClosedPalletsAreSudos == RuntimeSpec => ClosedPalletsNeedSudo
  <1> DEFINE Acts == /\ phase = "extrinsics" /\ phase' = "extrinsics"
                     /\ \/ block'.intentions # block.intentions
                        \/ block'.faucet # block.faucet
  <1>1. IInv /\ [RuntimeNext]_runtimeVars
          => [Acts => frame.signer = config.sudo]_runtimeVars
    <2> SUFFICES ASSUME IInv, RuntimeNext, Acts PROVE frame.signer = config.sudo
      BY Zenon
    <2>1. \/ \E fresh \in {0, 1, frame.count} : RegisterIntentions(fresh)
          \/ FaucetMint
          \/ \E currency \in Currencies, amount \in {"some", "all"} :
                 FaucetRampageMint(currency, amount)
      <3>1. CASE BeginStep
        BY <3>1 DEF BeginStep, InitializeBlock
      <3>2. CASE ExtrinsicStep
        <4>1. \E w, p : block' = [block EXCEPT !.weight = @ + w, !.prepaid = @ + p,
                                              !.extrinsics = @ + 1]
          BY <3>2 DEF ExtrinsicStep, ApplyExtrinsic
        <4>. QED
          BY <4>1, BlockFields DEF Blocks
      <3>3. CASE FinalizeBlock \/ FinalizePanics \/ ImportBlock \/ DropBlock
        BY <3>3 DEF FinalizeBlock, FinalizePanics, ImportBlock, DropBlock
      <3>4. CASE DispatchStep
        <4>1. CASE CallBatch \/ CallAsDerivative \/ CallCollective \/ EndDispatch
                   \/ \E origin \in Accounts \union {Root} : CallSudo(origin)
          BY <4>1, Zenon DEF CallBatch, CallAsDerivative, CallCollective, EndDispatch, CallSudo
        <4>. QED
          BY <3>4, <4>1, Zenon DEF DispatchStep
      <3>. QED
        BY <3>1, <3>2, <3>3, <3>4, Zenon DEF RuntimeNext
    <2>2. \/ frame # NoFrame /\ frame.origin # Root /\ Passes("Exchange")
          \/ frame # NoFrame /\ frame.origin # Root /\ Passes("Faucet")
      BY <2>1, Zenon DEF RegisterIntentions, FaucetMint, FaucetRampageMint, Runs, Signed
    <2>. QED
      BY <2>2, TrustedSigner
  <1>. QED
    BY <1>1, BlocksSafe, PTL DEF RuntimeSpec, ClosedPalletsNeedSudo
=============================================================================
