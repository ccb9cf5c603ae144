------------------------------- MODULE Faucet -------------------------------
(***************************************************************************)
(* pallet_faucet: a signed account mints itself one currency without a     *)
(* limit (rampage_mint) or all the mintable ones a limited number of times *)
(* a block (mint).  The pallet is a record                                 *)
(*                                                                         *)
(*   minted   the storage value Minted;                                    *)
(*   full     the currencies whose total issuance has no room for another  *)
(*            deposit: orml_tokens refuses to overflow it.  The issuance   *)
(*            itself is left out: no call modelled here lowers it;         *)
(*   received how often this block's mints have deposited each mintable    *)
(*            currency, by its place in the list (kept for the properties  *)
(*            only, the pallet does not count it).                         *)
(*                                                                         *)
(* The genesis configuration is a record g with rampage, mint_limit and    *)
(* the sequence mintable_currencies.  Neither call is transactional, so    *)
(* what a failing call has deposited stays deposited.                      *)
(***************************************************************************)
EXTENDS Integers, Sequences

CONSTANT NativeCurrency

\* The mints of a block that has none yet, with the issuance as it is.
FreshBlock(g, minted, full) ==
    [minted |-> minted, full |-> full,
     received |-> [i \in 1..Len(g.mintable_currencies) |-> 0]]

\* T::Currency::deposit fails if the total issuance would overflow.  The
\* native currency is deposited by deposit_creating, which never fails.
CanDeposit(f, currency) == currency = NativeCurrency \/ currency \notin f.full

\* rampage_mint: `amount` is "some", or "all" the issuance still has room for.
CanRampageMint(g, f, currency) == g.rampage /\ CanDeposit(f, currency)
RampageMint(f, currency, amount) ==
    [f EXCEPT !.full = IF amount = "all" /\ currency # NativeCurrency
                       THEN @ \union {currency} ELSE @]

\* The places of the mintable currencies a mint deposits: those before the
\* first one that is refused.
Deposited(g, f) ==
    {i \in 1..Len(g.mintable_currencies) :
        \A j \in 1..i : CanDeposit(f, g.mintable_currencies[j])}
Completes(g, f) == Deposited(g, f) = 1..Len(g.mintable_currencies)

CanMint(g, f) == f.minted < g.mint_limit

\* mint, `n` times in a row; `tries` is how often it is tried although it
\* fails.  A mint is counted only after its last deposit: if one currency is
\* refused, those before it are deposited by every try and no try is counted.
TimesOffByOne(g, f, n, tries) ==
    IF ~Completes(g, f) THEN tries
    ELSE IF f.minted + n <= g.mint_limit + 1 THEN n ELSE g.mint_limit + 1 - f.minted
Times(g, f, n, tries) ==
    IF ~Completes(g, f) THEN tries
    ELSE IF f.minted + n <= g.mint_limit THEN n ELSE g.mint_limit - f.minted
Mint(g, f, n, tries) ==
    LET times == Times(g, f, n, tries)
    IN  [minted |-> IF Completes(g, f) THEN f.minted + times ELSE f.minted,
         full |-> f.full,
         received |-> [i \in DOMAIN f.received |->
                          IF i \in Deposited(g, f) THEN f.received[i] + times
                                                   ELSE f.received[i]]]

\* on_finalize.
OnFinalize(f) == [f EXCEPT !.minted = 0]
=============================================================================
