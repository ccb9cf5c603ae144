------------------------------- MODULE Claims -------------------------------
(***************************************************************************)
(* The claims pallet: the owner of an Ethereum address claims, once, the   *)
(* native tokens that were assigned to it, by signing the account they are *)
(* to go to.  The call carries the signature and neither of the two: the   *)
(* address is recovered from the signature and the sender's account.       *)
(***************************************************************************)
EXTENDS Balances, Sequences

CONSTANTS
  EthereumAddresses,
  CLAIMS_DATA,    \* what is assigned to each address
  SignedFor,      \* the account for which the owner of an address has signed
  Encoded,        \* the bytes of an account id
  Prefix,         \* the prefix of the message to sign, in bytes
  Stranger        \* an address whose owner is unknown

ASSUME ClaimsAssumption ==
  /\ CLAIMS_DATA \in [EthereumAddresses -> Nat]
  /\ SignedFor \in [EthereumAddresses -> Holders]
  /\ Encoded \in [Holders -> Seq(0 .. 255)]
  /\ \A v, w \in Holders : v # w => Encoded[v] # Encoded[w]
  /\ Prefix \in Seq(0 .. 255)
  /\ Stranger \notin EthereumAddresses

VARIABLES
  Claims,         \* what each address may still claim
  version,        \* pallet version in storage, "none" before the pallet is there
  claimed         \* history: what was paid for each address

claimsVars == <<Claims, version, claimed>>

\* The pallet is part of the genesis, or comes with a later runtime upgrade.
ClaimsInit ==
  /\ version \in {"none", "current"}
  /\ Claims = [a \in EthereumAddresses |-> IF version = "none" THEN 0 ELSE CLAIMS_DATA[a]]
  /\ claimed = [a \in EthereumAddresses |-> 0]

-----------------------------------------------------------------------------
(* Signatures                                                              *)

to_ascii_hex_low(data) == [k \in 1 .. Len(data) |-> data[k] % 16]

\* Two hexadecimal digits for each byte.
to_ascii_hex(data) ==
  [k \in 1 .. 2 * Len(data) |->
     LET byte == data[(k + 1) \div 2]
     IN  IF k % 2 = 1 THEN byte \div 16 ELSE byte % 16]

\* The message that Ethereum wallets sign when they are asked to sign `what`.
ethereum_signable_message(what, prefix) ==
  [length |-> Len(prefix) + Len(what), text |-> prefix \o what]

\* What wallets have signed (external).
Signature(address) ==
  [address |-> address,
   message |-> ethereum_signable_message(to_ascii_hex(Encoded[SignedFor[address]]), Prefix)]

\* The curve (external) recovers the owner of the signature from the message
\* it was made of, and some other address from any other message.
Recover(signature, what, prefix) ==
  IF signature.message = ethereum_signable_message(what, prefix)
  THEN signature.address
  ELSE Stranger

-----------------------------------------------------------------------------
(* Operations                                                              *)

ValidateClaim(who, signature) ==
  LET address == Recover(signature, to_ascii_hex(Encoded[who]), Prefix)
  IN  address # Stranger /\ Claims[address] # 0

ProcessClaim(dest, balance_due, address) ==
  /\ CanDepositCreating(native, dest, balance_due)
  /\ native' = Issued(Credit(native, dest, balance_due), balance_due)
  /\ Claims' = [Claims EXCEPT ![address] = 0]
  /\ claimed' = [claimed EXCEPT ![address] = @ + balance_due]

\* The signed extension ValidateClaim, run on every extrinsic before its call:
\* one that is a claim is taken into a block only if the claim is valid there.
ValidateExtension(who, signature) == ValidateClaim(who, signature)

\* The claim call, in an extrinsic of its own.
Claim(sender, signature) ==
  LET address == signature.address
  IN  /\ ValidateExtension(sender, signature)
      /\ ValidateClaim(sender, signature)
      /\ native.issuance + Claims[address] <= MaxSupply
      /\ ProcessClaim(sender, Claims[address], address)
      /\ UNCHANGED <<version, Locks, consumers, imbalances>>

ImportInitialClaimsAlways == CLAIMS_DATA

ImportInitialClaims == IF version = "none" THEN CLAIMS_DATA ELSE Claims

\* Afterwards the executive (external) stores the version.
OnRuntimeUpgrade ==
  /\ Claims' = ImportInitialClaims
  /\ version' = "current"
  /\ UNCHANGED <<claimed, balancesVars>>

ClaimsNext ==
  \/ \E w \in Holders, a \in EthereumAddresses : Claim(w, Signature(a))
  \/ OnRuntimeUpgrade

(* What was claimed for an address and what it may still claim make up its *)
(* entry of CLAIMS_DATA, or nothing before the import: neither a second    *)
(* claim nor a later runtime upgrade pays an address twice, and a claim    *)
(* that fails (process_claim) takes nothing away.                          *)
ClaimsPaidOnce ==
  \A a \in EthereumAddresses :
    claimed[a] + Claims[a] = IF version = "none" THEN 0 ELSE CLAIMS_DATA[a]

(* A claim is paid to the account that the owner of the address has        *)
(* signed, whoever sends the signature, and to no other account: messages  *)
(* for different accounts differ (to_ascii_hex, ethereum_signable_message) *)
(* and a signature recovers to its owner for one sender only.              *)
ClaimPaidWhereSigned ==
  [][\A a \in EthereumAddresses :
       claimed'[a] # claimed[a] =>
         \A w \in Holders :
           native'.account[w].free - native.account[w].free
             = IF w = SignedFor[a] THEN claimed'[a] - claimed[a] ELSE 0]_<<native, claimed>>
=============================================================================
