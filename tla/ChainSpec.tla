----------------------------- MODULE ChainSpec -----------------------------
(***************************************************************************)
(* The chain specifications of the node (chain_spec.rs) and the genesis    *)
(* builders of the pallets, which refuse a configuration by a panic.  The  *)
(* builders run one by one in the order of construct_runtime!; a panic in  *)
(* one of them leaves the node without a chain.                            *)
(*                                                                         *)
(* A balance is written in base 10^6, <<millions of HDX, HDX, 10^-6 HDX,   *)
(* 10^-12 HDX>>, the largest of them being past TLC's integers.  Hashes    *)
(* and keys are names.                                                     *)
(***************************************************************************)
EXTENDS Integers, Sequences, FiniteSetsExt, SequencesExt

VARIABLES
    chain,     \* the specification the node was started with
    built,     \* how many builders have run
    panicked   \* one of them has refused its configuration

chainVars == <<chain, built, panicked>>

-----------------------------------------------------------------------------
(* Balances                                                                *)

Hdx(n) == <<n \div 1000000, n % 1000000, 0, 0>>

\* The sum of two balances, with the carries.
Plus(a, b) ==
    LET d4 == a[4] + b[4]
        d3 == a[3] + b[3] + d4 \div 1000000
        d2 == a[2] + b[2] + d3 \div 1000000
    IN  <<a[1] + b[1] + d2 \div 1000000, d2 % 1000000, d3 % 1000000, d4 % 1000000>>

AtLeast(a, b) ==
    \/ a = b
    \/ \E i \in 1..4 : a[i] > b[i] /\ \A j \in 1..(i - 1) : a[j] = b[j]

TotalOf(entries) == FoldLeft(LAMBDA sum, e : Plus(sum, e.amount), Hdx(0), entries)

STASH == Hdx(100)
STASHHalf == Hdx(50)

-----------------------------------------------------------------------------
(* The configurations                                                      *)

\* authority_keys_from_seed: the stash is an account of its own, every
\* session key is derived from the seed.
authority_keys_from_seed(seed) ==
    [stash |-> seed \o "//stash", controller |-> seed,
     keys |-> [grandpa |-> seed, babe |-> seed, im_online |-> seed,
               authority_discovery |-> seed]]

\* A validator of the live chain: stash and controller are one account, and
\* one key serves three of the four purposes.
LernaAuthority(name, grandpa, key) ==
    [stash |-> name, controller |-> name,
     keys |-> [grandpa |-> grandpa, babe |-> key, im_online |-> key,
               authority_discovery |-> key]]

\* SessionConfig and StakingConfig, the same in both genesis functions.
StakersOf(authorities) ==
    [i \in DOMAIN authorities |-> [who |-> authorities[i].stash,
                                   controller |-> authorities[i].controller,
                                   amount |-> STASH]]

create_testnet_claims ==
    <<[who |-> "eth1", amount |-> <<0, 0, 1000, 0>>],
      [who |-> "eth2", amount |-> Hdx(1)],
      [who |-> "eth3", amount |-> Hdx(1000)]>>

\* tKSM is 1, tUSDT the last.
OneTestAssetMore == 11
LastTestAsset == 10

testnet_genesis(authorities, root_key, endowed) ==
    [balances |-> [i \in DOMAIN endowed |-> [who |-> endowed[i],
                                             amount |-> Hdx(1000000)]],
     sudo |-> root_key,
     asset_ids |-> [i \in 1..LastTestAsset |-> i],
     next_asset_id |-> 11,
     tokens |-> ToSet(endowed) \X {1, 2, 3},
     faucet |-> [rampage |-> TRUE, mint_limit |-> 5,
                 mintable_currencies |-> <<0, 1, 2>>],
     session |-> authorities,
     stakers |-> StakersOf(authorities),
     validator_count |-> 2 * Len(authorities),
     minimum_validator_count |-> Len(authorities),
     elections |-> <<[who |-> "Alice", amount |-> STASHHalf]>>,
     council |-> <<"Alice">>,
     technical |-> <<"Alice", "Bob", "Eve">>,
     claims |-> create_testnet_claims,
     previous_chain |-> "none"]

\* What the sale has left, to the treasury.
UnsoldTokens == <<56, 873469, 471297, 884942>>

\* 15% of the supply to Intergalactic, of which its validators' stashes are
\* taken, 3% to the treasury for rewards.
LernaBalances ==
    <<[who |-> "Intergalactic", amount |-> Hdx(1500000000 - 3 * 100)],
      [who |-> "Rewards", amount |-> Hdx(300000000)],
      [who |-> "Validator01", amount |-> STASH],
      [who |-> "Validator02", amount |-> STASH],
      [who |-> "Validator03", amount |-> STASH],
      [who |-> "Treasury", amount |-> UnsoldTokens]>>

lerna_genesis(authorities, root_key) ==
    [balances |-> LernaBalances,
     sudo |-> root_key,
     asset_ids |-> <<>>,
     next_asset_id |-> 1,
     tokens |-> {},
     faucet |-> [rampage |-> FALSE, mint_limit |-> 5,
                 mintable_currencies |-> <<>>],
     session |-> authorities,
     stakers |-> StakersOf(authorities),
     validator_count |-> 3,
     minimum_validator_count |-> 3,
     elections |-> <<[who |-> "Intergalactic", amount |-> STASH]>>,
     council |-> <<"Intergalactic">>,
     technical |-> <<"tech1", "tech2", "tech3", "tech4", "tech5", "tech6">>,
     claims |-> <<>>,
     previous_chain |-> "snakenet gen1"]

development_config_unstashed ==
    testnet_genesis(<<authority_keys_from_seed("Alice")>>, "Alice",
                    <<"Alice", "Bob", "Treasury">>)
development_config ==
    testnet_genesis(
        <<authority_keys_from_seed("Alice")>>, "Alice",
        <<"Alice", "Bob", "Alice//stash", "Bob//stash", "Treasury">>)

local_testnet_config ==
    LET seeds == <<"Alice", "Bob", "Charlie", "Dave", "Eve", "Ferdie">>
    IN  testnet_genesis(
            <<authority_keys_from_seed("Alice"), authority_keys_from_seed("Bob")>>,
            "Alice",
            seeds \o [i \in DOMAIN seeds |-> seeds[i] \o "//stash"] \o <<"Treasury">>)

lerna_staging_config ==
    lerna_genesis(
        <<LernaAuthority("Validator01", "grandpa1", "key1"),
          LernaAuthority("Validator02", "grandpa2", "key2"),
          LernaAuthority("Validator03", "grandpa3", "key3")>>, "Intergalactic")

\* load_spec, for the specifications the code holds; "lerna" and any other
\* name are read from a JSON file.
Chains == {"dev", "local", "lerna-staging"}
load_spec(id) ==
    CASE id = "dev" -> development_config
      [] id = "local" -> local_testnet_config
      [] id = "lerna-staging" -> lerna_staging_config

-----------------------------------------------------------------------------
(* The genesis builders, and what makes them panic                         *)

Endowed(g, who, amount) ==
    \E i \in DOMAIN g.balances : /\ g.balances[i].who = who
                                 /\ AtLeast(g.balances[i].amount, amount)

\* pallet_balances: no account twice, none below the existential deposit,
\* which is 0.
BuildsBalances(g) == IsInjective([i \in DOMAIN g.balances |-> g.balances[i].who])

\* pallet_staking: a stash covers its bond and bonds once, and so does its
\* controller.
BuildsStaking(g) ==
    /\ \A i \in DOMAIN g.stakers : Endowed(g, g.stakers[i].who, g.stakers[i].amount)
    /\ IsInjective([i \in DOMAIN g.stakers |-> g.stakers[i].who])
    /\ IsInjective([i \in DOMAIN g.stakers |-> g.stakers[i].controller])

\* pallet_session: of each type of key, one account owns it.
BuildsSession(g) ==
    \A type \in {"grandpa", "babe", "im_online", "authority_discovery"} :
        IsInjective([i \in DOMAIN g.session |-> g.session[i].keys[type]])

\* pallet_elections_phragmen: DesiredMembers at most, each with its stake.
DesiredMembers == 1
BuildsElections(g) ==
    /\ Len(g.elections) <= DesiredMembers
    /\ \A i \in DOMAIN g.elections :
          Endowed(g, g.elections[i].who, g.elections[i].amount)

\* pallet_collective, twice: no duplicate.  InitializeMembers of the elections
\* is (), so the council is set by its own configuration only.
CouncilMaxMembers == 1
TechnicalMaxMembers == 10
BuildsCouncil(g) == IsInjective(g.council)
BuildsTechnicalCommittee(g) == IsInjective(g.technical)

Builders ==
    <<"Balances", "Staking", "Session", "Elections", "Council",
      "TechnicalCommittee", "Tokens", "AssetRegistry", "Claims", "Faucet",
      "GenesisHistory">>

\* orml_tokens, the registry, the claims, the faucet and the history take
\* whatever they are given.
Builds(builder, g) ==
    CASE builder = "Balances" -> BuildsBalances(g)
      [] builder = "Staking" -> BuildsStaking(g)
      [] builder = "Session" -> BuildsSession(g)
      [] builder = "Elections" -> BuildsElections(g)
      [] builder = "Council" -> BuildsCouncil(g)
      [] builder = "TechnicalCommittee" -> BuildsTechnicalCommittee(g)
      [] OTHER -> TRUE

GenesisBuilt == built = Len(Builders)

\* The next builder: GenesisBuild::build of its pallet.
BuildGenesis ==
    /\ ~GenesisBuilt
    /\ ~panicked
    /\ IF Builds(Builders[built + 1], load_spec(chain))
       THEN built' = built + 1 /\ UNCHANGED panicked
       ELSE panicked' = TRUE /\ UNCHANGED built
    /\ UNCHANGED chain

-----------------------------------------------------------------------------
(* Properties                                                              *)

\* No chain specification of the node makes a genesis builder panic, neither
\* an assertion of pallet_balances nor one of the pallets it is combined
\* with.
GenesisNeverPanics == ~panicked

\* On the live chain Intergalactic and its validators hold 15% of the ten
\* thousand million HDX.
FoundersHold(g) ==
    LET held == SelectSeq(g.balances, LAMBDA b : b.who \notin {"Rewards", "Treasury"})
    IN  TotalOf(held) = Hdx(1500000000)

\* The pallets agree at genesis about what their builders do not check: a
\* token that is held or minted is registered, no registered id is given out
\* again, the elected members are the council, both collectives keep to
\* their sizes, there are enough validators, the sudo key can pay, and the
\* stashes of the live chain's validators are taken from Intergalactic's share.
GenesisConsistent ==
    GenesisBuilt =>
        LET g == load_spec(chain)
            known == {0} \union ToSet(g.asset_ids)
        IN  /\ \A t \in g.tokens : t[2] \in known \ {0}
            /\ ToSet(g.faucet.mintable_currencies) \subseteq known
            /\ IsInjective(g.asset_ids)
            /\ \A id \in ToSet(g.asset_ids) : 0 < id /\ id < g.next_asset_id
            /\ {g.elections[i].who : i \in DOMAIN g.elections} = ToSet(g.council)
            /\ Len(g.council) <= CouncilMaxMembers
            /\ Len(g.technical) <= TechnicalMaxMembers
            /\ Len(g.stakers) >= g.minimum_validator_count
            /\ g.minimum_validator_count <= g.validator_count
            /\ Endowed(g, g.sudo, Hdx(1))
            /\ chain = "lerna-staging" => FoundersHold(g)

=============================================================================
