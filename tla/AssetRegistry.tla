---------------------------- MODULE AssetRegistry ---------------------------
(***************************************************************************)
(* The asset-registry pallet: ids of named assets, handed out from a       *)
(* counter and never taken back.  The only names modelled are those of     *)
(* share tokens (AssetPair::name), which are their ordered asset pairs.    *)
(***************************************************************************)
EXTENDS Currencies

CONSTANTS
  MaxAssetId,    \* largest value of the AssetId type
  FirstAssetId,  \* NextAssetId of the genesis configuration
  None           \* absent storage entry

ASSUME RegistryAssumption ==
  /\ FirstAssetId \in Nat \ {0}
  /\ MaxAssetId \in Nat
  /\ FirstAssetId <= MaxAssetId
  /\ None \notin Nat

VARIABLES
  AssetIds,      \* id of each registered name
  NextAssetId    \* id the next new name gets

RegistryInit ==
  /\ AssetIds = [n \in Pools |-> None]
  /\ NextAssetId = FirstAssetId

(***************************************************************************)
(* get_or_create_asset.  The id after the new one must exist as well:      *)
(* checked_add fails with NoIdAvailable when the counter is at its limit.  *)
(***************************************************************************)
CanGetOrCreateAssetUnchecked(name) == TRUE

CanGetOrCreateAsset(name) ==
  AssetIds[name] = None => NextAssetId + 1 <= MaxAssetId

AssetOf(name) == IF AssetIds[name] = None THEN NextAssetId ELSE AssetIds[name]

GetOrCreateAssetSameId(name) ==
  IF AssetIds[name] = None
  THEN /\ NextAssetId' = NextAssetId
       /\ AssetIds' = [AssetIds EXCEPT ![name] = NextAssetId]
  ELSE UNCHANGED <<AssetIds, NextAssetId>>

GetOrCreateAsset(name) ==
  IF AssetIds[name] = None
  THEN /\ NextAssetId' = NextAssetId + 1
       /\ AssetIds' = [AssetIds EXCEPT ![name] = NextAssetId]
  ELSE UNCHANGED <<AssetIds, NextAssetId>>
=============================================================================
