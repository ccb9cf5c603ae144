--------------------------- MODULE MCNativeToken ----------------------------
(* NativeToken on two users and the account of one pool.                   *)
EXTENDS NativeToken, TLC

CONSTANTS
  Alice, Bob, Pool, Dollar, Address,
  MaxCalls        \* bound on the length of a behaviour

VARIABLE calls

MCInit == NativeInit /\ WithinLimits /\ calls = 0
\* Nobody has a key to the pool's account that could ask for a lock on it.
PoolUnlocked == Locks'[Pool] = Locks[Pool]
MCNext ==
  /\ calls < MaxCalls
  /\ calls' = calls + 1
  /\ NativeNext
  /\ WithinLimits'
  /\ PoolUnlocked
MCSpec == MCInit /\ [][MCNext]_<<nativeVars, calls>>

MCHolders == {Alice, Bob, Pool}
MCEndowed == (Alice :> 4) @@ (Bob :> 3) @@ (Pool :> 4)
MCClaimsData == [a \in {Address} |-> 3]
MCSignedFor == [a \in {Address} |-> Alice]
MCEncoded == (Alice :> <<18>>) @@ (Bob :> <<34>>) @@ (Pool :> <<19>>)
MCPrefix == <<73>>
MCPoolOf == [c \in {Dollar} |-> Pool]
MCHoldings == {<<Alice, Dollar>>}
MCAuthorities == {Bob}
MCRootBalances == {<<3, 1>>, <<0, 0>>}
=============================================================================
