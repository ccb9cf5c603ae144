------------------------------- MODULE MCNode -------------------------------
(***************************************************************************)
(* The node for TLC: an authority without GRANDPA, a full node and a light *)
(* client, on each of the three chains; blocks of at most two steps of     *)
(* extrinsics, which are enough for two kinds of call to meet in a block.  *)
(***************************************************************************)
EXTENDS Node

Authority == [role |-> "Authority", telemetry |-> FALSE, offchain |-> FALSE,
              grandpa |-> FALSE, force_authoring |-> TRUE]
Full == [role |-> "Full", telemetry |-> TRUE, offchain |-> TRUE,
         grandpa |-> TRUE, force_authoring |-> FALSE]
Light == [role |-> "Light", telemetry |-> FALSE, offchain |-> FALSE,
          grandpa |-> FALSE, force_authoring |-> FALSE]
ThreeRoles == {Authority, Full, Light}

\* The sudo keys: each is an ordinary account on the chain of the other.
Signers == {"Alice", "Intergalactic"}

\* One batch as large as the block takes of sells, and 590 single ones.
OneOrMany == {1, 1020}
ManyCopies == {590}

\* The blocks of the local chain are those of the development chain, which
\* has the same sudo key and the same faucet: only its genesis is built.
MCNext == NodeNext /\ (chain = "local" => phase' = "none")

MCSpec == NodeInit /\ [][MCNext]_vars
=============================================================================
