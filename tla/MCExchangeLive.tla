--------------------------- MODULE MCExchangeLive ---------------------------
(***************************************************************************)
(* MCExchange with calls of the xyk pallet and transfers between the       *)
(* intentions, with a bit that changes at every step of on_finalize, so    *)
(* that a step which changes nothing else is still seen to be taken, and   *)
(* with a step for the time after the last block, so that a state of       *)
(* on_finalize in which no step is possible is a deadlock.                 *)
(***************************************************************************)
EXTENDS MCExchange

CONSTANT MaxCalls   \* bound on the other calls

VARIABLES calls, turn

liveVars == <<mcVars, calls, turn>>

MCOther ==
  /\ calls < MaxCalls
  /\ blocks < MaxBlocks
  /\ OtherExtrinsic
  /\ calls' = calls + 1
  /\ UNCHANGED <<bench, blocks, turn>>

Step == MCResolve /\ turn' = ~turn /\ UNCHANGED calls

Over ==
  /\ phase = "panicked" \/ (phase = "extrinsics" /\ blocks = MaxBlocks)
  /\ UNCHANGED liveVars

LiveInit == MCInit /\ calls = 0 /\ turn = FALSE

LiveNext ==
  \/ (MCRegister \/ MCStart) /\ UNCHANGED <<calls, turn>>
  \/ MCOther
  \/ Step
  \/ Over

\* The executive does not stop in the middle of on_finalize: weak fairness of
\* Step, which the absence of deadlock shows to be enabled in that phase.
FinalizeGoesOn == []<>(phase # "finalize") \/ []<><<Step>>_liveVars

LiveSpec == LiveInit /\ [][LiveNext]_liveVars /\ FinalizeGoesOn
=============================================================================
