-------------------------------- MODULE Node --------------------------------
(***************************************************************************)
(* One node: the command it was started with (command.rs), the service it  *)
(* builds step by step and the tasks it spawns (service.rs), on the chain  *)
(* of ChainSpec, whose blocks the runtime executes.  The process may be    *)
(* killed at any time and started again; the database outlives it.         *)
(*                                                                         *)
(*   command  the command that is running, or "none";                      *)
(*   conf     its configuration: role, telemetry, offchain, grandpa and    *)
(*            force_authoring;                                             *)
(*   step     how many steps of its start it has taken;                    *)
(*   tasks    the tasks that are running;                                  *)
(*   network  the network has been started;                                *)
(*   lost     an essential task has ended;                                 *)
(*   past     the states the database keeps of earlier blocks.             *)
(*                                                                         *)
(* Libraries: what the tasks do is external to the repository, but for the *)
(* execution of blocks.                                                    *)
(***************************************************************************)
EXTENDS Runtime, ChainSpec

CONSTANTS
    Configurations,   \* the configurations the node is started with
    MayEnd,           \* the tasks that may end by themselves
    MaxBlocks         \* bound on the height of the chain

VARIABLES command, conf, step, tasks, network, lost, past

nodeVars == <<command, conf, step, tasks, network, lost, past>>
vars == <<runtimeVars, chainVars, nodeVars>>

-----------------------------------------------------------------------------
(* The steps of a start                                                    *)

\* A step may fail, spawn a task, and the task may be essential.
Quiet(name) == [name |-> name, task |-> "none", essential |-> FALSE]
Spawn(name, task) == [name |-> name, task |-> task, essential |-> FALSE]
Essential(name, task) == [name |-> name, task |-> task, essential |-> TRUE]

OnlyIf(cond, steps) == IF cond THEN steps ELSE <<>>

\* new_partial: telemetry, the client (which builds genesis in an empty
\* database), the pool, the block import of GRANDPA and BABE, the import
\* queue.
new_partial(c) ==
    OnlyIf(c.telemetry, <<Quiet("TelemetryWorker")>>)
    \o <<Quiet("client")>>
    \o OnlyIf(c.telemetry, <<Spawn("telemetry", "telemetry")>>)
    \o <<Spawn("transaction_pool", "txpool"), Quiet("grandpa_block_import"),
         Quiet("babe_block_import"), Essential("import_queue", "import-queue")>>

\* An authority writes blocks and publishes its address.
Authoring(c) ==
    OnlyIf(c.role = "Authority",
           <<Essential("start_babe", "babe"),
             Spawn("authority_discovery", "authority-discovery-worker")>>)

\* Every full node runs the full voter of GRANDPA, unless told not to.
FinalityUnwatched(c) == OnlyIf(c.grandpa, <<Spawn("grandpa_voter", "grandpa-voter")>>)
Finality(c) == OnlyIf(c.grandpa, <<Essential("grandpa_voter", "grandpa-voter")>>)

\* new_full: the network is built early and started last.
StartNetworkFirst(c) ==
    new_partial(c)
    \o <<Spawn("build_network", "network-worker"), Quiet("start_network")>>
    \o OnlyIf(c.offchain, <<Spawn("offchain_workers", "offchain")>>)
    \o <<Spawn("spawn_tasks", "rpc")>>
    \o Authoring(c) \o Finality(c)
new_full(c) ==
    new_partial(c)
    \o <<Spawn("build_network", "network-worker")>>
    \o OnlyIf(c.offchain, <<Spawn("offchain_workers", "offchain")>>)
    \o <<Spawn("spawn_tasks", "rpc")>>
    \o Authoring(c) \o Finality(c)
    \o <<Quiet("start_network")>>

\* new_light: the steps of new_partial, in another order, with a pool and a
\* queue that never author.
new_light(c) ==
    OnlyIf(c.telemetry, <<Quiet("TelemetryWorker")>>)
    \o <<Quiet("client"), Spawn("transaction_pool", "txpool")>>
    \o OnlyIf(c.telemetry, <<Spawn("telemetry", "telemetry")>>)
    \o <<Quiet("grandpa_block_import"), Quiet("babe_block_import"),
         Essential("import_queue", "import-queue"),
         Spawn("build_network", "network-worker")>>
    \o OnlyIf(c.offchain, <<Spawn("offchain_workers", "offchain")>>)
    \o <<Spawn("spawn_tasks", "rpc"), Quiet("start_network")>>

\* run: what a command builds before it does its work.
PartialCommands ==
    {"check-block", "export-blocks", "export-state", "import-blocks", "revert"}
SyncCommands == {"build-spec", "purge-chain"}
PlanOf(cmd, c) ==
    CASE cmd = "node" /\ c.role = "Light" -> new_light(c)
      [] cmd = "node" -> new_full(c)
      [] cmd \in PartialCommands -> new_partial(c)
      [] OTHER -> <<>>

Plan == PlanOf(command, conf)
Started == command # "none" /\ step = Len(Plan)
EssentialTasks == {Plan[i].task : i \in {j \in DOMAIN Plan : Plan[j].essential}}

\* create_full: the interfaces a full node's RPC handler is extended with,
\* each with the parts of the service it holds on to.  The keystore comes with
\* the client, the voter's shared state with the block import.
create_full ==
    [system |-> {"client", "transaction_pool"},
     payment |-> {"client"},
     xyk |-> {"client"},
     babe |-> {"client", "babe_block_import"},
     grandpa |-> {"client", "grandpa_block_import"}]

\* The interfaces being served: rpc_extensions_builder of new_full; the one of
\* new_light adds none.
Served ==
    IF command = "node" /\ conf.role # "Light" /\ "rpc" \in tasks
    THEN DOMAIN create_full ELSE {}

-----------------------------------------------------------------------------
(* The process                                                             *)

\* run: the command line is parsed, and its service begins to start.
Run(cmd, c) ==
    /\ command = "none"
    /\ cmd # "node" => c.role = "Full"
    /\ command' = cmd
    /\ conf' = c
    /\ step' = 0
    /\ UNCHANGED <<tasks, network, lost, past, runtimeVars, chainVars>>

\* The next step succeeds.  The client is ready once genesis is built.
StartStep ==
    /\ command # "none"
    /\ step < Len(Plan)
    /\ Plan[step + 1].name = "client" => GenesisBuilt
    /\ step' = step + 1
    /\ tasks' = IF Plan[step + 1].task = "none" THEN tasks
                ELSE tasks \union {Plan[step + 1].task}
    /\ network' = (network \/ Plan[step + 1].name = "start_network")
    /\ UNCHANGED <<command, conf, lost, past, runtimeVars, chainVars>>

\* new_full_parts of the client, on an empty database.
BuildChain ==
    /\ command # "none"
    /\ step < Len(Plan)
    /\ Plan[step + 1].name = "client"
    /\ BuildGenesis
    /\ UNCHANGED <<nodeVars, runtimeVars>>

\* The process ends: a step's error is returned by run, a builder has
\* panicked, the command is done, the operator stops it or it is killed.  Its
\* tasks end with it, and so does the block in work.
Exit ==
    /\ command' = "none"
    /\ tasks' = {} /\ network' = FALSE /\ lost' = FALSE
    /\ DropBlock
    /\ step' = 0
    /\ UNCHANGED <<conf, past, chainVars>>

Stop == command # "none" /\ Exit

\* A task ends by itself; TaskManager learns of the essential ones.
TaskEnds(t) ==
    /\ command = "node"
    /\ t \in tasks
    /\ tasks' = tasks \ {t}
    /\ lost' = (lost \/ t \in EssentialTasks)
    /\ UNCHANGED <<command, conf, step, network, past, runtimeVars, chainVars>>

\* run_node_until_exit: the node runs until the task manager's future ends.
TaskManagerExits ==
    /\ Started
    /\ lost
    /\ Exit

-----------------------------------------------------------------------------
(* The chain                                                               *)

\* BABE authors a block of its own, online or forced to; blocks of others
\* come through the import queue, from the network or from a file.  A light
\* client executes none.
CanAuthor == "babe" \in tasks /\ (network \/ conf.force_authoring)
CanImport ==
    /\ "import-queue" \in tasks
    /\ network \/ (command = "import-blocks" /\ Started)
    /\ conf.role # "Light"

BeginBlock ==
    /\ CanAuthor \/ CanImport
    /\ storage.number < MaxBlocks
    /\ BeginStep
    /\ UNCHANGED <<nodeVars, chainVars>>

ExecuteBlock ==
    /\ ExtrinsicStep \/ DispatchStep \/ FinalizeBlock \/ FinalizePanics
    /\ UNCHANGED <<nodeVars, chainVars>>

StoreBlock ==
    /\ ImportBlock
    /\ past' = Append(past, storage)
    /\ UNCHANGED <<command, conf, step, tasks, network, lost, chainVars>>

\* Subcommand::PurgeChain removes the database, Subcommand::Revert the last
\* block; both end with it.
PurgeChain ==
    /\ command = "purge-chain"
    /\ command' = "none"
    /\ past' = <<>>
    /\ storage' = GenesisStorage
    /\ built' = 0
    /\ UNCHANGED <<conf, step, tasks, network, lost, config, phase, block, frame,
                   chain, panicked>>

Revert ==
    /\ command = "revert"
    /\ Started
    /\ past # <<>>
    /\ storage' = past[Len(past)]
    /\ past' = SubSeq(past, 1, Len(past) - 1)
    /\ command' = "none"
    /\ step' = 0
    /\ tasks' = {}
    /\ UNCHANGED <<conf, network, lost, config, phase, block, frame, chainVars>>

-----------------------------------------------------------------------------
(* The specification                                                       *)

NodeInit ==
    /\ chain \in Chains
    /\ built = 0
    /\ panicked = FALSE
    /\ config = [sudo |-> load_spec(chain).sudo, faucet |-> load_spec(chain).faucet]
    /\ RuntimeInit
    /\ command = "none"
    /\ conf \in Configurations
    /\ step = 0
    /\ tasks = {}
    /\ network = FALSE
    /\ lost = FALSE
    /\ past = <<>>

NodeNext ==
    \/ \E cmd \in {"node"} \union PartialCommands \union SyncCommands,
          c \in Configurations : Run(cmd, c)
    \/ StartStep
    \/ BuildChain
    \/ Stop
    \/ \E t \in MayEnd : TaskEnds(t)
    \/ TaskManagerExits
    \/ BeginBlock
    \/ ExecuteBlock
    \/ StoreBlock
    \/ PurgeChain
    \/ Revert

NodeSpec == NodeInit /\ [][NodeNext]_vars

-----------------------------------------------------------------------------
(* Properties                                                              *)

\* Nobody is served by a node that is half built.  The network is started
\* last, so that whatever a peer asks for or sends finds every task of the
\* role spawned (service.rs, network_starter.start_network); an RPC interface
\* is served on a chain with its genesis, by the parts it holds on to (rpc.rs,
\* create_full); and nothing of either stays after the process.
ServedOnlyWhenBuilt ==
    /\ network => /\ Started
                  /\ tasks \subseteq {Plan[i].task : i \in DOMAIN Plan}
    /\ \A api \in Served :
          /\ GenesisBuilt
          /\ create_full[api] \subseteq {Plan[i].name : i \in 1..step}

\* What a node of a role is there for: to follow the chain, as an authority to
\* write blocks, and to vote on finality where that is enabled.
DutiesOf(c) ==
    {"import-queue"}
    \union (IF c.role = "Authority" THEN {"babe"} ELSE {})
    \union (IF c.role # "Light" /\ c.grandpa THEN {"grandpa-voter"} ELSE {})

\* service.rs: "the GRANDPA voter task is considered infallible, i.e. if it
\* fails we take down the service with it".  A node that is up does each of
\* its duties or has told its task manager, which ends it: whichever task of
\* which role ends, during the start or after it, no node stays up that
\* quietly no longer authors, imports or votes.
DutiesDoneOrGoingDown ==
    (command = "node" /\ Started) => (lost \/ DutiesOf(conf) \subseteq tasks)
=============================================================================
