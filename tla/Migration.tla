------------------------------ MODULE Migration ------------------------------
(***************************************************************************)
(* The deployment migration migrations/2_deploy_contracts.js run by        *)
(* `truffle migrate`: the Channel library, the Adjudicator linked to it,   *)
(* the two asset holders bound to the Adjudicator, and the PerunToken the  *)
(* ERC20 holder custodies.                                                 *)
(*                                                                         *)
(* Every line awaits one deployment transaction, and any of them (or the   *)
(* runner's closing Migrations.setCompleted) can fail: the process then    *)
(* exits, the contracts already mined stay on chain, and the addresses     *)
(* held in the in-memory artifacts are lost, since truffle writes the      *)
(* artifacts only after the migration completes.  The operator then runs   *)
(* `truffle migrate` again, which restarts the unfinished migration from   *)
(* its first line, or runs `truffle migrate --reset` after a completed     *)
(* one.                                                                    *)
(***************************************************************************)
EXTENDS Naturals, Sequences

CONSTANTS
    MaxFailures,    \* bound on failed transactions over the whole history
    MaxResets       \* bound on `truffle migrate --reset` runs

\* The artifacts the migration requires (artifacts.require).
Kinds == {"Channel", "Adjudicator", "AssetHolderETH", "PerunToken", "AssetHolderERC20"}

\* An address: the index of a deployed instance in chain, 0 for none.
None == 0

VARIABLES
    chain,      \* the contracts on chain, in deployment order
    addr,       \* in-memory artifact addresses of the running process
    link,       \* in-memory Channel library address linked into Adjudicator
    saved,      \* the artifacts on disk: [addr, link] of the last completed run
    pc,         \* "l<n>": line n of the migration is being executed; or "idle"
    completed,  \* the Migrations contract records migration 2 as completed
    failures,
    resets

migVars == <<chain, addr, link, saved, pc, completed, failures, resets>>

NoArtifacts == [addr |-> [k \in Kinds |-> None], link |-> None]

\* A deployed contract: its kind and the addresses its bytecode or
\* constructor bound it to.
Instance(kind, lib, adj, token) == [kind |-> kind, lib |-> lib, adj |-> adj, token |-> token]

\* Mutant: the artifact records the address of the next contract, not of
\* the one just mined.
MutDeployOffByOne(kind, lib, adj, token) ==
    /\ chain' = Append(chain, Instance(kind, lib, adj, token))
    /\ addr' = [addr EXCEPT ![kind] = Len(chain) + 2]

\* deployer.deploy(C, args...): mine a new instance, set C.address.
Deploy(kind, lib, adj, token) ==
    /\ chain' = Append(chain, Instance(kind, lib, adj, token))
    /\ addr' = [addr EXCEPT ![kind] = Len(chain) + 1]

\* A deployment completed before this history: the artifacts on disk name
\* a consistent suite (a network that was migrated once already).
PriorDeployment ==
    << Instance("Channel", None, None, None),
       Instance("Adjudicator", 1, None, None),
       Instance("AssetHolderETH", None, 2, None),
       Instance("PerunToken", None, None, None),
       Instance("AssetHolderERC20", None, 2, 4) >>

PriorArtifacts ==
    [addr |-> [k \in Kinds |-> CASE k = "Channel" -> 1 [] k = "Adjudicator" -> 2
                                 [] k = "AssetHolderETH" -> 3 [] k = "PerunToken" -> 4
                                 [] k = "AssetHolderERC20" -> 5],
     link |-> 1]

MigInit ==
    /\ \/ chain = << >> /\ saved = NoArtifacts /\ completed = FALSE
       \/ chain = PriorDeployment /\ saved = PriorArtifacts /\ completed = TRUE
    /\ addr = saved.addr
    /\ link = saved.link
    /\ pc = "idle"
    /\ failures = 0
    /\ resets = 0

-----------------------------------------------------------------------------
(* `truffle migrate`: migration 2 is not recorded as completed, so the    *)
(* runner loads the artifacts from disk and starts the script.            *)
Migrate ==
    /\ pc = "idle"
    /\ ~completed
    /\ pc' = "l22"
    /\ addr' = saved.addr
    /\ link' = saved.link
    /\ UNCHANGED <<chain, saved, completed, failures, resets>>

(* `truffle migrate --reset`: rerun every migration from the start.       *)
MigrateReset ==
    /\ pc = "idle"
    /\ completed
    /\ resets < MaxResets
    /\ pc' = "l22"
    /\ completed' = FALSE
    /\ resets' = resets + 1
    /\ addr' = saved.addr
    /\ link' = saved.link
    /\ UNCHANGED <<chain, saved, failures>>

\* await deployer.deploy(Channel);
DeployChannel ==
    /\ pc = "l22"
    /\ Deploy("Channel", None, None, None)
    /\ pc' = "l23"
    /\ UNCHANGED <<link, saved, completed, failures, resets>>

\* Mutant: line 23 is dropped, Adjudicator keeps whatever link it had.
MutLinkChannelDropped ==
    /\ pc = "l23"
    /\ addr["Channel"] # None
    /\ pc' = "l24"
    /\ UNCHANGED <<chain, addr, link, saved, completed, failures, resets>>

\* await deployer.link(Channel, Adjudicator);  (throws if Channel has no
\* address)
LinkChannel ==
    /\ pc = "l23"
    /\ addr["Channel"] # None
    /\ link' = addr["Channel"]
    /\ pc' = "l24"
    /\ UNCHANGED <<chain, addr, saved, completed, failures, resets>>

\* await deployer.deploy(Adjudicator);  (throws on unresolved libraries)
DeployAdjudicator ==
    /\ pc = "l24"
    /\ link # None
    /\ Deploy("Adjudicator", link, None, None)
    /\ pc' = "l26"
    /\ UNCHANGED <<link, saved, completed, failures, resets>>

\* Mutant: the Adjudicator address is read from the artifact before this
\* run redeployed it (cached at the top of the script).
MutDeployAssetHolderETHStale ==
    /\ pc = "l26"
    /\ saved.addr["Adjudicator"] # None
    /\ Deploy("AssetHolderETH", None, saved.addr["Adjudicator"], None)
    /\ pc' = "l27"
    /\ UNCHANGED <<link, saved, completed, failures, resets>>

\* await deployer.deploy(AssetHolderETH, Adjudicator.address);
DeployAssetHolderETH ==
    /\ pc = "l26"
    /\ addr["Adjudicator"] # None
    /\ Deploy("AssetHolderETH", None, addr["Adjudicator"], None)
    /\ pc' = "l27"
    /\ UNCHANGED <<link, saved, completed, failures, resets>>

\* await deployer.deploy(PerunToken, accounts, 1<<10);
DeployPerunToken ==
    /\ pc = "l27"
    /\ Deploy("PerunToken", None, None, None)
    /\ pc' = "l28"
    /\ UNCHANGED <<link, saved, completed, failures, resets>>

\* await deployer.deploy(AssetHolderERC20, Adjudicator.address, PerunToken.address);
DeployAssetHolderERC20 ==
    /\ pc = "l28"
    /\ addr["Adjudicator"] # None /\ addr["PerunToken"] # None
    /\ Deploy("AssetHolderERC20", None, addr["Adjudicator"], addr["PerunToken"])
    /\ pc' = "setCompleted"
    /\ UNCHANGED <<link, saved, completed, failures, resets>>

(* The script's promise resolves: the runner records the migration with   *)
(* Migrations.setCompleted and writes the artifacts.                      *)
Complete ==
    /\ pc = "setCompleted"
    /\ completed' = TRUE
    /\ saved' = [addr |-> addr, link |-> link]
    /\ pc' = "idle"
    /\ UNCHANGED <<chain, addr, link, failures, resets>>

(* The awaited transaction of the current line reverts or the node drops  *)
(* the connection: the process exits, mined contracts stay, the in-memory *)
(* artifacts are gone.                                                    *)
Fail ==
    /\ pc # "idle"
    /\ failures < MaxFailures
    /\ pc' = "idle"
    /\ failures' = failures + 1
    /\ addr' = saved.addr
    /\ link' = saved.link
    /\ UNCHANGED <<chain, saved, completed, resets>>

\* Nothing is left to run.
Finished ==
    /\ pc = "idle" /\ completed /\ resets = MaxResets
    /\ UNCHANGED migVars

ScriptStep ==
    \/ DeployChannel \/ LinkChannel \/ DeployAdjudicator \/ DeployAssetHolderETH
    \/ DeployPerunToken \/ DeployAssetHolderERC20

MigNext ==
    \/ Migrate \/ MigrateReset \/ ScriptStep \/ Complete \/ Fail \/ Finished

(* The script awaits each transaction and the runner moves on; an operator *)
(* reruns a migration that failed.  Failures and resets get no fairness.  *)
MigFairness ==
    /\ WF_migVars(Migrate)
    /\ WF_migVars(ScriptStep)
    /\ WF_migVars(Complete)

MigSpec == MigInit /\ [][MigNext]_migVars /\ MigFairness

-----------------------------------------------------------------------------
MigTypeOK ==
    /\ \A i \in DOMAIN chain : chain[i].kind \in Kinds
    /\ addr \in [Kinds -> 0..Len(chain)]
    /\ saved.addr \in [Kinds -> 0..Len(chain)]
    /\ pc \in {"idle", "l22", "l23", "l24", "l26", "l27", "l28", "setCompleted"}
    /\ completed \in BOOLEAN

\* The saved artifact of kind k names a contract of that kind.
SavedIs(k) == saved.addr[k] # None /\ chain[saved.addr[k]].kind = k

(* Whatever failed and was rerun, the artifacts on disk (what tests and   *)
(* clients load) name one coherent suite: both asset holders are bound to *)
(* the saved Adjudicator, the ERC20 holder to the saved PerunToken, and   *)
(* the Adjudicator is linked to the saved Channel library.                *)
SavedSuiteConsistent ==
    saved # NoArtifacts =>
        /\ \A k \in Kinds : SavedIs(k)
        /\ chain[saved.addr["Adjudicator"]].lib = saved.addr["Channel"]
        /\ chain[saved.addr["AssetHolderETH"]].adj = saved.addr["Adjudicator"]
        /\ chain[saved.addr["AssetHolderERC20"]].adj = saved.addr["Adjudicator"]
        /\ chain[saved.addr["AssetHolderERC20"]].token = saved.addr["PerunToken"]

(* Every migration that is started or left unfinished by a failure is    *)
(* eventually completed, provided transactions stop failing.              *)
MigrationCompletes ==
    (pc # "idle" \/ ~completed) ~> (pc = "idle" /\ completed)
=============================================================================
