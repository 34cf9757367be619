-------------------------------- MODULE E2EPhases --------------------------------
(***************************************************************************)
(* The phases of scripts/localnet-e2e.py, as sequences of steps.  A long   *)
(* phase is made of sections, in the order of the code.  Reads whose       *)
(* result is only reported, deployments one after another through one node *)
(* and the contents of the transactions are left out.                      *)
(***************************************************************************)
EXTENDS Steps, SequencesExt

\* fund_wallets: the founder sends to each wallet that has too little, through any
\* healthy node, and the nodes have to agree on what a healthy node answers then
FundWallets(wallets) ==
    [i \in 1..wallets |-> TopUp("founder", "balances")] \o << Settle(1), Agree("balances") >>

AbciConsistency ==
    Phase(<< Send("founder", 0, "probe"), Agree("probe"), Hashes >>)

XianPySmoke ==
    Phase(FundWallets(2)
          \o << Send("founder", 1, "conflict"), Send("founder", 1, "patch_target"),
                Send("founder", 1, "allocation"), Read(1, "conflict"), Read(1, "patch_target"),
                Settle(1), Send("founder", 1, "allocation"), Agree("allocation"),
                Fails("founder", 1), Fails("founder", 1), Agree("allocation") >>)

--------------------------------------------------------------------------------
(* contract_orchestration_phase *)

DeployContracts ==
    << Send("operator", 1, "contracts"), Send("operator", 1, "family"), Read(1, "family") >>

CompilerProbes ==
    << FailsWith("operator", 1), Read(1, "contracts"), Fails("operator", 1), Read(1, "contracts"),
       Send("operator", 1, "shadow"), Agree("shadow") >>

OverDepth ==
    << Refused(1), Send("sender", 2, "shadow"), Agree("shadow"), Settle(0) >>

DynamicCalls ==
    << Over("operator", "touch", {}), ReadAny("touch"), Settle(0), Read(3, "touch"),
       Over("operator", "overlay", {}), Agree("overlay") >>

DirectAllowance ==
    << Send("operator", 0, "allowance"), Agree("allowance"),
       Send("spender", 1, "allowance"), Agree("allowance") >>

PermitAllowance ==
    << Send("permitted", 2, "permit"), Agree("permit"), Send("permitted", 2, "permit"), Agree("permit") >>

InvalidPermits ==
    << FailsWith("invalid", 3), Agree("permit"), FailsWith("invalid", 3), Agree("permit"),
       FailsWith("permitted", 2), Agree("permit") >>

\* one transaction through two nodes; its receipt from a third
DuplicateSubmission ==
    << Read(0, "balances"), Send("duplicate", 4, "paid"), Agree("paid") >>
    \o << ReadAll("duplicate"), Read(2, "duplicate") >>

FailedFamily ==
    << Fails("operator", 4), Fails("operator", 4), Read(4, "family") >>

ContractOrchestration ==
    Phase(FundWallets(2) \o DeployContracts \o CompilerProbes \o OverDepth \o DynamicCalls
          \o DirectAllowance \o PermitAllowance \o InvalidPermits \o DuplicateSubmission
          \o FailedFamily)

--------------------------------------------------------------------------------

\* Operators named ...Faulty are the operator they precede with one plausible
\* mistake; no specification uses them.  They show that a property notices it.

AtomicRollback ==
    Phase(FundWallets(1)
          \o << Send("operator", 0, "rollback"), Send("operator", 0, "rollback"), Agree("rollback"),
                FailsWith("operator", 0), FailsWith("operator", 0), Fails("operator", 0),
                Agree("rollback"), Agree("balances"), Send("operator", 0, "rollback"), Agree("rollback") >>)

\* the indexer has to reach what the node that serves it has now
IndexedNow == << Mark(Bds, 0), IndexedMark >>

X402Settlement ==
    << Read(0, "balances"), Send("facilitator", 0, "x402"), Send("facilitator", 0, "payment"),
       FailsWith("facilitator", 0) >>

X402Exact ==
    Phase(FundWallets(2) \o X402Settlement \o << Agree("payment") >> \o IndexedNow)

\* The payment is made by a program of its own, through node 0; its directory is removed.
IntentKitX402 ==
    [Phase(FundWallets(2)
           \o << Read(0, "balances"), Take("order file"), Send("facilitator", 0, "payment"),
                 PutBack("order file"), Agree("payment") >>)
     EXCEPT !.finally = {"order file"}]

\* every wallet sends through a node of its own
PeriodicRound == Together({Tx("w1", 0, "balances"), Tx("w2", 1, "balances"), Tx("w3", 2, "balances")})
PeriodicLoad == Phase(FundWallets(3) \o << PeriodicRound, PeriodicRound >>)

\* Two claims race for one slot; the loser sends another one through a third node.
ConflictRace == Together({Tx("w1", 0, "claims"), Tx("w2", 1, "claims")})
Conflict == Phase(FundWallets(2) \o << ConflictRace, FailsWith("w1", 2), Read(2, "claims") >>)

DexAutomationRecovery ==
    Phase(<< Settle(1) >> \o FundWallets(2) \o << Over("founder", "token", {}), ReadAny("token") >>)

--------------------------------------------------------------------------------
(* bds_catchup_phase *)

\* transactions while the database of the indexer is stopped
Outage ==
    << Take("postgres"), Over("founder", "sets", {Bds}), Over("w1", "claims", {Bds}),
       Over("w2", "claims", {Bds}), Mark(Bds, 0), Backlog >>

Recovery == << PutBack("postgres"), Indexed("claims"), Indexed("sets") >>

BdsCatchup ==
    [Phase(<< Settle(0) >> \o FundWallets(2) \o IndexedNow \o Outage \o Recovery)
     EXCEPT !.finally = {"postgres"}]

\* a second database is filled from the same node, and again after an outage
Secondary ==
    << Take("secondary"), Read(Bds, "claims"), Over("w1", "claims", {Bds}),
       Over("w2", "claims", {Bds}), Read(Bds, "claims"), PutBack("secondary") >>

BdsSecondary ==
    [Phase(FundWallets(2) \o << Over("w1", "claims", {Bds}), Indexed("claims") >> \o Secondary)
     EXCEPT !.finally = {"postgres", "secondary"}]

IndexedReads == IndexedNow \o << Read(Bds, "claims") >>

\* a node is watched while a transaction goes through it
Trigger == << Send("trigger", 0, "claims"), Read(0, "claims") >>

Retrieval == Phase(IndexedReads \o FundWallets(1) \o Trigger)

Determinism ==
    Phase(<< Hashes, Agree("claims"), Agree("patch_target"), Agree("touch"), ReadAll("token") >>)

--------------------------------------------------------------------------------
(* validator_governance_phase *)

V1 == Voter("node1", 1)
V2 == Voter("node2", 2)
V3 == Voter("node3", 3)
V4 == Voter("node4", 4)

\* invalid_registration_check
InvalidRegistration ==
    << Send("founder", 0, "registrar") >> \o Agreement
    \o << Send("founder", 0, "registrar"), Read(0, "registrar"), FailsWith("founder", 0) >>
    \o Agreement \o << ReadAll("registrar") >>

RewardSplit ==
    Approve("node0", 0, <<V1, V2, V3>>, "rewards", Same)
    \o << Agree("rewards"), Read(0, "rewards"), Send("node0", 0, "probe"), Read(0, "probe") >>

\* node 0 makes two more blocks before it is asked for what was decided
TwoBlocks == << Mark(0, 2), Reach(0) >>

Powers(of3) == [n \in Node |-> IF n = 3 THEN of3 ELSE 10]

PowerWhileDown ==
    << Stop({4}) >>
    \o Approve("node0", 0, <<V1, V2, V3>>, "power", Powers(15))
    \o TwoBlocks \o << Read(0, "power"), Start({4}), Read(4, "power") >>

RemoveMember ==
    Approve("node0", 0, <<V1, V2, V3, V4>>, "members", Powers(0))
    \o TwoBlocks \o << Validators(0, 4) >>

AddMember ==
    << Send("node3", 3, "approval"), Send("node3", 3, "registered") >>
    \o Approve("node0", 0, <<V1, V2, V4>>, "members", Powers(12))
    \o TwoBlocks \o << Validators(0, 5), Read(0, "members") >>

\* the answers of node 0 are compared at once
Policy == Approve("node0", 0, <<V1, V2, V3, V4>>, "policy", Same) \o << Read(0, "policy") >>

Standby ==
    << Send("standby", 0, "standby"), Send("standby", 0, "standby"), Send("node0", 0, "policy"),
       Read(0, "policy"), Read(0, "standby"), Send("standby", 0, "standby") >>

ValidatorGovernance ==
    Phase(FundWallets(2) \o InvalidRegistration \o RewardSplit \o PowerWhileDown \o RemoveMember \o AddMember)

GovernedPolicy == Phase(Policy \o Standby \o Policy)

\* The patch is put beside every node, proposed, and takes effect at a height that is
\* known beforehand while node 4 is down.
StatePatch ==
    Phase(<< RestartAll >>
          \o Approve("node0", 0, <<V1, V2, V3, V4>>, "patch_target", Same)
          \o << Stop({4}), Due("patch_target", 1), Reach(0), Indexed("patch_target"),
                Read(Bds, "patch_target"), Start({4}), Read(4, "patch_target") >>)

--------------------------------------------------------------------------------

\* transactions until every node has logged one
LogTrigger == << Send("trigger", 0, "balances"), Settle(1), Send("trigger", 0, "balances") >>

LoggingChecks ==
    << Take("logging"), RestartAll >> \o FundWallets(1) \o << Refused(0) >> \o LogTrigger
    \o << RestartAll >> \o LogTrigger

\* the settings are put back whether the checks succeed or not; the nodes are
\* restarted with them only if they do
Logging ==
    [Phase(LoggingChecks \o << PutBack("logging"), RestartAll >>)
     EXCEPT !.finally = {"logging"}]

Wallets == <<"w0", "w1", "w2", "w3", "w4", "w5">>

\* While one node is down the others take claims: there are more transactions than
\* wallets, so two wallets are used through a second node, and one of them then through
\* the first node again.
ChaosLoad(cycle, active) ==
    [i \in 1..8 |-> Send(Wallets[((cycle + i - 1) % 6) + 1], active[((i - 1) % 4) + 1], "claims")]
    \o << FailsWith(Wallets[cycle + 1], active[1]), Mark(0, 0) >>

\* wait_for_conflict_counter_convergence: all nodes have to answer what node 0 answers now
Converged == << Read(0, "claims"), Agree("claims") >>

\* all nodes have to agree before the one that is down is started
ChaosCycleFaulty(cycle, target) ==
    << Stop({target}) >>
    \o ChaosLoad(cycle, SelectSeq(<<0, 1, 2, 3, 4>>, LAMBDA n : n # target))
    \o Converged \o << Start({target}), Hashes >>

ChaosCycle(cycle, target) ==
    << Stop({target}) >>
    \o ChaosLoad(cycle, SelectSeq(<<0, 1, 2, 3, 4>>, LAMBDA n : n # target))
    \o << Start({target}) >> \o Converged \o << Hashes >>

ChaosConvergence ==
    Phase(FundWallets(2) \o ChaosCycle(0, 1) \o ChaosCycle(1, 2))

\* Batches of transactions through all nodes; a batch is as large as there are wallets,
\* so each wallet comes to another node in the next batch.
SoakBatch(shift) ==
    Together({Tx("w1", shift, "claims"), Tx("w2", shift + 1, Nothing), Tx("w3", shift + 2, Nothing)})

SoakAbuse ==
    Phase(FundWallets(3) \o << Send("w1", 0, "claims"), SoakBatch(1) >> \o Converged \o << SoakBatch(0) >>
          \o Converged \o << Hashes >>)
================================================================================
