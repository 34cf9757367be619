------------------------------ MODULE MCScriptedNet ------------------------------
EXTENDS ScriptRules, E2EChecks, E2EShielded, Drills
MCScript ==
    [abci |-> AbciConsistency, sdk |-> XianPySmoke, contracts |-> ContractOrchestration, rollback |-> AtomicRollback,
     x402 |-> X402Exact, intentkit |-> IntentKitX402, periodic |-> PeriodicLoad, dex |-> DexAutomationRecovery,
     bds |-> BdsCatchup, retrieval |-> Retrieval, determinism |-> Determinism, validators |-> ValidatorGovernance,
     patch |-> StatePatch, logging |-> Logging, chaos |-> ChaosConvergence,
     checks |-> ContractChecks, suite |-> ContractSuite, mixed |-> Mixed, nonces |-> NonceRecovery,
     limits |-> BlockLimits, quorum |-> QuorumLoss, replay |-> CrashReplay, observer |-> ObserverSync,
     accounting |-> Accounting, signatures |-> Signatures, storage |-> StorageScan, corpus |-> ReplayCorpus,
     shielded |-> ShieldedPool, parallel |-> ParallelExecution,
     patch_drill |-> PatchDrill, hybrid |-> Hybrid, evidence |-> Evidence, leave |-> LeaveAnnouncement,
     \* those that read through one node what was written through another
     service |-> ShieldedService, governed |-> GovernedPolicy, conflict |-> Conflict, soak |-> SoakAbuse,
     secondary |-> BdsSecondary, call_drill |-> GovernanceCall, members |-> ManualMembers,
     delegation |-> AutoDelegation]
InLockstep ==
    {"service", "governed", "conflict", "soak", "secondary", "call_drill", "members", "delegation"}
\* those that go wrong only if a node may be two blocks behind
OneBehind == {"chaos", "validators"}
\* too many states with two
Long == {"shielded"}
MCLag ==
    [p \in DOMAIN MCScript |->
        IF p \in InLockstep THEN 0 ELSE IF p \in OneBehind \cup Long THEN 1 ELSE 2]

\* by phase: what is known at its outset, and then after each of its steps
MCCourse ==
    [p \in DOMAIN MCScript |->
        FoldLeft(LAMBDA c, st : Append(c, After(MCLag[p], Last(c), st)),
                 << Outset(MCScript[p]) >>, MCScript[p].steps)]
================================================================================
