-------------------------------- MODULE E2EChecks --------------------------------
(***************************************************************************)
(* The phases of scripts/localnet-e2e.py that are in modules of their own: *)
(* localnet_*_checks.py, localnet_replay_corpus.py and                     *)
(* localnet_contract_suite.py.                                             *)
(***************************************************************************)
EXTENDS E2EPhases

--------------------------------------------------------------------------------
(* The helpers that these phases share.                                      *)

\* a contract of the founder's, and the agreement of all nodes about it
Deploy(key) == << Send("founder", 0, key) >> \o Agreement

\* a call through node 0 that has to succeed or to fail, and what all nodes have then
Checked(who, key) == << Send(who, 0, key) >> \o Agreement \o << ReadAll(key) >>
CheckedFailure(who, key) == << FailsWith(who, 0) >> \o Agreement \o << ReadAll(key) >>

\* the receipts of all nodes are compared as well
Matched(steps, who) == << steps[1], Agree(who) >> \o Tail(steps)

\* transactions that no block can take while too few nodes are connected
Without(nodes, steps) == << Partition(nodes) >> \o steps \o << Heal >>

Parted(steps) == [Phase(steps) EXCEPT !.finally = {"partition"}]

--------------------------------------------------------------------------------
(* localnet_runtime_safety_checks.py, localnet_dictionary_checks.py,         *)
(* localnet_compatibility_checks.py                                          *)

Metadata ==
    LET Field == << FailsWith("founder", 0) >> \o CheckedFailure("founder", "child")
    IN Field \o Field \o CheckedFailure("founder", "direct")

Authority ==
    Deploy("factory") \o Deploy("probe")
    \o << Send("founder", 0, "child") >> \o CheckedFailure("founder", "child")
    \o << Send("founder", 0, "child") >> \o Metadata
    \o << Send("founder", 0, "child") >> \o Checked("founder", "child")

ConstructorBudgets ==
    Deploy("factory") \o << Send("founder", 0, "single") >>
    \o FlattenSeq([i \in 1..3 |-> CheckedFailure("founder", "absent")])

StoredValues ==
    Deploy("values")
    \o FlattenSeq([i \in 1..3 |-> CheckedFailure("founder", "values") \o Checked("founder", "values")])
    \o << Send("founder", 0, "returned") >> \o Agreement

ZeroChi ==
    FundWallets(1) \o [i \in 1..5 |-> Refused(i - 1)] \o Checked("signer", "signer")

\* calls that fail between two that succeed
Succeeds(key) == Matched(Checked("founder", key), "founder")
FailsThere(key) == Matched(CheckedFailure("founder", key), "founder")
Dictionary ==
    Deploy("dictionary") \o Succeeds("dictionary") \o FailsThere("dictionary") \o Succeeds("dictionary")
    \o Agreement
Compatibility ==
    Deploy("runtime") \o Succeeds("runtime") \o FailsThere("runtime") \o FailsThere("runtime")
    \o Succeeds("runtime") \o Agreement

ContractChecks == Phase(Authority \o ConstructorBudgets)

--------------------------------------------------------------------------------
(* localnet_contract_suite.py                                                *)

\* Each case is sent by its actor through the next node, and checked on all of them.
SuiteCase(who, at, key) == << Send(who, at, key), Agree(who), ReadAll("suite") >>

SuiteCases ==
    SuiteCase("alice", 0, "suite") \o SuiteCase("bob", 1, "suite") \o SuiteCase("alice", 2, Nothing)
    \o SuiteCase("alice", 3, Nothing) \o SuiteCase("alice", 4, "suite") \o SuiteCase("bob", 0, Nothing)

ContractSuite ==
    Phase(FundWallets(3)
          \o << Send("founder", 0, "suite"), Agree("founder"), Send("founder", 0, "suite"), Agree("founder"),
                ReadAll("suite") >>
          \o SuiteCases \o SuiteCase("alice", 0, "suite") \o SuiteCase("alice", 1, "suite") \o Agreement)

--------------------------------------------------------------------------------
(* localnet_execution_checks.py                                              *)

\* Transfers meet in one block, which one node executes serially; the settings are
\* put back and all nodes restarted with them in any case.
Mixed ==
    [Phase(<< Take("config"), RestartAll >> \o FundWallets(2)
           \o Without({3, 4}, << Read(0, "s1"), Read(0, "s2") >>)
           \o << Together({Tx("s1", 0, "received"), Tx("s2", 0, "received")}) >>
           \o Agreement \o << Read(4, "received") >> \o Agreement
           \o << PutBack("config"), RestartAll >>)
     EXCEPT !.finally = {"config", "partition"}, !.revived = Node]

\* The node with the transactions is restarted before a block can take them: what it
\* has admitted is then sent to it again.
PendingRestart ==
    Without({3, 4}, << Refused(0), Read(0, "signer"), Refused(0), Stop({0}), Start({0}), Read(0, "signer") >>)

NonceRecovery ==
    Parted(ZeroChi \o FundWallets(1) \o PendingRestart
           \o << Send("signer", 0, "paid"), FailsWith("signer", 0), Send("signer", 0, "paid") >>
           \o Agreement \o << ReadAll("signer"), ReadAll("paid"), Refused(0) >> \o Agreement)

\* Transactions for more than one block, then one that runs out of its budget.
LimitsWorkload ==
    Deploy("probe") \o FundWallets(2)
    \o << Refused(0) >> \o Without({3, 4}, << Read(0, "s1"), Read(0, "s2") >>)
    \o << Together({Tx("s1", 0, "sized"), Tx("s2", 0, "sized")}), FailsWith("s3", 0), ReadAll("probe"),
          Send("s3", 0, "bumped"), Due("sized", 1), Reach(0) >> \o Agreement

BlockLimits ==
    [Phase(<< Take("config"), Restarted >> \o Agreement \o LimitsWorkload
           \o << PutBack("config"), Restarted >> \o Agreement)
     EXCEPT !.finally = {"config", "partition"}, !.revived = Node]

--------------------------------------------------------------------------------
(* localnet_recovery_checks.py                                               *)

\* one node is cut off, then two of them, whose powers the others need; the powers
\* are those that validator_governance_phase has left
QuorumLoss ==
    [Parted(Without({4}, << Mark(0, 3), Reach(0) >>) \o Agreement
           \o Without({3, 4}, << Halted >>) \o Agreement
           \o << RestartAll, Reach(0) >> \o Agreement)
     EXCEPT !.powers = Powers(12)]

\* Node 4 dies at a chosen place in the commit of a transaction, and is started again.
CrashReplayOnce ==
    << Send("signer", 0, "counts"), Stop({4}), Due("counts", 0), Start({4}) >> \o Agreement
    \o << ReadAll("counts"), ReadAll("signer") >>

CrashReplay ==
    [Phase(Deploy("crash") \o FundWallets(1) \o << Take("hook"), Stop({4}), Start({4}) >>
           \o CrashReplayOnce \o CrashReplayOnce \o CrashReplayOnce
           \o << PutBack("hook"), Stop({4}), Start({4}) >>)
     EXCEPT !.finally = {"hook"}, !.revived = {4}]

--------------------------------------------------------------------------------

\* localnet_sync_checks.py: two nodes more, one after the other, that have to come to
\* the height of the first node and to agree with all
Observer == << Take("observer"), Mark(0, 0) >> \o Agreement \o << Read(0, "sampled"), PutBack("observer") >>
ObserverSync == [Phase(<< Mark(0, 2), Reach(0) >> \o Observer \o Observer) EXCEPT !.finally = {"observer"}]

\* localnet_accounting_checks.py: operations of the accounts through the nodes in turn,
\* some of which have to fail; all nodes are restarted in the middle
AccountingStep(who, at, key) == << Send(who, at, key) >> \o Agreement \o << Read(0, "ledger") >>
Accounting ==
    Phase(Deploy("ledger") \o FundWallets(4)
          \o << Send("founder", 0, "ledger"), Send("founder", 0, "ledger") >>
          \o AccountingStep("a1", 0, "ledger") \o AccountingStep("a1", 1, "ledger")
          \o AccountingStep("a1", 2, "ledger") \o << RestartAll >> \o AccountingStep("a2", 3, Nothing)
          \o AccountingStep("a2", 4, Nothing) \o AccountingStep("founder", 0, "ledger") \o Agreement)

\* localnet_signature_checks.py
Signatures ==
    Phase(<< ReadAll("genesis") >> \o [i \in 1..5 |-> Refused(i - 1)]
          \o Deploy("verifier") \o Checked("founder", "verified"))

\* localnet_storage_scan_checks.py
StorageScan ==
    LET Scan(at) == << Send("founder", at, "scanned") >> \o Agreement \o << ReadAll("scanned") >>
    IN Phase(Deploy("data") \o Deploy("reader") \o Scan(0) \o Scan(1) \o Scan(4) \o Scan(0)
             \o StoredValues \o Dictionary \o Compatibility \o Agreement)

\* localnet_replay_corpus.py: the blocks of a node that is stopped are replayed by a
\* program of their own, and compared with what the first node answers
ReplayCorpus ==
    [Phase(<< Stop({4}), Marker(4, 0), Start({4}), Reach(0), Marker(4, 1), Reach(0),
              Take("replay"), PutBack("replay") >>)
     EXCEPT !.finally = {"replay"}, !.revived = {4}]
================================================================================
