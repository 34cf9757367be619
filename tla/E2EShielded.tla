------------------------------- MODULE E2EShielded -------------------------------
(***************************************************************************)
(* The shielded phase of scripts/localnet-e2e.py: a private token, votes   *)
(* that register the keys of its proofs, actions that are scheduled,       *)
(* commands, notes, and a transfer through the relayer service.  The       *)
(* proofs, the wallets of the notes and what is only reported are left out.*)
(***************************************************************************)
EXTENDS E2EPhases

\* the node that the other phases use first is spared: shielded_excluded_indices
Spared == {1}

Through(who, key) == Over(who, key, Spared)
Perhaps(who, key) == [TopUp(who, key) EXCEPT !.excluded = Spared]
ReadThrough(key) == ReadOver(key, Spared)

\* wallets get what they lack
TopUps == << Picked(2, Spared) >> \o [i \in 1..3 |-> Perhaps("founder", "balances")]

\* contracts are made that are not there yet, two for all six
Deployments ==
    << Perhaps("founder", "token"), Settle(1) >> \o [i \in 1..2 |-> Perhaps("founder", "contracts")]

Permissions == << Through("founder", "allowed"), Through("founder", "allowed") >>

PublicMint == << Perhaps("founder", "token"), Settle(1), Read(2, "token") >>

\* approve_governance_proposal with readers of its own: each asks a healthy node
Registered(key) ==
    << Through("node0", key), ReadThrough(key), Perhaps("node1", key), Perhaps("node2", key),
       Perhaps("node3", key), Perhaps("node4", key), ReadThrough(key) >>

\* a key is registered and bound
NoteKey == Registered("notes") \o << Perhaps("node0", "notes"), ReadThrough("notes") >>
CommandKey == Registered("commands") \o << Perhaps("node0", "commands"), ReadThrough("commands") >>
SchedulerKey == Registered("actions")

--------------------------------------------------------------------------------
(* The scheduler.                                                            *)

Acts == Through("founder", "actions")
ActFails == Through("founder", Nothing)
Seen == ReadThrough("actions")

Cancelled == << Acts, Acts, Seen, ActFails, Seen, ActFails, Seen, Acts, ActFails, Seen >>
PutOff == << Acts, Seen, ActFails, Seen, Acts, Seen >>
Executed == << Acts, Acts, Seen >>

--------------------------------------------------------------------------------
(* The commands: all clients use the node that was healthy at the beginning. *)

CommandDeposit ==
    << Picked(4, Spared), Read(4, "commands"), Send("founder", 4, "commands"), Send("founder", 4, "commands"),
       Send("bob", 4, "commands"), Read(4, "commands"),
       Send("alice", 4, "approved"), Send("alice", 4, "commands"), Read(4, "commands") >>
CommandRelay == << Send("relayer", 4, "commands"), Read(4, "commands") >>
CommandExit ==
    << Send("alice", 4, "commands"), Read(4, "commands"), FailsWith("alice", 4),
       Send("founder", 4, "commands"), Read(4, "commands") >>

--------------------------------------------------------------------------------
(* The notes: what the indexer has of them is awaited after each transaction.*)

NoteDeposit == << Picked(2, Spared), Picked(3, Spared), Send("alice", 2, "notes"), Indexed("notes") >>
NoteTransfer == << Send("alice", 2, "notes"), Indexed("notes") >>
NoteRelay == << Send("relayer", 3, "notes"), Indexed("notes") >>
NoteWithdrawal ==
    << Picked(2, Spared), Send("alice", 2, "notes"), Indexed("notes"), Read(2, "notes"), FailsWith("alice", 2) >>
ExactWithdrawal == << Send("alice", 2, "notes"), Read(2, "notes") >>
RecentDeposit == << Send("alice", 2, "notes"), Indexed("notes") >>

ShieldedPool ==
    Phase(TopUps \o Deployments \o Permissions \o PublicMint \o NoteKey \o CommandKey \o SchedulerKey
          \o Cancelled \o PutOff \o Executed \o CommandDeposit \o CommandRelay \o CommandExit
          \o NoteDeposit \o NoteTransfer \o NoteRelay \o NoteWithdrawal \o ExactWithdrawal \o RecentDeposit)

\* The relayer service sends through the node with the indexer; the checks ask another node.
ServiceJob == << Take("relayer"), Send("relayer", Bds, "notes"), PutBack("relayer") >>
ServiceNotes == << Indexed("notes"), Read(2, "notes") >>
ShieldedService == [Phase(<< Picked(2, Spared) >> \o ServiceJob \o ServiceNotes) EXCEPT !.finally = {"relayer"}]

--------------------------------------------------------------------------------

\* the transactions of a workload, then those of another; every node has to reach them
Probe == << PeriodicRound, PeriodicRound, Due("balances", 0), Recover >>
ParallelExecution == Phase(FundWallets(3) \o Probe \o Probe)
================================================================================
