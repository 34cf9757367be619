--------------------------------- MODULE Drills ---------------------------------
(***************************************************************************)
(* The drills of scripts/localnet-protocol-safety.py: votes of the         *)
(* validators about contracts, state and themselves, evidence against one  *)
(* of them and the departure of another.                                   *)
(***************************************************************************)
EXTENDS Steps, SequencesExt

Founded(wallets) == [i \in 1..wallets |-> Send("founder", 1, "balances")]

\* the first node is restarted and has to come to the height of the second; a node that
\* does not come to it in time is restarted, too
RecoverAt(at) == << Mark(at, 0), Recover >>
RestartPrimary == << Mark(1, 0), Stop({0}), Start({0}) >> \o RecoverAt(1)

\* the powers of those that are active
Members(active) == [n \in Node |-> IF n \in active THEN 10 ELSE 0]
PowerOf3(power) == [n \in Node |-> IF n = 3 THEN power ELSE 10]

Everyone == << Voter("node1", 1), Voter("node2", 2), Voter("node3", 3), Voter("node4", 4) >>

--------------------------------------------------------------------------------

\* approve_governance_contract_call: the proposer alone is asked before each vote
GovernanceCall ==
    Phase(Founded(5) \o << Send("node0", 0, "probe"), Read(0, "probe") >>
          \o ApproveAsking({0}, "node0", 0, Everyone, "probe", Same)
          \o << Read(0, "probe") >>)

\* All votes go through one node; the patch takes effect at a height that is known.
PatchDrill ==
    Phase(<< Mark(0, 0), RestartAll, Mark(0, 1), Reach(0), Send("node0", 0, "patch"), Read(0, "patch"),
             Send("node1", 0, "votes"), Send("node2", 0, "votes"), Send("node3", 0, "mode"),
             Until(0, "mode"), Due("mode", 1), Reach(0), Recover, Read(0, "mode") >>)

ManualPower ==
    Approve("node0", 0, Everyone, "power", PowerOf3(15))
    \o << Read(0, "power"), Mark(0, 2), Reach(0), Counted(5) >>

ManualRemoval ==
    Approve("node0", 0, Everyone, "power", Members(Node \ {3})) \o << Counted(4), Read(0, "power") >>

\* the removed validator asks for more than it had
ManualReturn ==
    << Send("node3", 3, "approval"), Send("node3", 3, "registered"), Send("node3", 3, "registered"),
       Read(0, "registered") >>
    \o Approve("node0", 0, << Voter("node1", 1), Voter("node2", 2), Voter("node4", 4) >>, "power", PowerOf3(13))
    \o << Counted(5), Read(0, "power") >>

ManualMembers == Phase(Founded(4) \o ManualPower \o ManualRemoval \o ManualReturn)

--------------------------------------------------------------------------------
(* auto_delegation_phase: node 0 signs through node 1.                       *)

Bonds ==
    RestartPrimary \o Founded(1)
    \o << Send("node0", 1, "approvals"), Send("node1", 1, "approvals"), Send("node2", 2, "approvals"),
          Send("node3", 3, "approvals"), Send("node4", 4, "approvals"),
          Send("node0", 1, "bonds"), Send("node1", 1, "bonds"), Send("node2", 2, "bonds"),
          Send("node3", 3, "bonds"), Send("node4", 4, "bonds") >>

\* the three with the largest bonds become active
TopPolicy ==
    Approve("node0", 1, Everyone, "active", Members({1, 2, 3})) \o RecoverAt(1)
    \o << Counted(3), Read(1, "active") >>

Delegation ==
    << Send("delegator", 1, "delegation"), Send("delegator", 1, "delegation"), Read(1, "delegation"),
       Elect("node0", 1, "active", Members({1, 2, 3})), Read(1, "active") >>

Jail ==
    Approve("node2", 2, << Voter("node3", 3), Voter("node1", 1) >>, "active", Members({2, 3, 4}))
    \o << Read(1, "active") >>

\* only here the reader waits until it has the block with the vote
Unjail ==
    Approve("node2", 2, << Voter("node3", 3), Voter("node4", 4) >>, "jailed", Same)
    \o << Due("jailed", 1), Reach(0), Read(1, "jailed"),
          Elect("node0", 1, "active", Members({1, 2, 3})), Until(1, "active") >>

Slash ==
    Approve("node2", 2, << Voter("node3", 3), Voter("node1", 1) >>, "slashed", Same)
    \o << Read(1, "slashed") >>

Undelegation ==
    << Send("delegator", 1, "delegation"), Read(1, "delegation"), Send("delegator", 1, "claimed"),
       Read(1, "claimed"), Read(1, "delegation") >>

AutoDelegation == Phase(Bonds \o TopPolicy \o Delegation \o Jail \o Unjail \o Slash \o Undelegation)

--------------------------------------------------------------------------------

\* Everyone signs through node 3.
Hybrid ==
    [Phase(RestartPrimary
           \o Approve("node3", 3, << Voter("node2", 3), Voter("node1", 3) >>, "active", Members({2, 3, 4}))
           \o << Read(3, "active") >>
           \o Approve("node3", 3, << Voter("node2", 3), Voter("node4", 3) >>, "policy", Same)
           \o << Read(3, "policy"), Send("node1", 3, "approval"), Send("node1", 3, "registered"),
                 Send("node1", 3, "approval"), Send("node1", 3, "bonds"),
                 Elect("node3", 3, "active", Same), Read(3, "active") >>
           \o Approve("node3", 3, << Voter("node2", 3), Voter("node4", 3) >>, "active", Members({1, 2, 3}))
           \o << Read(3, "active"), Counted(3) >>)
     EXCEPT !.powers = Members({1, 2, 3})]

\* A double signature of node 1 is reported to node 0; node 4 takes its place.
Evidence ==
    [Phase(RestartPrimary
           \o << Read(0, "jailed"), Elect("evidence", 0, "jailed", Members({2, 3, 4})),
                 Mark(0, 2), Reach(0), Until(0, "jailed"), Counted(3), Read(0, "jailed") >>)
     EXCEPT !.powers = Members({1, 2, 3})]

\* Node 3 says that it leaves, may not do so at once, and node 0 takes its place.
LeaveAnnouncement ==
    [Phase(RestartPrimary
           \o << Send("node3", 3, "leaving"), Until(0, "leaving"), FailsWith("node3", 3),
                 Elect("node0", 0, "active", Members({0, 2, 4})), Until(0, "active"), Counted(3),
                 Read(0, "leaving") >>)
     EXCEPT !.powers = Members({2, 3, 4})]
================================================================================
