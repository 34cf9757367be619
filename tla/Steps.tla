--------------------------------- MODULE Steps ---------------------------------
(***************************************************************************)
(* The steps that a phase of scripts/localnet-e2e.py, a check or a drill   *)
(* is made of.  ScriptedNet says what each of them does.                   *)
(***************************************************************************)
EXTENDS Integers, Sequences

Node == 0..4    \* DEFAULT_LOCALNET_NODES

CONSTANT Bds       \* the node with the indexer: --bds-node-index
ASSUME BdsAssumption == Bds \in Node

\* A key stands for the state that a step is about, a wallet for the sequence
\* of its nonces.
Nothing == "nothing"

Tx(who, at, key) == [who |-> who, at |-> at, key |-> key]
\* transactions of several wallets at once, with their receipts
Together(txs) == [op |-> "send", txs |-> txs, lenient |-> FALSE]
\* a transaction of a wallet through one node, with its receipt from that node
Send(who, at, key) == Together({Tx(who, at, key)})
\* one that must fail in its contract, with the message that is expected: it
\* takes a nonce and writes nothing
FailsWith(who, at) == Send(who, at, Nothing)
\* one that must fail, with any message
Fails(who, at) == [FailsWith(who, at) EXCEPT !.lenient = TRUE]
\* one that a node must not admit
Refused(at) == [op |-> "refused", at |-> at]
\* a transaction through any healthy node that is not excluded
Over(who, key, excluded) == [op |-> "over", who |-> who, key |-> key, excluded |-> excluded]
\* the same, unless it is seen not to be needed
TopUp(who, key) == [op |-> "topup", who |-> who, key |-> key, excluded |-> {}]
\* a value read from one node and compared with what was written last
Read(at, key) == [op |-> "read", at |-> at, key |-> key]
\* the same, from a healthy node that is not excluded, from any healthy node
ReadOver(key, excluded) == [op |-> "readany", key |-> key, excluded |-> excluded]
ReadAny(key) == ReadOver(key, {})
\* a node turns out to be healthy, and what follows goes through it
Picked(at, excluded) == [op |-> "pick", at |-> at, excluded |-> excluded]
\* the same, from all nodes
ReadAll(key) == [op |-> "readall", key |-> key]
\* a node has to come to what was written last
Until(at, key) == [op |-> "until", at |-> at, key |-> key]
\* all nodes have to agree on what was written last
Agree(key) == [op |-> "agree", key |-> key]
\* the nodes have to reach one height, with some more blocks if they differ
Settle(advance) == [op |-> "settle", advance |-> advance, always |-> FALSE]
\* a height is read from a node and remembered, with some blocks added
Mark(at, more) == [op |-> "mark", at |-> at, more |-> more]
\* a node, or the indexer, has to reach the height that is remembered
Reach(at) == [op |-> "reach", at |-> at]
\* the same, read from the disk of a node that is stopped
Marker(at, more) == [op |-> "marker", at |-> at, more |-> more]
\* the height of a change, with some blocks added
Due(key, more) == [op |-> "due", key |-> key, more |-> more]
\* all nodes have to reach the height that is remembered
Recover == [op |-> "recover"]
IndexedMark == [op |-> "indexedmark"]
\* the indexer has to reach a write, or to show that it is behind
Indexed(key) == [op |-> "indexed", key |-> key]
Backlog == [op |-> "backlog"]
\* the app hashes of blocks that all nodes have
Hashes == [op |-> "hashes"]
\* every node has to be one block further than the first of them is
Agreement == << [Settle(1) EXCEPT !.always = TRUE], Hashes >>
Stop(nodes) == [op |-> "stop", nodes |-> nodes]
\* the nodes are started and have to reach the height that is remembered
Start(nodes) == [op |-> "start", nodes |-> nodes]
\* all nodes are restarted, and have to make a block
RestartAll == [op |-> "restart", more |-> 1]
Restarted == [op |-> "restart", more |-> 0]
Partition(nodes) == [op |-> "partition", nodes |-> nodes]
Heal == [op |-> "heal"]
\* no block may be made
Halted == [op |-> "halted"]
Take(what) == [op |-> "take", what |-> what]
PutBack(what) == [op |-> "putback", what |-> what]
\* what a node answers when asked for the validators, and what all have to answer
Validators(at, count) == [op |-> "validators", at |-> at, count |-> count]
Counted(count) == [op |-> "counted", count |-> count]
\* a transaction that gives the validators other powers
Elect(who, at, key, power) == [op |-> "elect", who |-> who, at |-> at, key |-> key, power |-> power]

\* A proposal is made, each voter votes unless one of those that are asked has it
\* accepted, and any of the readers is awaited.
Same == << >>    \* the powers stay as they are
ApproveAsking(asked, who, at, voters, key, power) ==
    LET readers == {at} \cup {voters[i].at : i \in DOMAIN voters}
    IN  << [op |-> "propose", who |-> who, at |-> at, votes |-> Len(voters), key |-> key, power |-> power] >>
        \o [i \in DOMAIN voters |->
               [op |-> "vote", who |-> voters[i].who, at |-> voters[i].at,
                asked |-> IF asked = {} THEN readers ELSE asked, readers |-> readers]]
        \o << [op |-> "approved", readers |-> readers] >>
Approve(who, at, voters, key, power) == ApproveAsking({}, who, at, voters, key, power)
Voter(who, at) == [who |-> who, at |-> at]

\* A phase: the resources that its finally clauses put back, the nodes that they
\* start again, and the powers of the validators when it begins.
Phase(steps) ==
    [steps |-> steps, finally |-> {}, revived |-> {}, powers |-> [n \in Node |-> 10]]
================================================================================
