------------------------------ MODULE ScriptedNet ------------------------------
(***************************************************************************)
(* A phase of scripts/localnet-e2e.py, or a drill of                       *)
(* scripts/localnet-protocol-safety.py, as it drives a localnet: a         *)
(* sequence of steps that send transactions, read state, wait for nodes,   *)
(* stop and start them.  A step may be given up at any time, which ends    *)
(* the phase through what its finally clauses release.  The nodes execute  *)
(* the blocks one after another and may lag behind one another.            *)
(***************************************************************************)
EXTENDS Integers, FiniteSets, SequencesExt, FiniteSetsExt, Steps

CONSTANTS
    Script,    \* the phases by their names, from which one is run
    Lag        \* bound, by phase, on how far a node that runs is behind the last block;
               \* 0 if all nodes that run execute a block at once

ASSUME LagAssumption == Lag \in [DOMAIN Script -> Nat]

VARIABLES
    phase,    \* the phase that is run
    pc,       \* the number of its step
    status,   \* "running", "ok", "raised" if a step gave up, "alarm" if a check failed
    begun,    \* whether the first half of a step in two halves is over
    sent,     \* the transactions of the step that have their receipt
    hollow,   \* whether a transaction that had to fail was not even admitted
    due,      \* how many blocks are still to be made up to the height that is remembered
    taken,    \* what is stopped or changed beside the nodes and has to be put back
    up,       \* the nodes that run
    cut,      \* the nodes on the far side of a partition
    lag,      \* how many blocks each node still has to execute
    unindexed,\* how many the indexer of node Bds has not got
    age,      \* by wallet and by key: the blocks since the last transaction, the last write
    ballot,   \* the last proposal: the votes that it still needs, and its effect
    sets      \* the validators' powers, each with the blocks until it decides on one

runVars == <<phase, pc, status, begun, sent, hollow, due, taken>>
chainVars == <<lag, unindexed, age, ballot, sets>>
vars == <<runVars, chainVars, up, cut>>

--------------------------------------------------------------------------------

script == Script[phase]

\* the wallets and the keys of a script, and the key of a ballot that is decided
Approved == "approved"
Mentioned(st) ==
    (IF "who" \in DOMAIN st THEN {st.who} ELSE {})
    \cup (IF "key" \in DOMAIN st THEN {st.key} ELSE {})
    \cup (IF "txs" \in DOMAIN st THEN UNION {{t.who, t.key} : t \in st.txs} ELSE {})
Keys(s) == (UNION {Mentioned(s[i]) : i \in DOMAIN s}) \cup {Approved}

--------------------------------------------------------------------------------
(* The nodes.                                                                *)

Connected == up \cap (Node \ cut)

\* what a node, the indexer, knows of the chain
Knows(n, key) == lag[n] <= age[key]
At(n) == lag[n] + due <= 0

\* the nodes that have executed most
Ahead(nodes) == {n \in nodes : \A o \in nodes : lag[n] <= lag[o]}

\* the powers that decide on the next block, of the last one and of a node
InForce(behind) == sets[Max({i \in DOMAIN sets : sets[i].in + behind <= 1})].power
PowersOf(n) == InForce(lag[n])
Power(powers, nodes) == MapThenSumSet(LAMBDA n : powers[n], nodes)

\* more than two thirds of the power are needed for a block
Quorum ==
    LET powers == InForce(0)
    IN 3 * Power(powers, Connected) > 2 * Power(powers, Node)

\* no node that runs is too far behind for another block; some execute it at once
KeepUp(at) == Lag[phase] = 0 \/ \A n \in Connected \ {at} : lag[n] < Lag[phase]
AtOnce(at) == IF Lag[phase] = 0 THEN Connected ELSE {at}

\* The indexer matters only to a script that waits for it; it keeps up while its
\* database runs.
Waits(s) == \E i \in DOMAIN s : s[i].op \in {"indexed", "indexedmark", "backlog"}
IndexedPhases == {p \in DOMAIN Script : Waits(Script[p].steps)}
IndexerKeepsUp == phase \notin IndexedPhases \/ "postgres" \in taken \/ unindexed < Max({1, Lag[phase]}) + lag[Bds]

\* Once every node has executed a block it does not matter how old it is.
Horizon == 1 + Max({lag'[n] : n \in Node} \cup {unindexed'})
Older(blocks, horizon) == IF blocks < horizon THEN blocks ELSE horizon

\* A block with a transaction that writes some keys, the nonce of its sender one of
\* them, or with none.
Chain(at, keys) ==
    /\ Quorum /\ KeepUp(at) /\ IndexerKeepsUp
    /\ lag' = [n \in Node |-> IF n \in AtOnce(at) THEN 0 ELSE lag[n] + 1]
    /\ unindexed' = IF phase \in IndexedPhases THEN unindexed + 1 ELSE 0
    /\ \E horizon \in {Horizon} :
          /\ age' = [k \in DOMAIN age |-> IF k \in keys \ {Nothing} THEN 0 ELSE Older(age[k] + 1, horizon)]
          /\ due' = Max({due - 1, -horizon})

\* the powers that decide on later blocks, those before them once no node needs them
Sooner(s) ==
    LET on == [i \in DOMAIN s |-> [s[i] EXCEPT !.in = Max({@ - 1, -Horizon})]]
        first == Max({i \in DOMAIN on : i = 1 \/ on[i].in = -Horizon})
    IN SubSeq(on, first, Len(on))

Block(at, keys) == Chain(at, keys) /\ sets' = Sooner(sets) /\ UNCHANGED ballot

CatchUp(n) ==
    /\ n \in Connected /\ lag[n] > 0
    /\ lag' = [lag EXCEPT ![n] = @ - 1]
    /\ UNCHANGED <<runVars, unindexed, ballot, sets, up, cut>>
    /\ \E horizon \in {Horizon} : age' = [k \in DOMAIN age |-> Older(age[k], horizon)]

--------------------------------------------------------------------------------
(* The run of a script.                                                      *)

step == script.steps[pc]
Doing(op) == status = "running" /\ step.op = op

\* Operators named ...Faulty are the operator they precede with one plausible
\* mistake; no specification uses them.  They show that a property notices it.

\* the last step is not noticed
NextStepFaulty ==
    /\ IF pc > Len(script.steps) THEN status' = "ok" /\ pc' = pc
                                 ELSE status' = status /\ pc' = pc + 1
    /\ begun' = FALSE /\ sent' = {}
    /\ UNCHANGED phase

NextStep ==
    /\ IF pc = Len(script.steps) THEN status' = "ok" /\ pc' = pc
                                 ELSE status' = status /\ pc' = pc + 1
    /\ begun' = FALSE /\ sent' = {}
    /\ UNCHANGED phase

Advance == NextStep /\ UNCHANGED hollow

\* what was taken is not put back
LeaveFaulty(how) ==
    /\ status' = how
    /\ up' = up \cup script.revived
    /\ UNCHANGED <<phase, pc, begun, sent, hollow, due, taken, chainVars, cut>>

\* What the finally clauses do: put back what was taken, start what was stopped.
Leave(how) ==
    /\ status' = how
    /\ taken' = taken \ script.finally
    /\ up' = up \cup script.revived
    /\ cut' = IF "partition" \in script.finally THEN {} ELSE cut
    /\ UNCHANGED <<phase, pc, begun, sent, hollow, due, chainVars>>

\* a request that fails, or a wait that runs into its timeout
GiveUp == status = "running" /\ Leave("raised")

Continue == Advance /\ UNCHANGED <<due, taken, chainVars, up, cut>>
Check(holds) == IF holds THEN Continue ELSE Leave("alarm")
Await(holds) == holds /\ Continue

\* ensure_failed_submission: not admitted is as good as failed
PassUntested ==
    /\ hollow' = TRUE
    /\ NextStep
    /\ UNCHANGED <<due, taken, chainVars, up, cut>>

\* the receipt comes from whichever node executes the block first
SendTxFaulty ==
    /\ Doing("send")
    /\ \E t \in step.txs \ sent, n \in Connected :
          /\ t.at \in Connected
          /\ IF Knows(t.at, t.who)
             THEN /\ Block(n, {t.who, t.key})
                  /\ IF step.txs = sent \cup {t} THEN Advance
                     ELSE sent' = sent \cup {t} /\ UNCHANGED <<phase, pc, status, begun, hollow>>
                  /\ UNCHANGED <<taken, up, cut>>
             ELSE IF step.lenient THEN PassUntested ELSE Leave("alarm")

\* A node refuses a transaction whose nonce it does not expect.
SendTx ==
    /\ Doing("send")
    /\ \E t \in step.txs \ sent :
          /\ t.at \in Connected
          /\ IF Knows(t.at, t.who)
             THEN /\ Block(t.at, {t.who, t.key})
                  /\ IF step.txs = sent \cup {t} THEN Advance
                     ELSE sent' = sent \cup {t} /\ UNCHANGED <<phase, pc, status, begun, hollow>>
                  /\ UNCHANGED <<taken, up, cut>>
             ELSE IF step.lenient THEN PassUntested ELSE Leave("alarm")

Refuse == Doing("refused") /\ Await(step.at \in Connected)

\* healthy_submission_node_index: the nodes with the latest block, of those that
\* answer, are not excluded and do not serve the indexer
Healthy(excluded) ==
    LET allowed == IF Connected \ excluded = {} THEN Connected ELSE Connected \ excluded
        asked == IF allowed \ {Bds} = {} THEN allowed ELSE allowed \ {Bds}
    IN  Ahead(asked)

\* The nonce comes from one healthy node, the receipt from another one perhaps.
SendOver ==
    /\ Doing("over") \/ Doing("topup")
    /\ \E n, r \in Node :
          /\ n \in Healthy(step.excluded)
          /\ r \in Connected \ (step.excluded \cup {Bds})
          /\ IF ~Knows(n, step.who) THEN Leave("alarm")
             ELSE /\ Block(r, {step.who, step.key})
                  /\ Advance
                  /\ UNCHANGED <<taken, up, cut>>

SkipTopUp == Doing("topup") /\ Continue

ReadOne == Doing("read") /\ step.at \in Connected /\ Check(Knows(step.at, step.key))
ReadAllNodes == Doing("readall") /\ Connected = Node /\ Check(\A n \in Node : Knows(n, step.key))
ReadAnyNode == Doing("readany") /\ \E n \in Healthy(step.excluded) : Check(Knows(n, step.key))

PickNode == Doing("pick") /\ Await(step.at \in Healthy(step.excluded))

\* wait_for_uniform_state: every node answers the value that is expected
AgreeAll == Doing("agree") /\ Await(Connected = Node /\ \A n \in Node : Knows(n, step.key))

AwaitOne == Doing("until") /\ Await(step.at \in Connected /\ Knows(step.at, step.key))

CompareHashes == Doing("hashes") /\ Await(Connected = Node)

\* stabilize_nodes: the heights of the nodes that answer, then the wait of all
Snapshot ==
    /\ Doing("settle") /\ ~begun
    /\ Connected # {}
    /\ LET top == Min({lag[n] : n \in Connected})
           differ == \E n \in Connected : lag[n] # top
       IN due' = (IF step.always \/ differ THEN step.advance ELSE 0) - top
    /\ begun' = TRUE
    /\ UNCHANGED <<phase, pc, status, sent, hollow, taken, chainVars, up, cut>>

Settled == Doing("settle") /\ begun /\ Await(Connected = Node /\ \A n \in Node : At(n))

MarkHeight ==
    /\ \/ Doing("mark") /\ step.at \in Connected /\ due' = step.more - lag[step.at]
       \/ Doing("marker") /\ due' = step.more - lag[step.at]
       \/ Doing("due") /\ due' = step.more - age[step.key]
    /\ Advance
    /\ UNCHANGED <<taken, chainVars, up, cut>>

ReachMark ==
    \/ Doing("reach") /\ Await(step.at \in Connected /\ At(step.at))
    \/ Doing("recover") /\ Await(Connected = Node /\ \A n \in Node : At(n))

StopNodes ==
    /\ Doing("stop")
    /\ up' = up \ step.nodes
    /\ Advance
    /\ UNCHANGED <<due, taken, chainVars, cut>>

StartNodes ==
    \/ /\ Doing("start") /\ ~begun
       /\ up' = up \cup step.nodes
       /\ begun' = TRUE
       /\ UNCHANGED <<phase, pc, status, sent, hollow, due, taken, chainVars, cut>>
    \/ /\ Doing("start") /\ begun
       /\ Await(\A n \in step.nodes : n \in Connected /\ At(n))

\* restart_localnet_and_wait_ready: down and up, then one more block on every node perhaps
Restart ==
    \/ /\ Doing("restart") /\ ~begun
       /\ up' = Node
       /\ due' = step.more - Min({lag[n] : n \in Node})
       /\ begun' = TRUE
       /\ UNCHANGED <<phase, pc, status, sent, hollow, taken, chainVars, cut>>
    \/ /\ Doing("restart") /\ begun
       /\ Await(\A n \in Node : n \in Connected /\ At(n))

CutOff ==
    /\ Doing("partition")
    /\ cut' = step.nodes /\ taken' = taken \cup {"partition"}
    /\ Advance
    /\ UNCHANGED <<due, chainVars, up>>

Rejoin ==
    /\ Doing("heal")
    /\ cut' = {} /\ taken' = taken \ {"partition"}
    /\ Advance
    /\ UNCHANGED <<due, chainVars, up>>

NoProgress == Doing("halted") /\ Check(~Quorum)

TakeAway ==
    /\ Doing("take")
    /\ taken' = taken \cup {step.what}
    /\ Advance
    /\ UNCHANGED <<due, chainVars, up, cut>>

GiveBack ==
    /\ Doing("putback")
    /\ taken' = taken \ {step.what}
    /\ Advance
    /\ UNCHANGED <<due, chainVars, up, cut>>

\* The indexer goes on while its database does.
Index ==
    /\ status = "running" /\ "postgres" \notin taken /\ unindexed > lag[Bds]
    /\ unindexed' = unindexed - 1
    /\ UNCHANGED <<runVars, lag, age, ballot, sets, up, cut>>

AwaitIndexed ==
    \/ Doing("indexed") /\ Await(unindexed <= age[step.key])
    \/ Doing("indexedmark") /\ Await(unindexed + due <= 0)
    \/ Doing("backlog") /\ Await(unindexed > 0)

Active(n) == Cardinality({v \in Node : PowersOf(n)[v] > 0})
CountValidators ==
    \/ Doing("validators") /\ step.at \in Connected /\ Check(Active(step.at) = step.count)
    \/ Doing("counted") /\ Await(Connected = Node /\ \A n \in Node : Active(n) = step.count)

--------------------------------------------------------------------------------
(* Votes.                                                                    *)

\* How many votes a proposal needs is decided by the contract.
ProposeVote ==
    /\ Doing("propose") /\ step.at \in Connected
    /\ IF ~Knows(step.at, step.who) THEN Leave("alarm")
       ELSE /\ Chain(step.at, {step.who}) /\ sets' = Sooner(sets)
            /\ \E k \in 1..step.votes :
                  ballot' = [needs |-> k, key |-> step.key, power |-> step.power]
            /\ Advance
            /\ UNCHANGED <<taken, up, cut>>

\* the status of the first reader only
SeenApprovedFaulty(readers) == ballot.needs = 0 /\ Knows(Min(readers), Approved)

\* read_freshest_status: one of those that answer has it
SeenApproved(readers) == ballot.needs = 0 /\ \E n \in readers \cap Connected : Knows(n, Approved)

\* New powers decide from the second block on.
Give(powers) ==
    sets' = IF powers = Same THEN Sooner(sets) ELSE Append(Sooner(sets), [in |-> 2, power |-> powers])

ElectValidators ==
    /\ Doing("elect") /\ step.at \in Connected
    /\ IF ~Knows(step.at, step.who) THEN Leave("alarm")
       ELSE /\ Chain(step.at, {step.who, step.key}) /\ Give(step.power)
            /\ Advance
            /\ UNCHANGED <<ballot, taken, up, cut>>

\* The last vote that is needed takes effect.
Decide == Chain(step.at, {step.who, Approved, ballot.key}) /\ Give(ballot.power)

\* A vote is sent unless the proposal is seen approved: by any reader after the vote
\* before, by those that are asked before this one.
CastVote ==
    /\ Doing("vote") /\ step.at \in Connected
    /\ \/ SeenApproved(step.readers) /\ Continue
       \/ /\ ~SeenApproved(step.asked)
          /\ IF ~Knows(step.at, step.who) \/ ballot.needs = 0 THEN Leave("alarm")
             ELSE /\ IF ballot.needs = 1 THEN Decide
                     ELSE Chain(step.at, {step.who}) /\ sets' = Sooner(sets)
                  /\ ballot' = [ballot EXCEPT !.needs = @ - 1]
                  /\ Advance
                  /\ UNCHANGED <<taken, up, cut>>

AwaitApproved == Doing("approved") /\ Await(SeenApproved(step.readers))

--------------------------------------------------------------------------------

\* A block without a transaction matters only to a step that waits for its height or
\* for the powers that it brings.
EmptyBlock ==
    /\ status = "running"
    /\ \/ due > 0 /\ (begun \/ step.op \in {"reach", "recover", "indexedmark"})
       \/ step.op = "counted" /\ Last(sets).in > 1
    /\ \E n \in Connected : Block(n, {})
    /\ UNCHANGED <<phase, pc, status, begun, sent, hollow, taken, up, cut>>

Init ==
    /\ phase \in DOMAIN Script
    /\ pc = 1 /\ status = "running" /\ begun = FALSE /\ sent = {} /\ hollow = FALSE
    /\ due = 0 /\ taken = {}
    /\ up = Node /\ cut = {}
    /\ lag = [n \in Node |-> 0] /\ unindexed = 0
    /\ age = [k \in Keys(script.steps) |-> 1]
    /\ ballot = [needs |-> 0, key |-> Nothing, power |-> Same]
    /\ sets = << [in |-> -1, power |-> script.powers] >>

RunStep ==
    \/ SendTx \/ Refuse \/ SendOver \/ SkipTopUp \/ ReadOne \/ ReadAllNodes \/ ReadAnyNode \/ PickNode
    \/ AwaitOne \/ AgreeAll \/ CompareHashes
    \/ Snapshot \/ Settled \/ MarkHeight \/ ReachMark \/ StopNodes \/ StartNodes \/ Restart
    \/ CutOff \/ Rejoin \/ NoProgress \/ TakeAway \/ GiveBack \/ AwaitIndexed \/ CountValidators
    \/ ElectValidators \/ ProposeVote \/ CastVote \/ AwaitApproved

NetStep == EmptyBlock \/ Index \/ \E n \in Node : CatchUp(n)

Next == RunStep \/ GiveUp \/ NetStep \/ (status # "running" /\ UNCHANGED vars)

\* While something can happen something does: the nodes make no more blocks by
\* themselves than a step waits for, so neither the phase nor a node is left behind.
Spec == Init /\ [][Next]_vars /\ WF_vars(NetStep \/ RunStep)

--------------------------------------------------------------------------------
(* Properties.                                                               *)

TypeOK ==
    /\ phase \in DOMAIN Script /\ pc \in DOMAIN script.steps
    /\ status \in {"running", "ok", "raised", "alarm"} /\ begun \in BOOLEAN
    /\ hollow \in BOOLEAN /\ due \in Int /\ up \subseteq Node /\ cut \subseteq Node
    /\ lag \in [Node -> Nat] /\ unindexed \in Nat
    /\ \A k \in DOMAIN age : age[k] \in Nat
    /\ \A n \in Connected : Len(sets) > 0 /\ sets[1].in + lag[n] <= 1

\* No check of a phase fails, and no node refuses a transaction of it, because a
\* node has not yet executed what another node has: the phases wait in between.
\* A phase that reads the same state or the same nonce through two nodes without
\* such a wait fails on a network that is right.
NoFalseAlarm == status # "alarm"

\* Every phase comes to its end: none waits for a block that too few nodes are
\* left to decide on, nor for a node that it has stopped itself.
ScriptEnds == <>(status # "running")

\* A check that a contract refuses something is not passed by a node that refused
\* the transaction before the contract was called: ensure_failed_submission takes a
\* nonce that was read too early for the failure it waits for.
NoHollowPass == ~hollow

\* A phase that has passed leaves all nodes running for the next one, and however
\* a phase ends, what it had stopped or changed beside the nodes is put back.
LeftAsFound ==
    /\ status = "ok" => Connected = Node
    /\ status # "running" => taken = {}
================================================================================
