-------------------------------- MODULE Workload --------------------------------
(***************************************************************************)
(* scripts/localnet-workload.py: one run of a scenario against a localnet. *)
(* The runner prepares the transactions of a batch, sends each of them to  *)
(* a healthy node, over to another one when the request fails, waits for   *)
(* their receipts, sends again what no node knows of, and at last compares *)
(* the state of several nodes.  Each await lets the nodes go on.           *)
(***************************************************************************)
EXTENDS Localnet, SequencesExt, FiniteSetsExt

CONSTANTS
    Scenario,     \* the scenarios the run is chosen from
    Resolution,   \* the values of --receipt-resolution: "serial", "concurrent"
    ReceiptWorkers, \* --receipt-workers
    Shuffle       \* the order that the seed gives to the three transactions of the streams

ASSUME ScenarioAssumption ==
    Scenario \subseteq {"counter_basic", "dex_mixed", "parallel_probe", "transfer_fanout", "contract_heavy"}
ASSUME ShuffleAssumption == Shuffle \in [1..3 -> 1..3] /\ IsInjective(Shuffle)
ASSUME WorkersAssumption == ReceiptWorkers \in Nat \ {0}

Sender == 1..2
None == -1

VARIABLES
    args,      \* the scenario, --receipt-resolution, and the script
    phase,     \* where the run is
    batch,     \* the batch of the script that it is at
    nextNonce, \* WorkloadContext._next_nonce
    affinity,  \* WorkloadContext._submission_affinity
    rec,       \* the BroadcastRecord of each plan, with the locals of its coroutine
    samples    \* the nodes whose state is read

runVars == <<args, phase, batch, nextNonce, affinity, rec, samples>>
vars == <<netVars, runVars>>

--------------------------------------------------------------------------------
(* The scenarios: batches of transactions, each batch resolved before the    *)
(* next.  A transaction writes, or records an observation of what was        *)
(* written, or must fail in its contract.                                    *)

Plan(id, sender, kind, rpc) == [id |-> id, sender |-> sender, kind |-> kind, rpc |-> rpc]

\* increments by all workers in turn
CounterBasic ==
    {<< <<Plan(1, 1, "write", 0), Plan(2, 2, "write", 1), Plan(3, 1, "write", 0)>> >>}

\* liquidity; rounds of a swap, a swap past its deadline and an unapproved one
DexSetup == <<Plan(1, 1, "write", 0)>>
DexRound == <<Plan(2, 1, "write", 0), Plan(3, 2, "fail", 1)>>
DexFinal == <<Plan(4, 1, "write", 1)>>
DexMixed == {<<DexSetup, DexRound, DexFinal>>}

\* a batch of one sender; a batch that writes and observes
SameSender == <<Plan(1, 1, "write", 0), Plan(2, 1, "write", 0)>>
ReadAfterWrite == <<Plan(3, 1, "write", 0), Plan(4, 2, "observe", 0)>>
PrefixScan == <<Plan(1, 1, "write", 0), Plan(2, 2, "observe", 0), Plan(3, 1, "write", 0)>>
ParallelProbe == {<<SameSender, ReadAfterWrite>>, <<PrefixScan>>}

\* the streams of all wallets, in the order that the seed gives
TransferFanout ==
    LET plans == <<Plan(1, 1, "write", 0), Plan(2, 1, "write", 0), Plan(3, 2, "write", 1)>>
    IN  {<< [i \in 1..3 |-> plans[Shuffle[i]]] >>}

\* the contract that the streams call is deployed first
ContractHeavy ==
    {<< <<Plan(1, 2, "write", 0)>>, <<Plan(3, 1, "write", 0), Plan(2, 1, "write", 0)>> >>}

Scripts(scenario) ==
    CASE scenario = "counter_basic"   -> CounterBasic
      [] scenario = "dex_mixed"       -> DexMixed
      [] scenario = "parallel_probe"  -> ParallelProbe
      [] scenario = "transfer_fanout" -> TransferFanout
      [] scenario = "contract_heavy"  -> ContractHeavy

\* whether the nonces of a batch are reserved before the broadcast
StreamBatch(b) == \/ args.scenario = "transfer_fanout"
                  \/ args.scenario = "contract_heavy" /\ b = 2
Streams == StreamBatch(batch)
Async == args.scenario = "counter_basic"   \* CheckTx is not waited for
Plans == FlattenSeq(args.script)
IdsOf(b) == {args.script[b][i].id : i \in DOMAIN args.script[b]}
Id == UNION {IdsOf(b) : b \in DOMAIN args.script}
P(p) == Plans[CHOOSE i \in DOMAIN Plans : Plans[i].id = p]
Batch == IdsOf(batch)
Position(p) == CHOOSE i \in DOMAIN Plans : Plans[i].id = p

Tx(p) == [sender |-> P(p).sender, nonce |-> rec[p].nonce, id |-> p]
Final == {"ok", "failed"}

NewRecord == [pc |-> "todo", nonce |-> None, attempt |-> 0, tried |-> {}, place |-> 0]

\* A transaction of an earlier run with the same wallets; not every node is there yet.
Earlier == [sender |-> 1, nonce |-> 0, id |-> 0]

Init ==
    /\ chain = <<Earlier>>
    /\ view \in [Node -> 0..1] /\ \E n \in Node : view[n] = 1
    /\ pool = [n \in Node |-> {}]
    /\ faults = 0
    /\ \E scenario \in Scenario, resolution \in Resolution : \E script \in Scripts(scenario) :
          args = [scenario |-> scenario, resolution |-> resolution, script |-> script]
    /\ batch = 1
    /\ phase = IF Streams THEN "reserve" ELSE "broadcast"
    /\ nextNonce = [s \in Sender |-> None]
    /\ affinity = [s \in Sender |-> None]
    /\ rec = [p \in Id |-> NewRecord]
    /\ samples = {}

--------------------------------------------------------------------------------
(* Nodes and nonces.                                                         *)

\* healthy_submission_indices: of the nodes that answer, those with the latest block
Healthy(rpc, R) == IF R = {} THEN {rpc % N} ELSE AtTop(R)

\* healthy_submission_index: the preferred one, or else the first
HealthyIndex(rpc, R) ==
    IF rpc % N \in Healthy(rpc, R) THEN rpc % N ELSE Min(Healthy(rpc, R))

\* Operators named ...Faulty are the operator they precede with one plausible
\* mistake; no specification uses them.  They show that a property notices it.

\* the preferred node is asked, healthy or not
FirstNonceFaulty(s, rpc, R) == IF nextNonce[s] # None THEN nextNonce[s] ELSE NextNonce(rpc % N, s)

\* reserve_nonces: read from all healthy nodes once, and counted from then on
FirstNonce(s, rpc, R) ==
    IF nextNonce[s] # None THEN nextNonce[s]
    ELSE Max({NextNonce(n, s) : n \in Healthy(rpc, R)})

Fail == phase' = "failed" /\ UNCHANGED <<args, batch, nextNonce, affinity, rec, samples>>

\* the nonces of a stream, wallet after wallet
ReserveStream(s) ==
    LET todo == {p \in Batch : rec[p].pc = "todo"}
        mine == {p \in todo : P(p).sender = s}
        Rank(p) == Cardinality({q \in mine : q < p})
    IN  /\ phase = "reserve"
        /\ mine # {} /\ \A p \in todo : P(p).sender >= s
        /\ \E R \in (SUBSET Node) \ {{}} :
              /\ Faulty(Silent(R))
              /\ LET first == FirstNonce(s, s - 1, R)
                 IN /\ rec' = [p \in Id |-> IF p \in mine
                                            THEN [rec[p] EXCEPT !.nonce = first + Rank(p), !.pc = "send"]
                                            ELSE rec[p]]
                    /\ nextNonce' = [nextNonce EXCEPT ![s] = first + Cardinality(mine)]
        /\ phase' = IF mine = todo THEN "broadcast" ELSE "reserve"
        /\ UNCHANGED <<chain, view, pool, args, batch, affinity, samples>>

\* in a stream the lane of a sender goes by nonces, and lanes are concurrent;
\* elsewhere everything is sent in turn
LaneBefore(q, p) == IF Streams THEN P(q).sender = P(p).sender /\ rec[q].nonce < rec[p].nonce
                    ELSE Position(q) < Position(p)

SendTurn(p) ==
    /\ phase = "broadcast" /\ p \in Batch
    /\ \A q \in Batch : LaneBefore(q, p) => rec[q].pc \in {"sent", "rejected"}

\* broadcast_tx: the nonce and the signature of a transaction that is not of a stream
Prepare(p) ==
    /\ SendTurn(p) /\ rec[p].pc = "todo"
    /\ \E R \in (SUBSET Node) \ {{}} :
          /\ Faulty(Silent(R))
          /\ LET nonce == FirstNonce(P(p).sender, P(p).rpc, R)
             IN /\ rec' = [rec EXCEPT ![p].pc = "send", ![p].nonce = nonce]
                /\ nextNonce' = [nextNonce EXCEPT ![P(p).sender] = nonce + 1]
    /\ UNCHANGED <<chain, view, pool, args, phase, batch, affinity, samples>>

\* the nonces cannot be read
ReadFails(p) ==
    /\ SendTurn(p) /\ rec[p].pc = "todo" /\ nextNonce[P(p).sender] = None
    /\ Faulty(1) /\ Fail
    /\ UNCHANGED <<chain, view, pool>>

\* the node of an attempt: a stream stays with the node that took its last transaction
SubmissionIndex(p, R) ==
    IF Streams /\ rec[p].attempt = 0 /\ affinity[P(p).sender] # None THEN affinity[P(p).sender]
    ELSE HealthyIndex(P(p).rpc + rec[p].attempt, R)

NextAttempt(p, node) ==
    [rec EXCEPT ![p].attempt = @ + 1, ![p].tried = @ \cup {node}]

Answered(p, node) ==
    \E verdict \in CheckTx(node, Tx(p)) :
        /\ Admit(node, Tx(p), verdict)
        /\ rec' = [rec EXCEPT ![p].pc = IF verdict = "rejected" /\ ~Async THEN verdict ELSE "sent",
                              ![p].attempt = 0, ![p].tried = {}]

\* a failed attempt is prepared anew
UnansweredFaulty(p, node) ==
    /\ Failed(node, Tx(p))
    /\ rec' = [rec EXCEPT ![p].attempt = @ + 1, ![p].tried = @ \cup {node}, ![p].nonce = @ + 1]
\* the transaction of an attempt that follows a failed one is the same
Unanswered(p, node) == Failed(node, Tx(p)) /\ rec' = NextAttempt(p, node)

\* broadcast_tx: one attempt
Send(p) ==
    /\ SendTurn(p) /\ rec[p].pc = "send" /\ rec[p].attempt < N
    /\ \E R \in SUBSET Node :
          LET node == SubmissionIndex(p, R)
              keep == IF Streams THEN [affinity EXCEPT ![P(p).sender] = node] ELSE affinity
          IN  \/ /\ node \in rec[p].tried
                 /\ Faulty(Silent(R))
                 /\ rec' = [rec EXCEPT ![p].attempt = @ + 1]
                 /\ UNCHANGED <<pool, affinity>>
              \/ /\ node \notin rec[p].tried
                 /\ Faulty(Silent(R)) /\ Answered(p, node)
                 /\ affinity' = keep
              \/ /\ node \notin rec[p].tried
                 /\ Faulty(Silent(R) + 1) /\ Unanswered(p, node)
                 /\ affinity' = IF rec[p].attempt = 0 THEN keep ELSE affinity
    /\ UNCHANGED <<chain, view, args, phase, batch, nextNonce, samples>>

\* no node was left to try
SendFails(p) ==
    /\ SendTurn(p) /\ rec[p].pc = "send" /\ rec[p].attempt = N
    /\ Fail
    /\ UNCHANGED netVars

\* require_all_admitted, for a stream
BatchSent ==
    /\ phase = "broadcast" /\ \A p \in Batch : rec[p].pc \in {"sent", "rejected"}
    /\ phase' = IF Streams /\ \E p \in Batch : rec[p].pc = "rejected" THEN "failed" ELSE "resolve"
    /\ UNCHANGED <<netVars, args, batch, nextNonce, affinity, rec, samples>>

--------------------------------------------------------------------------------
(* Receipts.                                                                 *)

ResolveBeforeFaulty(q, p) ==
    args.resolution = "serial" /\ Position(q) < Position(p)
\* resolve_records: one after the other, or in a lane for each sender by nonces
ResolveBefore(q, p) ==
    IF args.resolution = "serial" THEN Position(q) < Position(p)
    ELSE P(q).sender = P(p).sender /\ rec[q].nonce < rec[p].nonce

\* a receipt worker is with a record until it is done
Resolving(q) == rec[q].pc = "again" \/ (rec[q].pc = "sent" /\ rec[q].attempt > 0)

ResolveTurn(p) ==
    /\ phase = "resolve" /\ p \in Batch
    /\ \A q \in Batch : ResolveBefore(q, p) => rec[q].pc = "done"
    /\ Cardinality({q \in Batch \ {p} : Resolving(q)}) < ReceiptWorkers

\* _assert_record; only a failure in the contract has the message that is expected
Expected(p, success, message) ==
    IF P(p).kind = "fail" THEN ~success /\ message = "contract" ELSE success

Conclude(p, success, message, place) ==
    IF Expected(p, success, message)
    THEN rec' = [rec EXCEPT ![p] = [pc |-> "done", nonce |-> rec[p].nonce, attempt |-> 0,
                                    tried |-> {}, place |-> place]]
         /\ UNCHANGED phase
    ELSE phase' = "failed" /\ UNCHANGED rec

\* _resolve_record of a transaction that was not admitted
Rejected(p) ==
    /\ ResolveTurn(p) /\ rec[p].pc = "rejected"
    /\ Conclude(p, FALSE, "CheckTx", 0)
    /\ UNCHANGED <<netVars, args, batch, nextNonce, affinity, samples>>

\* wait_for_tx_receipt: a node that answers has executed it
Found(p) ==
    /\ ResolveTurn(p) /\ rec[p].pc = "sent"
    /\ \E n \in Node : \E i \in 1..view[n] :
          /\ chain[i] = Tx(p)
          /\ Conclude(p, P(p).kind # "fail", "contract", i)
    /\ UNCHANGED <<netVars, args, batch, nextNonce, affinity, samples>>

\* no node that answers had it in time, nor in its recent blocks
TimedOut(p) ==
    /\ ResolveTurn(p) /\ rec[p].pc = "sent"
    /\ \E R \in SUBSET Node :
          Faulty(Silent(R)) /\ \A n \in R : Tx(p) \notin Executed(n)
    /\ rec' = [rec EXCEPT ![p].pc = "again"]
    /\ UNCHANGED <<chain, view, pool, args, phase, batch, nextNonce, affinity, samples>>

\* a node that knows it is as good as one that takes it
TakenAgain(p, node) ==
    \E verdict \in CheckTx(node, Tx(p)) :
        /\ Admit(node, Tx(p), verdict)
        /\ rec' = [NextAttempt(p, node) EXCEPT ![p].pc = IF verdict = "rejected" THEN "again" ELSE "sent"]
NotTakenAgain(p, node) == Failed(node, Tx(p)) /\ rec' = NextAttempt(p, node)

RebroadcastIndex(p, R) == HealthyIndex(rec[p].attempt, R)

\* rebroadcast_and_wait_for_receipt: one offset
Rebroadcast(p) ==
    /\ ResolveTurn(p) /\ rec[p].pc = "again" /\ rec[p].attempt < N
    /\ \E R \in SUBSET Node :
          LET node == RebroadcastIndex(p, R)
          IN  \/ /\ node \in rec[p].tried
                 /\ Faulty(Silent(R))
                 /\ rec' = [rec EXCEPT ![p].attempt = @ + 1]
                 /\ UNCHANGED pool
              \/ /\ node \notin rec[p].tried
                 /\ \/ Faulty(Silent(R)) /\ TakenAgain(p, node)
                    \/ Faulty(Silent(R) + 1) /\ NotTakenAgain(p, node)
    /\ UNCHANGED <<chain, view, args, phase, batch, nextNonce, affinity, samples>>

NotFound(p) ==
    /\ ResolveTurn(p) /\ rec[p].pc = "again" /\ rec[p].attempt = N
    /\ Fail
    /\ UNCHANGED netVars

BatchDone ==
    /\ phase = "resolve" /\ \A p \in Batch : rec[p].pc = "done"
    /\ IF batch < Len(args.script)
       THEN batch' = batch + 1 /\ phase' = IF StreamBatch(batch + 1) THEN "sees" ELSE "broadcast"
       ELSE batch' = batch /\ phase' = CASE Streams -> "poll"
                                         [] args.scenario = "parallel_probe" -> "observe"
                                         [] OTHER -> "sample"
    /\ UNCHANGED <<netVars, args, nextNonce, affinity, rec, samples>>

--------------------------------------------------------------------------------
(* The state of the nodes.                                                   *)

\* what a node's state says of the run
State(n) == {t \in Executed(n) : t.id \in Id}
Complete(n) == {t.id : t \in State(n)} = Id

\* healthy_state_sample_nodes: too few at the latest block, and all are taken
SampleNodes(R) ==
    IF R # {} /\ Cardinality(AtTop(R)) >= Min({2, N}) THEN AtTop(R) ELSE Node

\* wait_for_query_predicate picks the node it goes on polling,
\* wait_for_contract_visibility the nodes
PollNode ==
    /\ phase \in {"poll", "sees"} /\ samples = {}
    /\ \E R \in SUBSET Node :
          /\ Faulty(Silent(R))
          /\ samples' = IF phase = "poll" THEN {Min(SampleNodes(R))} ELSE SampleNodes(R)
    /\ UNCHANGED <<chain, view, pool, args, phase, batch, nextNonce, affinity, rec>>

\* all balances are what they should be; all nodes have the contract
HasAll(n) == IF phase = "poll" THEN Complete(n) ELSE State(n) # {}
Polled ==
    /\ phase \in {"poll", "sees"} /\ samples # {}
    /\ \A n \in samples : HasAll(n)
    /\ phase' = IF phase = "poll" THEN "drain" ELSE "reserve"
    /\ samples' = {}
    /\ UNCHANGED <<netVars, args, batch, nextNonce, affinity, rec>>

\* wait_for_mempool_drain
Drained ==
    /\ phase = "drain" /\ \A n \in Node : pool[n] = {}
    /\ phase' = "sample"
    /\ UNCHANGED <<netVars, args, batch, nextNonce, affinity, rec, samples>>

\* either gives up
WaitFails ==
    /\ \/ phase \in {"poll", "sees"} /\ \E n \in samples : ~HasAll(n)
       \/ phase = "drain" /\ \E n \in Node : pool[n] # {}
    /\ Fail
    /\ UNCHANGED netVars

\* get_state_from_healthy_node: what the observer recorded, against the receipts
Observe ==
    LET observers == {p \in Id : P(p).kind = "observe"}
        written == {p \in Id : P(p).kind = "write"}
        Recorded(n, o) == {p \in written : \E i, j \in 1..view[n] :
                             i < j /\ chain[i] = Tx(p) /\ chain[j] = Tx(o)}
        Precede(o) == {p \in written : rec[p].place < rec[o].place}
    IN  /\ phase = "observe"
        /\ \E R \in SUBSET Node :
              LET n == Min(SampleNodes(R))
              IN  /\ Faulty(Silent(R))
                  /\ phase' = IF \A o \in observers : Tx(o) \in State(n) /\ Recorded(n, o) = Precede(o)
                              THEN "sample" ELSE "failed"
        /\ UNCHANGED <<chain, view, pool, args, batch, nextNonce, affinity, rec, samples>>

\* _compare_state_once: the statuses first
Sample ==
    /\ phase = "sample"
    /\ \E R \in SUBSET Node : Faulty(Silent(R)) /\ samples' = SampleNodes(R)
    /\ phase' = "compare"
    /\ UNCHANGED <<chain, view, pool, args, batch, nextNonce, affinity, rec>>

MatchFaulty(A) == \A m, n \in A : State(m) = State(n)
\* then the values: at least two, all the same, and in the sums they must have
Match(A) ==
    /\ Cardinality(A) >= Min({2, Cardinality(samples)})
    /\ \A m, n \in A : State(m) = State(n)
Summed == args.scenario \in {"counter_basic", "transfer_fanout", "contract_heavy"}
Correct(A) == Summed => \A n \in A : Complete(n)

Compare ==
    /\ phase = "compare"
    /\ \E A \in SUBSET samples :
          /\ Faulty(Cardinality(samples \ A))
          /\ phase' = IF Match(A) /\ Correct(A) THEN "ok" ELSE "failed"
    /\ UNCHANGED <<chain, view, pool, args, batch, nextNonce, affinity, rec, samples>>

\* compare_state goes on comparing, until its deadline
CompareAgain ==
    /\ phase = "compare" /\ args.scenario = "parallel_probe"
    /\ \E A \in SUBSET samples : Faulty(Cardinality(samples \ A)) /\ ~Match(A)
    /\ phase' = "sample"
    /\ UNCHANGED <<chain, view, pool, args, batch, nextNonce, affinity, rec, samples>>

--------------------------------------------------------------------------------

RunStep ==
    \/ \E s \in Sender : ReserveStream(s)
    \/ \E p \in Id :
          \/ Prepare(p) \/ ReadFails(p) \/ Send(p) \/ SendFails(p)
          \/ Rejected(p) \/ Found(p) \/ TimedOut(p) \/ Rebroadcast(p) \/ NotFound(p)
    \/ BatchSent \/ BatchDone
    \/ PollNode \/ Polled \/ Drained \/ WaitFails \/ Observe \/ Sample \/ Compare \/ CompareAgain

Next ==
    \/ phase \notin Final /\ (NetStep /\ UNCHANGED runVars)
    \/ phase \notin Final /\ RunStep
    \/ phase \in Final /\ UNCHANGED vars

Spec == Init /\ [][Next]_vars

--------------------------------------------------------------------------------

Places(p) == {i \in 1..Len(chain) : chain[i].id = p}

\* Whatever is sent again, by broadcast_tx to another node or by
\* rebroadcast_and_wait_for_receipt, no operation of the script is executed twice.
ExecutedOnce == \A p \in Id : Cardinality(Places(p)) <= 1

\* When the run reports success, every transaction of the script was executed, the
\* failures by their contract too, where its receipt says; and two nodes have one state,
\* which has all transactions where the scenario knows the sums.  Where it does not,
\* both may be behind the node that had the receipts.
VerdictTrue ==
    phase = "ok" =>
        /\ \A p \in Id : Places(p) = {rec[p].place} /\ chain[rec[p].place] = Tx(p)
        /\ \E A \in SUBSET Node :
              /\ Cardinality(A) >= Min({2, N})
              /\ \A m, n \in A : State(m) = State(n)
              /\ Summed => \A n \in A : Complete(n)

\* The transactions of a stream are refused by no node unless a request failed or a
\* node restarted: lanes, reserved nonces and the affinity of a wallet to its node
\* see to that, however far the nodes are apart.
StreamAdmitted == Streams /\ (\E p \in Batch : rec[p].pc = "rejected") => faults > 0

Again(p) == rec[p].pc = "again" /\ rec'[p].attempt # rec[p].attempt
InOrder(p) == Again(p) =>
    \A q \in Id : P(q).sender = P(p).sender /\ rec[q].nonce \in 0..(rec[p].nonce - 1) => Places(q) # {}

\* resolve_lane: a transaction is sent again only once all those of its sender with
\* lower nonces are executed, as it would be refused otherwise.
RebroadcastInOrder ==
    [][~(Streams /\ args.resolution = "serial") => \A p \in Id : InOrder(p)]_vars
================================================================================
