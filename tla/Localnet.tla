-------------------------------- MODULE Localnet --------------------------------
(***************************************************************************)
(* The nodes that the localnet scripts talk to, as far as the scripts can  *)
(* tell: what a node admits, passes on, executes and forgets.  The nodes   *)
(* themselves are another repository's; what is said of them here is what  *)
(* scripts/localnet-workload.py, scripts/localnet-e2e.py and the checks    *)
(* of scripts/localnet_execution_checks.py rely on.                        *)
(***************************************************************************)
EXTENDS Integers, Sequences, FiniteSets

CONSTANTS
    N,          \* number of nodes
    MaxFaults   \* bound on failed requests and restarts

ASSUME NodesAssumption == N \in Nat \ {0} /\ MaxFaults \in Nat

Node == 0..(N - 1)

VARIABLES
    chain,   \* the transactions of all blocks, in the order of execution
    view,    \* how far each node has got in the chain
    pool,    \* what each node has admitted and not seen executed
    faults   \* requests that failed and restarts so far

netVars == <<chain, view, pool, faults>>

\* A transaction has a sender and a nonce, and an id that stands for the rest of it.
Executed(n) == {chain[i] : i \in 1..view[n]}
From(txs, s) == {t \in txs : t.sender = s}

\* the nonce a node expects from a sender, and answers when asked for it
NextNonce(n, s) == Cardinality(From(Executed(n), s)) + Cardinality(From(pool[n], s))

\* What a node says of a transaction.  The cache that knows what was executed is
\* bounded and does not survive a restart.
CheckTx(n, t) ==
    CASE t \in pool[n]               -> {"duplicate"}
      [] t \in Executed(n) \ pool[n] -> {"duplicate", "rejected"}
      [] t.nonce = NextNonce(n, t.sender) /\ t \notin Executed(n) \cup pool[n] -> {"accepted"}
      [] OTHER                       -> {"rejected"}

Admit(n, t, verdict) ==
    pool' = IF verdict = "accepted" THEN [pool EXCEPT ![n] = @ \cup {t}] ELSE pool

\* requests that fail in a step, out of all that may
Faulty(k) == faults + k <= MaxFaults /\ faults' = faults + k

\* A request that fails got to the node or not; only the node knows.
Failed(n, t) == \E verdict \in CheckTx(n, t) \cup {"lost"} : Admit(n, t, verdict)

\* of all nodes, those that do not answer when asked for their status
Silent(R) == Cardinality(Node \ R)

Top(R) == CHOOSE h \in {view[n] : n \in R} : \A n \in R : view[n] <= h
AtTop(R) == {n \in R : view[n] = Top(R)}

--------------------------------------------------------------------------------

Gossip(n, m) ==
    /\ \E t \in pool[n] \ pool[m] : "accepted" \in CheckTx(m, t) /\ Admit(m, t, "accepted")
    /\ UNCHANGED <<chain, view, faults>>

\* a block is proposed by a node that is not behind
Execute(n) ==
    /\ view[n] = Len(chain)
    /\ \E t \in pool[n] :
          /\ t.nonce = Cardinality(From(Executed(n), t.sender))
          /\ chain' = Append(chain, t)
          /\ pool' = [pool EXCEPT ![n] = @ \ {t}]
    /\ view' = [view EXCEPT ![n] = @ + 1]
    /\ UNCHANGED faults

\* A node that executes a block drops what the block has made stale.
CatchUp(n) ==
    /\ view[n] < Len(chain)
    /\ view' = [view EXCEPT ![n] = @ + 1]
    /\ LET t == chain[view[n] + 1]
       IN pool' = [pool EXCEPT ![n] = {u \in @ : u.sender # t.sender \/ u.nonce > t.nonce}]
    /\ UNCHANGED <<chain, faults>>

\* a node restarts with an empty mempool
Restart(n) ==
    /\ pool[n] # {}
    /\ Faulty(1)
    /\ pool' = [pool EXCEPT ![n] = {}]
    /\ UNCHANGED <<chain, view>>

NetStep == \E n \in Node : Execute(n) \/ CatchUp(n) \/ Restart(n) \/ \E m \in Node : Gossip(n, m)
================================================================================
