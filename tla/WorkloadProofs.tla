----------------------------- MODULE WorkloadProofs -----------------------------
(***************************************************************************)
(* Whatever requests fail, nodes restart and transactions are sent again,  *)
(* a run of Workload executes none of its operations twice.  A node takes  *)
(* a transaction only with the nonce that the chain has come to (Counted), *)
(* so that no two transactions of a sender on the chain have one nonce     *)
(* (Apart); and all that a pool or the chain holds of an operation is one  *)
(* transaction, since a nonce is given to it once (Genuine).               *)
(* A verdict is true (VInv), and while nothing fails no node refuses what  *)
(* a stream sends (SInv).  What is sent again is what comes next (OInv).   *)
(***************************************************************************)
EXTENDS Workload, FiniteSetTheorems, FunctionTheorems, SequenceTheorems, WellFoundedInduction, TLAPS

Ledger == {chain[i] : i \in 1..Len(chain)}

\* a transaction of the run: that of an operation which has its nonce
Genuine(t) == t.id \in Id /\ t = Tx(t.id) /\ rec[t.id].pc # "todo"

Shape(r) == r = [pc |-> r.pc, nonce |-> r.nonce, attempt |-> r.attempt,
                 tried |-> r.tried, place |-> r.place]

WellShaped(f) == f = [p \in Id |-> f[p]] /\ \A p \in Id : Shape(f[p])

Scripted == args.scenario \in Scenario /\ args.script \in Scripts(args.scenario)
Shaped == /\ WellShaped(rec)
          /\ DOMAIN pool = Node /\ pool = [n \in Node |-> pool[n]]
          /\ chain \in Seq(Ledger) /\ IsFiniteSet(Ledger)
PoolsGenuine == \A n \in Node : \A t \in pool[n] : Genuine(t)
ChainGenuine == \A t \in Ledger : t = Earlier \/ Genuine(t)
Counted == \A t \in Ledger : t.nonce \in Nat /\ t.nonce < Cardinality(From(Ledger, t.sender))
Apart == \A i, j \in 1..Len(chain) :
            chain[i].sender = chain[j].sender /\ chain[i].nonce = chain[j].nonce => i = j

IInv == Scripted /\ Shaped /\ PoolsGenuine /\ ChainGenuine /\ Counted /\ Apart

--------------------------------------------------------------------------------

\* The ids of a script are not the id of the transaction of the earlier run.
LEMMA IdsPositive == ASSUME Scripted PROVE 0 \notin Id
<1>1. SUFFICES ASSUME NEW b \in DOMAIN args.script, NEW i \in DOMAIN args.script[b]
               PROVE  args.script[b][i].id # 0
  BY DEF Id, IdsOf
<1>2. CASE args.scenario = "counter_basic"
  BY <1>1, <1>2 DEF Scripted, Scripts, CounterBasic, Plan
<1>3. CASE args.scenario = "dex_mixed"
  BY <1>1, <1>3 DEF Scripted, Scripts, DexMixed, DexSetup, DexRound, DexFinal, Plan
<1>4. CASE args.scenario = "parallel_probe"
  BY <1>1, <1>4 DEF Scripted, Scripts, ParallelProbe, SameSender, ReadAfterWrite, PrefixScan, Plan
<1>5. CASE args.scenario = "transfer_fanout"
  <2> DEFINE plans == <<Plan(1, 1, "write", 0), Plan(2, 1, "write", 0), Plan(3, 2, "write", 1)>>
  <2>1. args.script = << [k \in 1..3 |-> plans[Shuffle[k]]] >>
    BY <1>5 DEF Scripted, Scripts, TransferFanout
  <2>2. b = 1 /\ i \in 1..3 /\ args.script[b][i] = plans[Shuffle[i]]
    BY <1>1, <2>1
  <2>3. Shuffle[i] \in 1..3
    BY <2>2, ShuffleAssumption
  <2> QED
    BY <2>2, <2>3 DEF Plan
<1>6. CASE args.scenario = "contract_heavy"
  BY <1>1, <1>6 DEF Scripted, Scripts, ContractHeavy, Plan
<1> QED
  BY <1>2, <1>3, <1>4, <1>5, <1>6, ScenarioAssumption DEF Scripted

\* A run begins so.
LEMMA InitInv == Init => IInv
<1> SUFFICES ASSUME Init PROVE IInv
  OBVIOUS
<1> USE DEF Init
<1>1. Scripted
  BY DEF Scripted
<1>2. Ledger = {Earlier}
  BY DEF Ledger
<1>3. Shaped
  <2>1. IsFiniteSet(Ledger)
    BY <1>2, FS_Singleton
  <2>2. chain \in Seq(Ledger)
    <3>1. chain = <<Earlier>> /\ Earlier \in Ledger
      BY <1>2
    <3> QED
      BY <3>1
  <2>3. WellShaped(rec)
    BY DEF WellShaped, Shape, NewRecord
  <2> QED
    BY <2>1, <2>2, <2>3 DEF Shaped
<1>4. PoolsGenuine /\ ChainGenuine /\ Apart
  BY <1>2 DEF PoolsGenuine, ChainGenuine, Apart
<1>5. Counted
  <2>1. From(Ledger, 1) = {Earlier}
    BY <1>2 DEF From, Earlier
  <2>2. Cardinality({Earlier}) = 1
    BY FS_Singleton
  <2>3. Earlier.sender = 1 /\ Earlier.nonce = 0
    BY DEF Earlier
  <2>4. \A t \in Ledger : t = Earlier
    BY <1>2
  <2>5. Cardinality(From(Ledger, Earlier.sender)) = 1
    BY <2>1, <2>2, <2>3
  <2>6. Earlier.nonce \in Nat /\ Earlier.nonce < Cardinality(From(Ledger, Earlier.sender))
    BY <2>3, <2>5
  <2> QED
    BY <2>4, <2>6, Zenon DEF Counted
<1> QED
  BY <1>1, <1>3, <1>4, <1>5 DEF IInv

--------------------------------------------------------------------------------

\* What a step of the run leaves of the records: an operation that has a nonce keeps it.
RecKept == /\ WellShaped(rec')
           /\ \A p \in Id : rec[p].pc # "todo" => rec'[p].pc # "todo" /\ rec'[p].nonce = rec[p].nonce

\* What any step puts into a pool is there already or is sent by the run.
PoolKept == /\ DOMAIN pool' = Node /\ pool' = [n \in Node |-> pool'[n]]
            /\ \A n \in Node : \A t \in pool'[n] : (\E m \in Node : t \in pool[m]) \/ Genuine(t)

LEMMA SameIds == ASSUME args' = args PROVE Id' = Id /\ \A p : P(p)' = P(p)
  BY DEF Id, IdsOf, P, Plans

\* An operation of the run has one transaction from the time it has a nonce.
LEMMA GenuineKept ==
  ASSUME args' = args, RecKept, NEW t, Genuine(t) PROVE Genuine(t)'
<1>1. Id' = Id /\ P(t.id)' = P(t.id)
  BY SameIds
<1>2. rec'[t.id].nonce = rec[t.id].nonce /\ rec'[t.id].pc # "todo"
  BY DEF Genuine, RecKept
<1> QED
  BY <1>1, <1>2 DEF Genuine, Tx

\* Such steps keep the invariant as long as they leave the chain.
LEMMA KeptInv ==
  ASSUME IInv, args' = args, chain' = chain, RecKept, PoolKept PROVE IInv'
<1>1. Id' = Id /\ Ledger' = Ledger
  BY SameIds DEF Ledger
<1>2. Scripted'
  BY DEF IInv, Scripted, Scripts, CounterBasic, DexMixed, ParallelProbe, TransferFanout, ContractHeavy
<1>3. Shaped'
  BY <1>1 DEF IInv, Shaped, WellShaped, Shape, RecKept, PoolKept
<1>4. PoolsGenuine'
  BY GenuineKept DEF IInv, PoolsGenuine, PoolKept
<1>5. ChainGenuine'
  BY <1>1, GenuineKept DEF IInv, ChainGenuine
<1>6. Counted' /\ Apart'
  BY <1>1 DEF IInv, Counted, Apart, From
<1> QED
  BY <1>2, <1>3, <1>4, <1>5, <1>6 DEF IInv

\* A block adds the transaction that has the nonce the chain has come to.
LEMMA ExecuteInv ==
  ASSUME IInv, NEW n \in Node, Execute(n), UNCHANGED runVars PROVE IInv'
<1>1. PICK t \in pool[n] : /\ t.nonce = Cardinality(From(Executed(n), t.sender))
                           /\ chain' = Append(chain, t)
                           /\ pool' = [pool EXCEPT ![n] = @ \ {t}]
  BY DEF Execute
<1>2. chain \in Seq(Ledger) /\ IsFiniteSet(Ledger) /\ Executed(n) = Ledger
  BY DEF Execute, Executed, Ledger, IInv, Shaped
<1> DEFINE L == Len(chain)
<1>3. /\ L \in Nat /\ Len(chain') = L + 1 /\ chain'[L + 1] = t
      /\ \A i \in 1..L : chain'[i] = chain[i]
      /\ chain' \in Seq(Ledger \cup {t})
  <2>1. chain \in Seq(Ledger \cup {t})
    BY <1>2
  <2> QED
    BY <1>1, <2>1
<1>4. Ledger' = Ledger \cup {t}
  BY <1>3 DEF Ledger
<1>5. \A s : From(Ledger, s) \subseteq Ledger /\ IsFiniteSet(From(Ledger, s))
  BY <1>2, FS_Subset DEF From
<1>6. t.nonce \in Nat /\ t.nonce = Cardinality(From(Ledger, t.sender))
  BY <1>1, <1>2, <1>5, FS_CardinalityType
<1>7. \A u \in Ledger : u.sender = t.sender => u.nonce < t.nonce
  BY <1>6 DEF IInv, Counted
<1>8. Genuine(t)
  BY <1>1 DEF IInv, PoolsGenuine
<1>9. args' = args /\ rec' = rec /\ Id' = Id
  BY SameIds DEF runVars
<1>10. RecKept
  BY <1>9 DEF RecKept, IInv, Shaped
<1>11. Scripted'
  BY <1>9 DEF IInv, Scripted, Scripts, CounterBasic, DexMixed, ParallelProbe, TransferFanout, ContractHeavy
<1>12. Shaped'
  <2>1. IsFiniteSet(Ledger')
    BY <1>2, <1>4, FS_AddElement
  <2>2. DOMAIN pool' = Node /\ pool' = [m \in Node |-> pool'[m]]
    BY <1>1 DEF IInv, Shaped
  <2> QED
    BY <1>3, <1>4, <1>9, <2>1, <2>2 DEF IInv, Shaped, WellShaped, Shape
<1>13. PoolsGenuine'
  <2> SUFFICES ASSUME NEW m \in Node, NEW u \in pool'[m] PROVE Genuine(u)'
    BY DEF PoolsGenuine
  <2>1. u \in pool[m]
    BY <1>1 DEF IInv, Shaped
  <2> QED
    BY <1>9, <1>10, <2>1, GenuineKept DEF IInv, PoolsGenuine
<1>14. ChainGenuine'
  BY <1>4, <1>8, <1>9, <1>10, GenuineKept DEF IInv, ChainGenuine
<1>15. Counted'
  <2> SUFFICES ASSUME NEW u \in Ledger \cup {t}
               PROVE  u.nonce \in Nat /\ u.nonce < Cardinality(From(Ledger \cup {t}, u.sender))
    BY <1>4 DEF Counted, From
  <2>1. CASE u.sender = t.sender
    <3>1. From(Ledger \cup {t}, u.sender) = From(Ledger, t.sender) \cup {t}
      BY <2>1 DEF From
    <3>2. t \notin From(Ledger, t.sender)
      BY <1>6, <1>7 DEF From
    <3>3. IsFiniteSet(From(Ledger, t.sender))
      BY <1>5
    <3>4. Cardinality(From(Ledger, t.sender) \cup {t}) = t.nonce + 1
      BY <1>6, <3>2, <3>3, FS_AddElement
    <3>5. u.nonce \in Nat /\ u.nonce <= t.nonce
      BY <1>6, <1>7, <2>1 DEF IInv, Counted
    <3>6. Cardinality(From(Ledger \cup {t}, u.sender)) = t.nonce + 1
      BY <3>1, <3>4, Zenon
    <3> QED
      BY <1>6, <3>5, <3>6
  <2>2. CASE u.sender # t.sender
    <3>1. From(Ledger \cup {t}, u.sender) = From(Ledger, u.sender)
      BY <2>2 DEF From
    <3> QED
      BY <2>2, <3>1 DEF IInv, Counted
  <2> QED
    BY <2>1, <2>2
<1>16. Apart'
  <2> SUFFICES ASSUME NEW i \in 1..L + 1, NEW j \in 1..L + 1, i < j,
                      chain'[i].sender = chain'[j].sender, chain'[i].nonce = chain'[j].nonce
               PROVE  FALSE
    BY <1>3 DEF Apart
  <2>1. i \in 1..L /\ chain'[i] = chain[i] /\ chain[i] \in Ledger
    BY <1>3 DEF Ledger
  <2>2. CASE j = L + 1
    BY <1>3, <1>6, <1>7, <2>1, <2>2 DEF IInv, Counted
  <2>3. CASE j \in 1..L
    BY <1>3, <2>1, <2>3 DEF IInv, Apart
  <2> QED
    BY <1>3, <2>2, <2>3
<1> QED
  BY <1>11, <1>12, <1>13, <1>14, <1>15, <1>16 DEF IInv

--------------------------------------------------------------------------------

LEMMA AdmitKept ==
  ASSUME IInv, NEW n, NEW p \in Id, rec[p].pc # "todo",
         NEW verdict, Admit(n, Tx(p), verdict)
  PROVE  PoolKept
<1>1. Genuine(Tx(p))
  BY DEF Genuine, Tx
<1>2. DOMAIN pool = Node /\ pool = [m \in Node |-> pool[m]]
  BY DEF IInv, Shaped
<1>3. pool' = IF verdict = "accepted" THEN [pool EXCEPT ![n] = @ \cup {Tx(p)}] ELSE pool
  BY DEF Admit
<1>4. \A m \in Node : pool'[m] = pool[m] \/ pool'[m] = pool[m] \cup {Tx(p)}
  BY <1>2, <1>3
<1>5. DOMAIN pool' = Node /\ pool' = [m \in Node |-> pool'[m]]
  BY <1>2, <1>3
<1> QED
  BY <1>1, <1>4, <1>5 DEF PoolKept

LEMMA PoolSame == ASSUME IInv, pool' = pool PROVE PoolKept
  BY DEF IInv, Shaped, PoolKept

LEMMA RecSame == ASSUME IInv, rec' = rec PROVE RecKept
  BY DEF IInv, Shaped, RecKept

\* g is f with another record for p
Differs(f, g, p) == WellShaped(g) /\ \A q \in Id \ {p} : g[q] = f[q]

\* The fields of a record are written one by one.
SetPc(f, p, v) == [f EXCEPT ![p].pc = v]
LEMMA PcSet ==
  ASSUME NEW f, WellShaped(f), NEW p \in Id, NEW v, NEW g, g = SetPc(f, p, v)
  PROVE  Differs(f, g, p) /\ g[p].pc = v /\ g[p].nonce = f[p].nonce
<1>1. /\ f = [q \in Id |-> f[q]] /\ \A q \in Id : Shape(f[q])
      /\ f[p] = [pc |-> f[p].pc, nonce |-> f[p].nonce, attempt |-> f[p].attempt,
                 tried |-> f[p].tried, place |-> f[p].place]
  BY DEF WellShaped, Shape
<1>2. g = [q \in Id |-> g[q]] /\ \A q \in Id \ {p} : g[q] = f[q]
  BY <1>1 DEF SetPc
<1>3. g[p] = [f[p] EXCEPT !.pc = v]
  BY <1>1 DEF SetPc
<1>4. Shape(g[p]) /\ g[p].pc = v /\ g[p].nonce = f[p].nonce
  BY <1>1, <1>3 DEF Shape
<1> QED
  BY <1>1, <1>2, <1>4 DEF Differs, WellShaped

SetNonce(f, p, v) == [f EXCEPT ![p].nonce = v]
LEMMA NonceSet ==
  ASSUME NEW f, WellShaped(f), NEW p \in Id, NEW v, NEW g, g = SetNonce(f, p, v)
  PROVE  Differs(f, g, p) /\ g[p].pc = f[p].pc
<1>1. /\ f = [q \in Id |-> f[q]] /\ \A q \in Id : Shape(f[q])
      /\ f[p] = [pc |-> f[p].pc, nonce |-> f[p].nonce, attempt |-> f[p].attempt,
                 tried |-> f[p].tried, place |-> f[p].place]
  BY DEF WellShaped, Shape
<1>2. g = [q \in Id |-> g[q]] /\ \A q \in Id \ {p} : g[q] = f[q]
  BY <1>1 DEF SetNonce
<1>3. g[p] = [f[p] EXCEPT !.nonce = v]
  BY <1>1 DEF SetNonce
<1>4. Shape(g[p]) /\ g[p].pc = f[p].pc
  BY <1>1, <1>3 DEF Shape
<1> QED
  BY <1>1, <1>2, <1>4 DEF Differs, WellShaped

SetAttempt(f, p, v) == [f EXCEPT ![p].attempt = v]
LEMMA AttemptSet ==
  ASSUME NEW f, WellShaped(f), NEW p \in Id, NEW v, NEW g, g = SetAttempt(f, p, v)
  PROVE  Differs(f, g, p) /\ g[p].pc = f[p].pc /\ g[p].nonce = f[p].nonce
<1>1. /\ f = [q \in Id |-> f[q]] /\ \A q \in Id : Shape(f[q])
      /\ f[p] = [pc |-> f[p].pc, nonce |-> f[p].nonce, attempt |-> f[p].attempt,
                 tried |-> f[p].tried, place |-> f[p].place]
  BY DEF WellShaped, Shape
<1>2. g = [q \in Id |-> g[q]] /\ \A q \in Id \ {p} : g[q] = f[q]
  BY <1>1 DEF SetAttempt
<1>3. g[p] = [f[p] EXCEPT !.attempt = v]
  BY <1>1 DEF SetAttempt
<1>4. Shape(g[p]) /\ g[p].pc = f[p].pc /\ g[p].nonce = f[p].nonce
  BY <1>1, <1>3 DEF Shape
<1> QED
  BY <1>1, <1>2, <1>4 DEF Differs, WellShaped

SetTried(f, p, v) == [f EXCEPT ![p].tried = v]
LEMMA TriedSet ==
  ASSUME NEW f, WellShaped(f), NEW p \in Id, NEW v, NEW g, g = SetTried(f, p, v)
  PROVE  Differs(f, g, p) /\ g[p].pc = f[p].pc /\ g[p].nonce = f[p].nonce
<1>1. /\ f = [q \in Id |-> f[q]] /\ \A q \in Id : Shape(f[q])
      /\ f[p] = [pc |-> f[p].pc, nonce |-> f[p].nonce, attempt |-> f[p].attempt,
                 tried |-> f[p].tried, place |-> f[p].place]
  BY DEF WellShaped, Shape
<1>2. g = [q \in Id |-> g[q]] /\ \A q \in Id \ {p} : g[q] = f[q]
  BY <1>1 DEF SetTried
<1>3. g[p] = [f[p] EXCEPT !.tried = v]
  BY <1>1 DEF SetTried
<1>4. Shape(g[p]) /\ g[p].pc = f[p].pc /\ g[p].nonce = f[p].nonce
  BY <1>1, <1>3 DEF Shape
<1> QED
  BY <1>1, <1>2, <1>4 DEF Differs, WellShaped

LEMMA RecUpdated ==
  ASSUME IInv, NEW p \in Id, Differs(rec, rec', p),
         rec[p].pc # "todo" => rec'[p].pc # "todo" /\ rec'[p].nonce = rec[p].nonce
  PROVE  RecKept
  BY DEF Differs, RecKept

\* What a step of the run leaves of a record that is done; most steps make none done.
NoneDone == \A q \in Id : rec[q].pc = "done" \/ rec'[q].pc = "done" => rec'[q] = rec[q]

LEMMA NotDone ==
  ASSUME NEW p \in Id, Differs(rec, rec', p), rec[p].pc # "done", rec'[p].pc # "done"
  PROVE  NoneDone
  BY DEF Differs, NoneDone

LEMMA AttemptDiffers ==
  ASSUME IInv, NEW p \in Id, NEW node, NEW g, g = NextAttempt(p, node)
  PROVE  Differs(rec, g, p) /\ g[p].pc = rec[p].pc /\ g[p].nonce = rec[p].nonce
<1>1. WellShaped(rec)
  BY DEF IInv, Shaped
<1>2. PICK v : v = rec[p].attempt + 1
  OBVIOUS
<1>3. PICK one : one = SetAttempt(rec, p, v)
  OBVIOUS
<1>4. Differs(rec, one, p) /\ one[p].pc = rec[p].pc /\ one[p].nonce = rec[p].nonce
  BY <1>1, <1>3, AttemptSet
<1>5. PICK w : w = one[p].tried \cup {node}
  OBVIOUS
<1>6. g = SetTried(one, p, w)
  BY <1>1, <1>2, <1>3, <1>5 DEF NextAttempt, WellShaped, SetAttempt, SetTried
<1>7. WellShaped(one)
  BY <1>4 DEF Differs
<1>8. Differs(one, g, p) /\ g[p].pc = one[p].pc /\ g[p].nonce = one[p].nonce
  BY <1>6, <1>7, TriedSet
<1> QED
  BY <1>4, <1>8 DEF Differs

--------------------------------------------------------------------------------
(* The steps of the run, each a step of KeptInv.                             *)

Keeps == args' = args /\ chain' = chain /\ RecKept /\ PoolKept

LEMMA QuietKeeps ==
  ASSUME IInv, args' = args, chain' = chain, rec' = rec, pool' = pool PROVE Keeps
  BY RecSame, PoolSame DEF Keeps

LEMMA ReserveStreamKeeps ==
  ASSUME IInv, NEW s \in Sender, ReserveStream(s) PROVE Keeps /\ NoneDone
<1> DEFINE mine == {p \in {q \in Batch : rec[q].pc = "todo"} : P(p).sender = s}
           Rank(p) == Cardinality({q \in mine : q < p})
<1>1. PICK first : rec' = [p \in Id |-> IF p \in mine
                                       THEN [rec[p] EXCEPT !.nonce = first + Rank(p), !.pc = "send"]
                                       ELSE rec[p]]
  BY DEF ReserveStream
<1>2. \A p \in Id : Shape(rec[p])
  BY DEF IInv, Shaped, WellShaped
<1>3. ASSUME NEW p \in Id
      PROVE  /\ Shape(rec'[p])
             /\ rec[p].pc # "todo" => rec'[p] = rec[p]
             /\ rec'[p].pc = "done" => rec'[p] = rec[p]
  <2>1. CASE p \in mine
    <3>1. PICK v : v = first + Rank(p)
      OBVIOUS
    <3>2. rec[p] = [pc |-> rec[p].pc, nonce |-> rec[p].nonce, attempt |-> rec[p].attempt,
                    tried |-> rec[p].tried, place |-> rec[p].place]
      BY <1>2 DEF Shape
    <3>3. rec'[p] = [rec[p] EXCEPT !.nonce = v, !.pc = "send"]
      BY <1>1, <2>1, <3>1
    <3>4. rec[p].pc = "todo"
      BY <2>1
    <3> HIDE DEF mine
    <3>5. Shape(rec'[p]) /\ rec'[p].pc = "send"
      BY <3>2, <3>3 DEF Shape
    <3> QED
      BY <3>4, <3>5
  <2>2. CASE p \notin mine
    BY <1>1, <1>2, <2>2
  <2> QED
    BY <2>1, <2>2
<1>4. rec' = [p \in Id |-> rec'[p]]
  BY <1>1
<1>5. RecKept
  BY <1>3, <1>4 DEF RecKept, WellShaped
<1>6. NoneDone
  BY <1>3 DEF NoneDone
<1> QED
  BY <1>5, <1>6, PoolSame DEF Keeps, ReserveStream

LEMMA PrepareKeeps == ASSUME IInv, NEW p \in Id, Prepare(p) PROVE Keeps /\ NoneDone
<1>1. PICK nonce : /\ rec[p].pc = "todo"
                   /\ rec' = [rec EXCEPT ![p].pc = "send", ![p].nonce = nonce]
  BY DEF Prepare
<1>2. WellShaped(rec)
  BY DEF IInv, Shaped
<1>3. PICK one : one = SetPc(rec, p, "send")
  OBVIOUS
<1>4. Differs(rec, one, p) /\ one[p].pc = "send"
  BY <1>2, <1>3, PcSet
<1>5. rec' = SetNonce(one, p, nonce)
  BY <1>1, <1>2, <1>3 DEF SetPc, SetNonce, WellShaped
<1>6. Differs(one, rec', p) /\ rec'[p].pc = "send"
  BY <1>4, <1>5, NonceSet DEF Differs
<1>7. Differs(rec, rec', p)
  BY <1>4, <1>6 DEF Differs
<1>8. RecKept /\ NoneDone
  BY <1>1, <1>6, <1>7, RecUpdated, NotDone
<1> QED
  BY <1>8, PoolSame DEF Keeps, Prepare

\* A request that takes a transaction, or fails, leaves the pools as KeptInv has them.
LEMMA FailedKept ==
  ASSUME IInv, NEW n, NEW p \in Id, rec[p].pc # "todo", Failed(n, Tx(p)) PROVE PoolKept
  BY AdmitKept DEF Failed

Underway(p) == rec[p].pc \notin {"todo", "done"}

LEMMA AttemptKeeps ==
  ASSUME IInv, NEW p \in Id, Underway(p), NEW node, rec' = NextAttempt(p, node)
  PROVE  RecKept /\ NoneDone
<1>1. Differs(rec, rec', p) /\ rec'[p].pc = rec[p].pc /\ rec'[p].nonce = rec[p].nonce
  BY AttemptDiffers
<1> QED
  BY <1>1, RecUpdated, NotDone DEF Underway

\* another offset whose node was tried already
LEMMA SkipKeeps ==
  ASSUME IInv, NEW p \in Id, Underway(p), rec' = [rec EXCEPT ![p].attempt = @ + 1]
  PROVE  RecKept /\ NoneDone
<1>1. PICK v : v = rec[p].attempt + 1
  OBVIOUS
<1>2. PICK g : g = SetAttempt(rec, p, v)
  OBVIOUS
<1>3. Differs(rec, g, p) /\ g[p].pc = rec[p].pc /\ g[p].nonce = rec[p].nonce
  <2>1. WellShaped(rec)
    BY DEF IInv, Shaped
  <2> QED
    BY <1>2, <2>1, AttemptSet
<1>4. rec' = g
  BY <1>1, <1>2 DEF SetAttempt
<1> QED
  BY <1>3, <1>4, RecUpdated, NotDone DEF Underway

LEMMA AnsweredKeeps ==
  ASSUME IInv, NEW p \in Id, Underway(p), NEW node, Answered(p, node)
  PROVE  RecKept /\ NoneDone /\ PoolKept
<1>1. PICK verdict, pc :
        /\ Admit(node, Tx(p), verdict)
        /\ pc \in {"sent", "rejected"}
        /\ rec' = [rec EXCEPT ![p].pc = pc, ![p].attempt = 0, ![p].tried = {}]
  <2>1. PICK verdict \in CheckTx(node, Tx(p)) :
          /\ Admit(node, Tx(p), verdict)
          /\ rec' = [rec EXCEPT ![p].pc = IF verdict = "rejected" /\ ~Async THEN verdict ELSE "sent",
                                ![p].attempt = 0, ![p].tried = {}]
    BY DEF Answered
  <2>2. CASE verdict = "rejected" /\ ~Async
    BY <2>1, <2>2
  <2>3. CASE ~(verdict = "rejected" /\ ~Async)
    BY <2>1, <2>3
  <2> QED
    BY <2>2, <2>3
<1>2. WellShaped(rec)
  BY DEF IInv, Shaped
<1>3. PICK one : one = SetPc(rec, p, pc)
  OBVIOUS
<1>4. Differs(rec, one, p) /\ one[p].pc = pc /\ one[p].nonce = rec[p].nonce
  BY <1>2, <1>3, PcSet
<1>5. PICK two : two = SetAttempt(one, p, 0)
  OBVIOUS
<1>6. Differs(one, two, p) /\ two[p].pc = one[p].pc /\ two[p].nonce = one[p].nonce
  BY <1>4, <1>5, AttemptSet DEF Differs
<1>7. rec' = SetTried(two, p, {})
  BY <1>1, <1>2, <1>3, <1>5 DEF SetPc, SetAttempt, SetTried, WellShaped
<1>8. Differs(two, rec', p) /\ rec'[p].pc = two[p].pc /\ rec'[p].nonce = two[p].nonce
  BY <1>6, <1>7, TriedSet DEF Differs
<1>9. Differs(rec, rec', p)
  BY <1>4, <1>6, <1>8 DEF Differs
<1>10. rec'[p].pc \notin {"todo", "done"} /\ rec'[p].nonce = rec[p].nonce
  BY <1>1, <1>4, <1>6, <1>8
<1>11. RecKept /\ NoneDone
  BY <1>9, <1>10, RecUpdated, NotDone DEF Underway
<1> QED
  BY <1>1, <1>11, AdmitKept DEF Underway

LEMMA SendKeeps == ASSUME IInv, NEW p \in Id, Send(p) PROVE Keeps /\ NoneDone
<1>1. Underway(p) /\ rec[p].pc # "todo" /\ args' = args /\ chain' = chain
  BY DEF Send, Underway
<1>2. PICK node :
        \/ rec' = [rec EXCEPT ![p].attempt = @ + 1] /\ pool' = pool
        \/ Answered(p, node)
        \/ Unanswered(p, node)
  BY DEF Send
<1>3. RecKept /\ NoneDone /\ PoolKept
  BY <1>1, <1>2, SkipKeeps, PoolSame, AnsweredKeeps, AttemptKeeps, FailedKept DEF Unanswered
<1> QED
  BY <1>1, <1>3 DEF Keeps

LEMMA RebroadcastKeeps == ASSUME IInv, NEW p \in Id, Rebroadcast(p) PROVE Keeps /\ NoneDone
<1>1. Underway(p) /\ rec[p].pc # "todo" /\ args' = args /\ chain' = chain
  BY DEF Rebroadcast, Underway
<1>2. PICK node :
        \/ rec' = [rec EXCEPT ![p].attempt = @ + 1] /\ pool' = pool
        \/ TakenAgain(p, node)
        \/ NotTakenAgain(p, node)
  BY DEF Rebroadcast
<1>3. ASSUME TakenAgain(p, node) PROVE RecKept /\ NoneDone /\ PoolKept
  <2>1. PICK verdict : /\ Admit(node, Tx(p), verdict)
                       /\ rec' = [NextAttempt(p, node) EXCEPT
                                    ![p].pc = IF verdict = "rejected" THEN "again" ELSE "sent"]
    BY <1>3 DEF TakenAgain
  <2>2. PICK pc : pc = IF verdict = "rejected" THEN "again" ELSE "sent"
    OBVIOUS
  <2>3. PICK one : one = NextAttempt(p, node)
    OBVIOUS
  <2>4. Differs(rec, one, p) /\ one[p].nonce = rec[p].nonce
    BY <2>3, AttemptDiffers
  <2>5. rec' = SetPc(one, p, pc)
    BY <2>1, <2>2, <2>3 DEF SetPc
  <2>6. Differs(one, rec', p) /\ rec'[p].pc = pc /\ rec'[p].nonce = one[p].nonce
    BY <2>4, <2>5, PcSet DEF Differs
  <2>7. pc \notin {"todo", "done"}
    BY <2>2
  <2>8. Differs(rec, rec', p)
    BY <2>4, <2>6 DEF Differs
  <2>9. RecKept /\ NoneDone
    BY <1>1, <2>4, <2>6, <2>7, <2>8, RecUpdated, NotDone DEF Underway
  <2> QED
    BY <1>1, <2>1, <2>9, AdmitKept
<1>4. RecKept /\ NoneDone /\ PoolKept
  BY <1>1, <1>2, <1>3, SkipKeeps, PoolSame, AttemptKeeps, FailedKept DEF NotTakenAgain
<1> QED
  BY <1>1, <1>4 DEF Keeps

LEMMA ConcludeKeeps ==
  ASSUME IInv, NEW p \in Id, rec[p].pc # "todo", NEW success, NEW message, NEW place,
         Conclude(p, success, message, place)
  PROVE  RecKept
<1>1. CASE rec' = rec
  BY <1>1, RecSame
<1>2. CASE rec' = [rec EXCEPT ![p] = [pc |-> "done", nonce |-> rec[p].nonce, attempt |-> 0,
                                     tried |-> {}, place |-> place]]
  <2> DEFINE r == [pc |-> "done", nonce |-> rec[p].nonce, attempt |-> 0, tried |-> {},
                   place |-> place]
  <2>1. rec' = [rec EXCEPT ![p] = r]
    BY <1>2
  <2> HIDE DEF r
  <2>2. rec = [q \in Id |-> rec[q]] /\ \A q \in Id : Shape(rec[q])
    BY DEF IInv, Shaped, WellShaped
  <2>3. rec' = [q \in Id |-> IF q = p THEN r ELSE rec[q]]
    BY <2>1, <2>2
  <2>4. Shape(r) /\ r.pc = "done" /\ r.nonce = rec[p].nonce
    BY DEF Shape, r
  <2>5. rec'[p] = r
    BY <2>3
  <2>6. Differs(rec, rec', p) /\ rec'[p].pc = "done" /\ rec'[p].nonce = rec[p].nonce
    BY <2>2, <2>3, <2>4, <2>5 DEF Differs, WellShaped
  <2> QED
    BY <2>6, RecUpdated
<1> QED
  BY <1>1, <1>2 DEF Conclude

LEMMA FoundKeeps == ASSUME IInv, NEW p \in Id, Found(p) \/ Rejected(p) PROVE Keeps
<1>1. rec[p].pc # "todo" /\ args' = args /\ chain' = chain /\ pool' = pool
  BY DEF Found, Rejected, netVars
<1>2. \E success, message, place : Conclude(p, success, message, place)
  BY DEF Found, Rejected
<1> QED
  BY <1>1, <1>2, ConcludeKeeps, PoolSame DEF Keeps

LEMMA TimedOutKeeps == ASSUME IInv, NEW p \in Id, TimedOut(p) PROVE Keeps /\ NoneDone
<1>1. rec[p].pc = "sent" /\ WellShaped(rec)
  BY DEF TimedOut, IInv, Shaped
<1>2. rec' = SetPc(rec, p, "again")
  BY DEF TimedOut, SetPc
<1>3. Differs(rec, rec', p) /\ rec'[p].pc = "again" /\ rec'[p].nonce = rec[p].nonce
  BY <1>1, <1>2, PcSet
<1>4. RecKept /\ NoneDone
  BY <1>1, <1>3, RecUpdated, NotDone
<1> QED
  BY <1>4, PoolSame DEF Keeps, TimedOut

LEMMA RunStepKeeps == ASSUME IInv, RunStep PROVE Keeps
<1>1. ASSUME NEW s \in Sender, ReserveStream(s) PROVE Keeps
  BY <1>1, ReserveStreamKeeps
<1>2. ASSUME NEW p \in Id, Prepare(p) PROVE Keeps
  BY <1>2, PrepareKeeps
<1>3. ASSUME NEW p \in Id, Send(p) PROVE Keeps
  BY <1>3, SendKeeps
<1>4. ASSUME NEW p \in Id, Found(p) \/ Rejected(p) PROVE Keeps
  BY <1>4, FoundKeeps
<1>5. ASSUME NEW p \in Id, TimedOut(p) PROVE Keeps
  BY <1>5, TimedOutKeeps
<1>6. ASSUME NEW p \in Id, Rebroadcast(p) PROVE Keeps
  BY <1>6, RebroadcastKeeps
<1>7. ASSUME NEW p \in Id, ReadFails(p) \/ SendFails(p) \/ NotFound(p) PROVE Keeps
  BY <1>7, QuietKeeps DEF ReadFails, SendFails, NotFound, Fail, netVars
<1>8. ASSUME BatchSent \/ BatchDone PROVE Keeps
  BY <1>8, QuietKeeps DEF BatchSent, BatchDone, netVars
<1>9. ASSUME PollNode \/ Polled \/ Drained \/ WaitFails PROVE Keeps
  BY <1>9, QuietKeeps DEF PollNode, Polled, Drained, WaitFails, Fail, netVars
<1>10. ASSUME Observe \/ Sample \/ Compare \/ CompareAgain PROVE Keeps
  BY <1>10, QuietKeeps DEF Observe, Sample, Compare, CompareAgain
<1> QED
  BY <1>1, <1>2, <1>3, <1>4, <1>5, <1>6, <1>7, <1>8, <1>9, <1>10 DEF RunStep

\* Nodes that pass transactions on, catch up or restart keep it too.
LEMMA NetStepInv ==
  ASSUME IInv, NetStep, UNCHANGED runVars PROVE IInv'
<1>1. args' = args /\ rec' = rec
  BY DEF runVars
<1>2. PICK n \in Node : Execute(n) \/ CatchUp(n) \/ Restart(n) \/ \E m \in Node : Gossip(n, m)
  BY DEF NetStep
<1>3. pool = [m \in Node |-> pool[m]] /\ \A m \in Node : \A t \in pool[m] : Genuine(t)
  BY DEF IInv, Shaped, PoolsGenuine
<1>4. CASE CatchUp(n) \/ Restart(n)
  <2>1. chain' = chain
    BY <1>4 DEF CatchUp, Restart
  <2>2. PICK S \in SUBSET pool[n] : pool' = [pool EXCEPT ![n] = S]
    BY <1>4 DEF CatchUp, Restart
  <2>3. PoolKept
    BY <1>3, <2>2 DEF PoolKept
  <2> QED
    BY <1>1, <2>1, <2>3, RecSame, KeptInv
<1>5. CASE \E m \in Node : Gossip(n, m)
  <2>1. PICK m \in Node, t \in pool[n] : Admit(m, t, "accepted")
    BY <1>5 DEF Gossip
  <2>2. pool' = [pool EXCEPT ![m] = @ \cup {t}]
    BY <2>1 DEF Admit
  <2>3. PoolKept
    BY <1>3, <2>2 DEF PoolKept
  <2> QED
    BY <1>1, <1>5, <2>3, RecSame, KeptInv DEF Gossip
<1> QED
  BY <1>2, <1>4, <1>5, ExecuteInv

LEMMA NextInv == IInv /\ [Next]_vars => IInv'
<1> SUFFICES ASSUME IInv, [Next]_vars PROVE IInv'
  OBVIOUS
<1>1. CASE NetStep /\ UNCHANGED runVars
  BY <1>1, NetStepInv
<1>2. CASE RunStep
  BY <1>2, RunStepKeeps, KeptInv DEF Keeps
<1>3. CASE UNCHANGED vars
  BY <1>3, QuietKeeps, KeptInv DEF Keeps, vars, netVars, runVars
<1> QED
  BY <1>1, <1>2, <1>3 DEF Next

\* Two places of an operation hold its one transaction, and so are one place.
LEMMA IInvExecutedOnce == IInv => ExecutedOnce
<1> SUFFICES ASSUME IInv, NEW p \in Id PROVE Cardinality(Places(p)) <= 1
  BY DEF ExecutedOnce
<1>1. p # 0
  BY IdsPositive DEF IInv
<1>2. \A i \in Places(p) : chain[i] = Tx(p) /\ i \in 1..Len(chain)
  BY <1>1 DEF Places, IInv, ChainGenuine, Ledger, Genuine, Earlier
<1>3. \A i, j \in Places(p) : i = j
  BY <1>2 DEF IInv, Apart
<1>4. CASE Places(p) = {}
  BY <1>4, FS_EmptySet
<1>5. CASE Places(p) # {}
  <2>1. PICK i \in Places(p) : TRUE
    BY <1>5
  <2>2. Places(p) = {i}
    BY <1>3, <2>1
  <2> QED
    BY <2>2, FS_Singleton
<1> QED
  BY <1>4, <1>5

\* Whatever is sent again, by broadcast_tx to another node or by
\* rebroadcast_and_wait_for_receipt, no operation is executed twice: with any number
\* of nodes, faults and workers, and any order of a stream.
THEOREM ExecutedOnceHolds == Spec => []ExecutedOnce
  BY InitInv, NextInv, IInvExecutedOnce, PTL DEF Spec

\* No two transactions of a sender are executed with one nonce.
THEOREM NoncesApart == Spec => []Apart
<1>1. IInv => Apart
  BY DEF IInv
<1> QED
  BY <1>1, InitInv, NextInv, PTL DEF Spec

--------------------------------------------------------------------------------
(***************************************************************************)
(* What a run of Workload reports is true.  A record is done with the      *)
(* place of its transaction on the chain (Placed), the last phases come    *)
(* after the last batch (BatchesDone), and a comparison that succeeds had  *)
(* enough nodes to compare (Sampled).                                      *)
(***************************************************************************)

Late == {"poll", "drain", "observe", "sample", "compare", "ok"}

Views == /\ view \in [Node -> Nat] /\ Len(chain) \in Nat
         /\ \A n \in Node : view[n] <= Len(chain)
Placed == \A p \in Id : rec[p].pc = "done" =>
             rec[p].place \in 1..Len(chain) /\ chain[rec[p].place] = Tx(p)
BatchesDone ==
    /\ batch \in 1..Len(args.script)
    /\ \A b \in 1..(batch - 1) : \A p \in IdsOf(b) : rec[p].pc = "done"
    /\ phase \in Late => \A p \in Id : rec[p].pc = "done"
Sampled == phase = "compare" => samples \in SUBSET Node /\ Cardinality(samples) >= Min({2, N})
Agree(A) == /\ Cardinality(A) >= Min({2, N})
            /\ \A m, n \in A : State(m) = State(n)
            /\ Summed => \A n \in A : Complete(n)
Agreed == phase = "ok" => \E A \in SUBSET Node : Agree(A)

VInv == IInv /\ Views /\ Placed /\ BatchesDone /\ Sampled /\ Agreed

--------------------------------------------------------------------------------

\* A script is a sequence of at least one batch.
LEMMA ScriptLength ==
  ASSUME Scripted
  PROVE  Len(args.script) \in Nat \ {0} /\ DOMAIN args.script = 1..Len(args.script)
<1>1. CASE args.scenario = "counter_basic"
  <2>1. PICK b : args.script = <<b>>
    BY <1>1 DEF Scripted, Scripts, CounterBasic
  <2> QED
    BY <2>1
<1>2. CASE args.scenario = "dex_mixed"
  BY <1>2 DEF Scripted, Scripts, DexMixed
<1>3. CASE args.scenario = "parallel_probe"
  BY <1>3 DEF Scripted, Scripts, ParallelProbe
<1>4. CASE args.scenario = "transfer_fanout"
  <2>1. PICK b : args.script = <<b>>
    BY <1>4 DEF Scripted, Scripts, TransferFanout
  <2> QED
    BY <2>1
<1>5. CASE args.scenario = "contract_heavy"
  BY <1>5 DEF Scripted, Scripts, ContractHeavy
<1> QED
  BY <1>1, <1>2, <1>3, <1>4, <1>5, ScenarioAssumption DEF Scripted

\* The least of two and another number.
LEMMA MinOfTwo ==
  ASSUME NEW k \in Nat PROVE Min({2, k}) \in Nat /\ Min({2, k}) = IF k < 2 THEN k ELSE 2
<1>1. \E x \in {2, k} : \A y \in {2, k} : x <= y
  OBVIOUS
<1>2. Min({2, k}) \in {2, k} /\ \A y \in {2, k} : Min({2, k}) <= y
  BY <1>1 DEF Min
<1> QED
  BY <1>2

LEMMA NodesFinite == IsFiniteSet(Node) /\ Cardinality(Node) = N
<1>1. N \in Nat /\ N - 1 \in Int /\ N > 0
  BY NodesAssumption
<1>2. IsFiniteSet(0..(N - 1)) /\ Cardinality(0..(N - 1)) = (N - 1) - 0 + 1
  BY <1>1, FS_Interval
<1> QED
  BY <1>1, <1>2 DEF Node

\* The nodes that a comparison samples are enough.
LEMMA SampleEnough ==
  ASSUME NEW R \in SUBSET Node
  PROVE  SampleNodes(R) \in SUBSET Node /\ Cardinality(SampleNodes(R)) >= Min({2, N})
<1>1. AtTop(R) \in SUBSET Node
  BY DEF AtTop
<1>2. Cardinality(Node) >= Min({2, N})
  BY NodesFinite, MinOfTwo, NodesAssumption
<1> QED
  BY <1>1, <1>2 DEF SampleNodes

LEMMA InitVInv == Init => VInv
<1> SUFFICES ASSUME Init PROVE VInv
  OBVIOUS
<1>1. IInv
  BY InitInv
<1>2. Len(args.script) \in Nat \ {0} /\ batch = 1
  BY <1>1, ScriptLength DEF Init, IInv
<1>3. phase \in {"reserve", "broadcast"} /\ \A p \in Id : rec[p].pc = "todo"
  BY DEF Init, NewRecord
<1>4. Views
  BY DEF Init, Views
<1> QED
  BY <1>1, <1>2, <1>3, <1>4 DEF VInv, Placed, BatchesDone, Sampled, Agreed, Late

--------------------------------------------------------------------------------

\* A step that leaves a done record alone leaves it in its place on the chain.
DoneKept == \A p \in Id : rec[p].pc = "done" => rec'[p] = rec[p]
ChainGrows == /\ Len(chain) \in Nat /\ Len(chain') \in Nat /\ Len(chain') >= Len(chain)
              /\ \A i \in 1..Len(chain) : chain'[i] = chain[i]
NewlyDone == \A p \in Id : rec[p].pc # "done" /\ rec'[p].pc = "done" =>
                /\ rec'[p].place \in 1..Len(chain) /\ chain[rec'[p].place] = Tx(p)
                /\ rec'[p].nonce = rec[p].nonce

LEMMA PlacedKept ==
  ASSUME Placed, args' = args, DoneKept, ChainGrows, NewlyDone PROVE Placed'
<1>1. Id' = Id /\ \A p : P(p)' = P(p)
  BY SameIds
<1> SUFFICES ASSUME NEW p \in Id, rec'[p].pc = "done"
             PROVE  rec'[p].place \in 1..Len(chain') /\ chain'[rec'[p].place] = Tx(p)'
  BY <1>1 DEF Placed
<1>2. /\ rec'[p].nonce = rec[p].nonce
      /\ rec'[p].place \in 1..Len(chain) /\ chain[rec'[p].place] = Tx(p)
  BY DEF Placed, DoneKept, NewlyDone
<1>3. Tx(p)' = Tx(p)
  BY <1>1, <1>2 DEF Tx
<1> QED
  BY <1>2, <1>3 DEF ChainGrows

\* A step that ends neither a batch, nor a sampling, nor a comparison.
Onward == /\ args' = args /\ batch' = batch
          /\ phase' \in Late => phase \in Late
          /\ phase' = "compare" => phase = "compare" /\ samples' = samples
          /\ phase' # "ok"

LEMMA OnwardKept ==
  ASSUME VInv, Onward, DoneKept PROVE BatchesDone' /\ Sampled' /\ Agreed'
<1>1. Id' = Id /\ \A b : IdsOf(b)' = IdsOf(b)
  BY SameIds DEF Onward, IdsOf
<1>2. \A b \in 1..(batch - 1) : IdsOf(b) \subseteq Id
  <2>1. DOMAIN args.script = 1..Len(args.script) /\ Len(args.script) \in Nat
    BY ScriptLength DEF VInv, IInv
  <2> QED
    BY <2>1 DEF VInv, BatchesDone, Id
<1>3. BatchesDone'
  BY <1>1, <1>2 DEF VInv, BatchesDone, Onward, DoneKept
<1>4. Sampled' /\ Agreed'
  BY DEF VInv, Sampled, Agreed, Onward, Node
<1> QED
  BY <1>3, <1>4

--------------------------------------------------------------------------------
(* The steps.                                                                *)

\* Whatever node has a receipt, its place is on the chain.
LEMMA FoundPlaced ==
  ASSUME VInv, NEW p \in Id, Found(p) PROVE DoneKept /\ NewlyDone
<1>1. PICK n \in Node : \E i \in 1..view[n] :
        chain[i] = Tx(p) /\ \E success, message : Conclude(p, success, message, i)
  BY DEF Found
<1>2. PICK i \in 1..Len(chain) :
        chain[i] = Tx(p) /\ \E success, message : Conclude(p, success, message, i)
  BY <1>1 DEF VInv, Views
<1>3. CASE rec' = rec
  BY <1>3 DEF DoneKept, NewlyDone
<1>4. CASE rec' = [rec EXCEPT ![p] = [pc |-> "done", nonce |-> rec[p].nonce, attempt |-> 0,
                                     tried |-> {}, place |-> i]]
  <2>1. rec = [q \in Id |-> rec[q]]
    BY DEF VInv, IInv, Shaped, WellShaped
  <2>2. /\ \A q \in Id \ {p} : rec'[q] = rec[q]
        /\ rec'[p].place = i /\ rec'[p].nonce = rec[p].nonce
    BY <1>4, <2>1
  <2>3. rec[p].pc = "sent"
    BY DEF Found
  <2> QED
    BY <1>2, <2>2, <2>3 DEF DoneKept, NewlyDone
<1> QED
  BY <1>2, <1>3, <1>4 DEF Conclude

\* A transaction that was refused concludes nothing but the run: its failure is not
\* the one that its contract should have.
LEMMA RejectedFails ==
  ASSUME VInv, NEW p \in Id, Rejected(p) PROVE rec' = rec /\ phase' = "failed"
<1>1. ~Expected(p, FALSE, "CheckTx")
  BY DEF Expected
<1> QED
  BY <1>1 DEF Rejected, Conclude

\* Steps after which every record that is done was so before.
LEMMA NoneDonePlaced == ASSUME NoneDone PROVE DoneKept /\ NewlyDone
  BY DEF NoneDone, DoneKept, NewlyDone

LEMMA RecSamePlaced == ASSUME rec' = rec PROVE DoneKept /\ NewlyDone
  BY DEF DoneKept, NewlyDone

LEMMA ReservePlaced ==
  ASSUME VInv, NEW s \in Sender, ReserveStream(s)
  PROVE  Onward /\ DoneKept /\ NewlyDone /\ view' = view
<1>1. Onward /\ view' = view
  BY DEF ReserveStream, Onward, Late
<1> QED
  BY <1>1, ReserveStreamKeeps, NoneDonePlaced DEF VInv

LEMMA BroadcastPlaced ==
  ASSUME VInv, NEW p \in Id, Prepare(p) \/ ReadFails(p) \/ Send(p) \/ SendFails(p)
  PROVE  Onward /\ DoneKept /\ NewlyDone /\ view' = view
<1>1. Onward /\ view' = view
  BY DEF Prepare, ReadFails, Send, SendFails, SendTurn, Fail, netVars, Onward, Late
<1>2. CASE Prepare(p) \/ Send(p)
  BY <1>1, <1>2, PrepareKeeps, SendKeeps, NoneDonePlaced DEF VInv
<1>3. CASE ReadFails(p) \/ SendFails(p)
  BY <1>1, <1>3, RecSamePlaced DEF ReadFails, SendFails, Fail
<1> QED
  BY <1>2, <1>3

LEMMA ResolvePlaced ==
  ASSUME VInv, NEW p \in Id,
         Rejected(p) \/ Found(p) \/ TimedOut(p) \/ Rebroadcast(p) \/ NotFound(p)
  PROVE  Onward /\ DoneKept /\ NewlyDone /\ view' = view
<1>1. view' = view /\ args' = args /\ batch' = batch /\ phase = "resolve"
  BY DEF Rejected, Found, TimedOut, Rebroadcast, NotFound, ResolveTurn, Fail, netVars
<1>2. phase' \in {"resolve", "failed"}
  BY <1>1, RejectedFails
     DEF Found, Conclude, TimedOut, Rebroadcast, NotFound, Fail
<1>3. Onward
  BY <1>1, <1>2 DEF Onward, Late
<1>4. CASE Rejected(p) \/ NotFound(p)
  BY <1>1, <1>3, <1>4, RejectedFails, RecSamePlaced DEF NotFound, Fail
<1>5. CASE Found(p)
  BY <1>1, <1>3, <1>5, FoundPlaced
<1>6. CASE TimedOut(p) \/ Rebroadcast(p)
  BY <1>1, <1>3, <1>6, TimedOutKeeps, RebroadcastKeeps, NoneDonePlaced DEF VInv
<1> QED
  BY <1>4, <1>5, <1>6

LEMMA WaitPlaced ==
  ASSUME VInv,
         BatchSent \/ PollNode \/ Polled \/ Drained \/ WaitFails \/ Observe \/ CompareAgain
  PROVE  Onward /\ DoneKept /\ NewlyDone /\ view' = view
<1>1. rec' = rec /\ view' = view
  BY DEF BatchSent, PollNode, Polled, Drained, WaitFails, Observe, CompareAgain, Fail, netVars
<1>2. Onward
  BY DEF BatchSent, PollNode, Polled, Drained, WaitFails, Observe, CompareAgain, Fail, Onward, Late
<1> QED
  BY <1>1, <1>2, RecSamePlaced

\* All batches are done when the last one is.
LEMMA BatchDoneKept == ASSUME VInv, BatchDone PROVE BatchesDone' /\ Sampled' /\ Agreed'
<1>1. Id' = Id /\ rec' = rec /\ args' = args /\ \A b : IdsOf(b)' = IdsOf(b)
  BY SameIds DEF BatchDone, IdsOf
<1>2. DOMAIN args.script = 1..Len(args.script) /\ Len(args.script) \in Nat
  BY ScriptLength DEF VInv, IInv
<1>3. \A b \in 1..batch : \A p \in IdsOf(b) : rec[p].pc = "done"
  BY <1>2 DEF BatchDone, Batch, VInv, BatchesDone
<1>4. phase' \notin {"compare", "ok"}
  BY DEF BatchDone
<1>5. CASE batch < Len(args.script)
  <2>1. batch' = batch + 1 /\ phase' \notin Late
    BY <1>5 DEF BatchDone, Late
  <2> QED
    BY <1>1, <1>2, <1>3, <1>4, <1>5, <2>1 DEF VInv, BatchesDone, Sampled, Agreed
<1>6. CASE ~(batch < Len(args.script))
  <2>1. batch' = batch /\ batch = Len(args.script)
    BY <1>2, <1>6 DEF BatchDone, VInv, BatchesDone
  <2>2. \A p \in Id : rec[p].pc = "done"
    BY <1>2, <1>3, <2>1 DEF Id
  <2> QED
    BY <1>1, <1>2, <1>3, <1>4, <2>1, <2>2 DEF VInv, BatchesDone, Sampled, Agreed
<1> QED
  BY <1>5, <1>6

LEMMA SampleKept == ASSUME VInv, Sample PROVE BatchesDone' /\ Sampled' /\ Agreed'
<1>1. Id' = Id /\ rec' = rec /\ args' = args /\ batch' = batch /\ \A b : IdsOf(b)' = IdsOf(b)
  BY SameIds DEF Sample, IdsOf
<1>2. phase = "sample" /\ phase' = "compare"
  BY DEF Sample
<1>3. PICK R \in SUBSET Node : samples' = SampleNodes(R)
  BY DEF Sample
<1>4. Sampled'
  BY <1>3, SampleEnough DEF Sampled, Node
<1>5. BatchesDone'
  BY <1>1, <1>2 DEF VInv, BatchesDone, Late
<1> QED
  BY <1>2, <1>4, <1>5 DEF Agreed

\* The nodes that a comparison that succeeds has compared are enough, and alike.
LEMMA CompareKept == ASSUME VInv, Compare PROVE BatchesDone' /\ Sampled' /\ Agreed'
<1>1. /\ Id' = Id /\ rec' = rec /\ args' = args /\ batch' = batch
      /\ chain' = chain /\ view' = view /\ \A b : IdsOf(b)' = IdsOf(b)
  BY SameIds DEF Compare, IdsOf
<1>2. PICK A \in SUBSET samples :
        phase = "compare" /\ phase' = IF Match(A) /\ Correct(A) THEN "ok" ELSE "failed"
  BY DEF Compare
<1>3. BatchesDone'
  BY <1>1, <1>2 DEF VInv, BatchesDone, Late
<1>4. samples \in SUBSET Node /\ Cardinality(samples) >= Min({2, N})
  BY <1>2 DEF VInv, Sampled
<1>5. CASE Match(A) /\ Correct(A)
  <2>1. IsFiniteSet(samples) /\ IsFiniteSet(A)
    BY <1>4, NodesFinite, FS_Subset
  <2>2. Cardinality(samples) \in Nat /\ Cardinality(A) \in Nat
    BY <2>1, FS_CardinalityType
  <2>3. Cardinality(A) >= Min({2, N})
    BY <1>4, <1>5, <2>2, MinOfTwo, NodesAssumption DEF Match
  <2>4. Agree(A)
    BY <1>5, <2>3 DEF Agree, Match, Correct
  <2>5. \A n : State(n)' = State(n) /\ Complete(n)' = Complete(n)
    BY <1>1 DEF State, Executed, Complete
  <2>6. Agree(A)'
    BY <1>1, <2>4, <2>5 DEF Agree, Summed, Node
  <2> QED
    BY <1>2, <1>3, <1>4, <1>5, <2>6 DEF Agreed, Sampled
<1>6. CASE ~(Match(A) /\ Correct(A))
  BY <1>2, <1>3, <1>6 DEF Agreed, Sampled
<1> QED
  BY <1>5, <1>6

\* What the nodes do leaves the records, and what the chain has.
LEMMA NetStepPlaced ==
  ASSUME VInv, phase \notin Final, NetStep, UNCHANGED runVars
  PROVE  Onward /\ DoneKept /\ NewlyDone /\ ChainGrows /\ Views'
<1>1. Onward /\ DoneKept /\ NewlyDone
  BY RecSamePlaced DEF runVars, Onward, Final
<1>2. PICK n \in Node : Execute(n) \/ CatchUp(n) \/ Restart(n) \/ \E m \in Node : Gossip(n, m)
  BY DEF NetStep
<1>3. chain \in Seq(Ledger) /\ view \in [Node -> Nat] /\ \A m \in Node : view[m] <= Len(chain)
  BY DEF VInv, IInv, Shaped, Views
<1>4. CASE Execute(n)
  <2>1. PICK t \in pool[n] : chain' = Append(chain, t)
    BY <1>4 DEF Execute
  <2>2. chain \in Seq(Ledger \cup {t})
    BY <1>3
  <2>3. ChainGrows /\ Len(chain') = Len(chain) + 1
    BY <2>1, <2>2 DEF ChainGrows
  <2>4. view' = [view EXCEPT ![n] = @ + 1] /\ view[n] = Len(chain)
    BY <1>4 DEF Execute
  <2> QED
    BY <1>1, <1>3, <2>3, <2>4 DEF Views, Node, ChainGrows
<1>5. CASE CatchUp(n)
  <2>1. view' = [view EXCEPT ![n] = @ + 1] /\ view[n] < Len(chain) /\ chain' = chain
    BY <1>5 DEF CatchUp
  <2> QED
    BY <1>1, <1>3, <2>1 DEF Views, Node, ChainGrows
<1>6. CASE Restart(n) \/ \E m \in Node : Gossip(n, m)
  <2>1. chain' = chain /\ view' = view
    BY <1>6 DEF Restart, Gossip
  <2>2. Len(chain) \in Nat
    BY <1>3
  <2> QED
    BY <1>1, <1>3, <2>1, <2>2 DEF Views, Node, ChainGrows
<1> QED
  BY <1>2, <1>4, <1>5, <1>6

LEMMA VInvNext == VInv /\ [Next]_vars => VInv'
<1> SUFFICES ASSUME VInv, [Next]_vars PROVE VInv'
  OBVIOUS
<1>1. IInv'
  BY NextInv DEF VInv
<1>2. ASSUME Onward, DoneKept, NewlyDone, ChainGrows, Views' PROVE VInv'
  BY <1>1, <1>2, PlacedKept, OnwardKept DEF VInv, Onward
<1>3. ASSUME RunStep, view' = view PROVE ChainGrows /\ Views'
  BY <1>3, RunStepKeeps DEF VInv, Views, Keeps, ChainGrows, Node
<1>4. ASSUME view' = view, rec' = rec, args' = args, RunStep, BatchesDone' /\ Sampled' /\ Agreed'
      PROVE  VInv'
  BY <1>1, <1>3, <1>4, RecSamePlaced, PlacedKept DEF VInv
<1>5. CASE phase \notin Final /\ NetStep /\ UNCHANGED runVars
  BY <1>2, <1>5, NetStepPlaced
<1>6. CASE RunStep
  <2>1. ASSUME NEW s \in Sender, ReserveStream(s) PROVE VInv'
    BY <1>2, <1>3, <1>6, <2>1, ReservePlaced
  <2>2. ASSUME NEW p \in Id, Prepare(p) \/ ReadFails(p) \/ Send(p) \/ SendFails(p) PROVE VInv'
    BY <1>2, <1>3, <1>6, <2>2, BroadcastPlaced
  <2>3. ASSUME NEW p \in Id,
               Rejected(p) \/ Found(p) \/ TimedOut(p) \/ Rebroadcast(p) \/ NotFound(p)
        PROVE  VInv'
    BY <1>2, <1>3, <1>6, <2>3, ResolvePlaced
  <2>4. ASSUME BatchSent \/ PollNode \/ Polled \/ Drained \/ WaitFails \/ Observe \/ CompareAgain
        PROVE  VInv'
    BY <1>2, <1>3, <1>6, <2>4, WaitPlaced
  <2>5. CASE BatchDone
    BY <1>4, <1>6, <2>5, BatchDoneKept DEF BatchDone, netVars
  <2>6. CASE Sample
    BY <1>4, <1>6, <2>6, SampleKept DEF Sample
  <2>7. CASE Compare
    BY <1>4, <1>6, <2>7, CompareKept DEF Compare
  <2> QED
    BY <1>6, <2>1, <2>2, <2>3, <2>4, <2>5, <2>6, <2>7 DEF RunStep
<1>7. CASE UNCHANGED vars
  <2>1. Id' = Id /\ \A n : State(n)' = State(n) /\ Complete(n)' = Complete(n)
    BY <1>7, SameIds DEF vars, netVars, runVars, State, Complete, Executed
  <2>2. Views' /\ Placed' /\ Sampled'
    BY <1>7, SameIds DEF VInv, vars, netVars, runVars, Views, Placed, Sampled, Tx, Node
  <2>3. BatchesDone'
    BY <1>7, SameIds DEF VInv, vars, runVars, BatchesDone, IdsOf
  <2>4. Agreed'
    BY <1>7, <2>1 DEF VInv, vars, runVars, Agreed, Agree, Summed, Node
  <2> QED
    BY <1>1, <2>2, <2>3, <2>4 DEF VInv
<1> QED
  BY <1>5, <1>6, <1>7 DEF Next

LEMMA VInvVerdict == VInv => VerdictTrue
<1> SUFFICES ASSUME VInv, phase = "ok" PROVE VerdictTrue
  BY DEF VerdictTrue
<1>1. \E A \in SUBSET Node : Agree(A)
  BY DEF VInv, Agreed
<1>2. ASSUME NEW p \in Id
      PROVE  Places(p) = {rec[p].place} /\ chain[rec[p].place] = Tx(p)
  <2>1. rec[p].place \in 1..Len(chain) /\ chain[rec[p].place] = Tx(p)
    BY DEF VInv, BatchesDone, Placed, Late
  <2>2. p # 0
    BY IdsPositive DEF VInv, IInv
  <2>3. \A i \in Places(p) : i \in 1..Len(chain) /\ chain[i] = Tx(p)
    BY <2>2 DEF Places, VInv, IInv, ChainGenuine, Ledger, Genuine, Earlier
  <2>4. \A i \in Places(p) : i = rec[p].place
    BY <2>1, <2>3 DEF VInv, IInv, Apart
  <2>5. rec[p].place \in Places(p)
    BY <2>1 DEF Places, Tx
  <2> QED
    BY <2>1, <2>4, <2>5
<1> QED
  BY <1>1, <1>2 DEF VerdictTrue, Agree

\* When the run reports success, whatever the nodes did meanwhile, each of its
\* transactions is on the chain once, where its receipt says, and as many nodes as are
\* compared by default have one state, complete where the scenario knows the sums.
THEOREM VerdictHolds == Spec => []VerdictTrue
  BY InitVInv, VInvNext, VInvVerdict, PTL DEF Spec

--------------------------------------------------------------------------------
(* The streams.  What is to be shown is that while no request has failed and *)
(* no node has restarted, the node a transaction of a stream goes to expects *)
(* just its nonce.  Once the nonces of a wallet are reserved they follow on  *)
(* those of the chain in the order of the lane (Dealt), the records that     *)
(* were sent are the first of the lane, and the node that the wallet stays   *)
(* with knows these and no other transactions of it, as executed or as       *)
(* pooled but not both (Knows).  Before that, nothing of the wallet has been *)
(* sent (Unsent), so that every node at the top of the chain answers with    *)
(* the same nonce.  A node that catches up drops the pooled transactions     *)
(* that the block has made stale: none of the lane is lost, because the      *)
(* nonces of a sender ascend on the chain without a gap (Numbered).          *)

(* The scripts: batches are joined, and the wallets of a stream have no other *)
(* batch.                                                                    *)

LEMMA JoinOne == ASSUME NEW x PROVE FlattenSeq(<<x>>) = x
<1> DEFINE seqs == <<x>>
           IsJoin(f) == f = [i \in 1..Len(seqs) |-> IF i = 1 THEN seqs[i] ELSE f[i - 1] \o seqs[i]]
<1>1. FlattenSeq(seqs) = (CHOOSE f : IsJoin(f))[1]
  BY DEF FlattenSeq
<1>2. Len(seqs) = 1 /\ seqs[1] = x
  OBVIOUS
<1> HIDE DEF seqs
<1>3. PICK f : f = [i \in 1..1 |-> x]
  OBVIOUS
<1>4. IsJoin(f)
  <2>1. \A i \in 1..1 : i = 1
    OBVIOUS
  <2> QED
    BY <1>2, <1>3, <2>1
<1>5. PICK g : g = (CHOOSE h : IsJoin(h)) /\ IsJoin(g)
  BY <1>4
<1>6. g[1] = x
  BY <1>2, <1>5
<1> QED
  BY <1>1, <1>5, <1>6 DEF seqs

LEMMA JoinTwo == ASSUME NEW x, NEW y PROVE FlattenSeq(<<x, y>>) = x \o y
<1> DEFINE seqs == <<x, y>>
           IsJoin(f) == f = [i \in 1..Len(seqs) |-> IF i = 1 THEN seqs[i] ELSE f[i - 1] \o seqs[i]]
<1>1. FlattenSeq(seqs) = (CHOOSE f : IsJoin(f))[2]
  BY DEF FlattenSeq
<1>2. Len(seqs) = 2 /\ seqs[1] = x /\ seqs[2] = y
  OBVIOUS
<1> HIDE DEF seqs
<1>3. PICK f : f = [i \in 1..2 |-> IF i = 1 THEN x ELSE x \o y]
  OBVIOUS
<1>4. IsJoin(f)
  <2>1. \A i \in 1..2 : i = 1 \/ i = 2
    OBVIOUS
  <2>2. f[1] = x /\ f[2] = x \o y
    BY <1>3
  <2>3. \A i \in 1..2 : (IF i = 1 THEN x ELSE x \o y) = (IF i = 1 THEN seqs[i] ELSE f[i - 1] \o seqs[i])
    BY <1>2, <2>1, <2>2
  <2> QED
    BY <1>2, <1>3, <2>3
<1>5. PICK g : g = (CHOOSE h : IsJoin(h)) /\ IsJoin(g)
  BY <1>4
<1>6. g = [i \in 1..2 |-> IF i = 1 THEN seqs[i] ELSE g[i - 1] \o seqs[i]]
  BY <1>2, <1>5
<1>7. (CHOOSE h : IsJoin(h)) = g
  BY <1>5
<1> HIDE DEF IsJoin
<1>8. g[1] = x
  BY <1>2, <1>6
<1>9. g[2] = g[1] \o y
  <2>1. 2 \in 1..2 /\ 2 - 1 = 1 /\ 2 # 1
    OBVIOUS
  <2>2. g[2] = IF 2 = 1 THEN seqs[2] ELSE g[2 - 1] \o seqs[2]
    BY <1>6, <2>1
  <2> QED
    BY <1>2, <2>1, <2>2
<1> QED
  BY <1>1, <1>7, <1>8, <1>9 DEF seqs

\* The plan of an operation is the one with its id.
LEMMA PlanFound ==
  ASSUME NEW i \in DOMAIN Plans
  PROVE  \E j \in DOMAIN Plans : P(Plans[i].id) = Plans[j] /\ Plans[j].id = Plans[i].id
  BY DEF P

SendersApart(b) ==
    /\ IdsOf(b) \subseteq Nat
    /\ \A c \in DOMAIN args.script \ {b} : IdsOf(b) \cap IdsOf(c) = {}
    /\ \A p \in IdsOf(b) : /\ P(p).sender \in Sender
                           /\ \A q \in Id : P(q).sender = P(p).sender => q \in IdsOf(b)

\* The wallets of a batch that is a stream send nothing in any other batch.
LEMMA StreamsApart ==
  ASSUME Scripted, NEW b \in DOMAIN args.script, StreamBatch(b) PROVE SendersApart(b)
<1>1. CASE args.scenario = "transfer_fanout"
  <2> DEFINE plans == <<Plan(1, 1, "write", 0), Plan(2, 1, "write", 0), Plan(3, 2, "write", 1)>>
             seq == [k \in 1..3 |-> plans[Shuffle[k]]]
  <2>1. args.script = <<seq>>
    BY <1>1 DEF Scripted, Scripts, TransferFanout
  <2>2. \A k \in 1..3 : Shuffle[k] \in 1..3
    BY ShuffleAssumption
  <2>3. \A j \in 1..3 : plans[j].id \in Nat /\ plans[j].sender \in Sender
    BY DEF Plan, Sender
  <2>4. \A k \in 1..3 : seq[k].id \in Nat /\ seq[k].sender \in Sender
    BY <2>2, <2>3
  <2>5. DOMAIN seq = 1..3
    OBVIOUS
  <2> HIDE DEF seq
  <2>6. Plans = seq
    BY <2>1, JoinOne DEF Plans
  <2>7. DOMAIN args.script = {1} /\ b = 1 /\ args.script[1] = seq
    BY <2>1
  <2>8. IdsOf(1) = {seq[k].id : k \in 1..3} /\ Id = IdsOf(1)
    BY <2>5, <2>7 DEF Id, IdsOf
  <2>9. \A p \in IdsOf(1) : P(p).sender \in Sender
    BY <2>4, <2>5, <2>6, <2>8, PlanFound
  <2> QED
    BY <2>4, <2>7, <2>8, <2>9 DEF SendersApart
<1>2. CASE args.scenario = "contract_heavy"
  <2> DEFINE deploy == Plan(1, 2, "write", 0)
             x == Plan(3, 1, "write", 0)
             y == Plan(2, 1, "write", 0)
  <2>1. args.script = << <<deploy>>, <<x, y>> >> /\ b = 2
    BY <1>2 DEF Scripted, Scripts, ContractHeavy, StreamBatch
  <2>2. /\ deploy.id = 1 /\ deploy.sender = 2
        /\ x.id = 3 /\ x.sender = 1 /\ y.id = 2 /\ y.sender = 1
    BY DEF Plan
  <2> HIDE DEF deploy, x, y
  <2>4. IdsOf(1) = {1} /\ IdsOf(2) = {2, 3} /\ DOMAIN args.script = {1, 2}
    <3>1. args.script[1] = <<deploy>> /\ args.script[2] = <<x, y>>
      BY <2>1
    <3>2. DOMAIN args.script[1] = {1} /\ DOMAIN args.script[2] = {1, 2}
      BY <3>1
    <3> QED
      BY <2>1, <2>2, <3>1, <3>2 DEF IdsOf
  <2>5. Id = {1, 2, 3}
    BY <2>4 DEF Id
  <2>6. DOMAIN Plans = {1, 2, 3} /\ Plans[1] = deploy /\ Plans[2] = x /\ Plans[3] = y
    <3> DEFINE All == {deploy, x, y}
    <3>1. PICK u : u = <<deploy>>
      OBVIOUS
    <3>2. PICK v : v = <<x, y>>
      OBVIOUS
    <3>3. u \in Seq(All) /\ Len(u) = 1 /\ u[1] = deploy
      BY <3>1
    <3>4. v \in Seq(All) /\ Len(v) = 2 /\ v[1] = x /\ v[2] = y
      BY <3>2
    <3>5. Plans = u \o v
      BY <2>1, <3>1, <3>2, JoinTwo DEF Plans
    <3> HIDE DEF All
    <3>6. PICK w : w = u \o v
      OBVIOUS
    <3>7. /\ w \in Seq(All) /\ Len(w) = 1 + 2
          /\ \A i \in 1..(1 + 2) : w[i] = IF i <= 1 THEN u[i] ELSE v[i - 1]
      <4>1. /\ w \in Seq(All) /\ Len(w) = Len(u) + Len(v)
            /\ \A i \in 1..(Len(u) + Len(v)) : w[i] = IF i <= Len(u) THEN u[i] ELSE v[i - Len(u)]
        BY <3>3, <3>4, <3>6, ConcatProperties
      <4> QED
        BY <3>3, <3>4, <4>1
    <3>8. w[1] = deploy /\ w[2] = x /\ w[3] = y
      BY <3>3, <3>4, <3>7
    <3>9. DOMAIN w = {1, 2, 3}
      BY <3>7
    <3> QED
      BY <3>5, <3>6, <3>7, <3>8, <3>9
  <2>7. P(1) = deploy /\ P(3) = x /\ P(2) = y
    <3>1. P(1).id = 1 /\ P(1) \in {deploy, x, y}
      BY <2>2, <2>6, PlanFound
    <3>2. P(3).id = 3 /\ P(3) \in {deploy, x, y}
      BY <2>2, <2>6, PlanFound
    <3>3. P(2).id = 2 /\ P(2) \in {deploy, x, y}
      BY <2>2, <2>6, PlanFound
    <3> QED
      BY <2>2, <3>1, <3>2, <3>3
  <2> QED
    BY <2>1, <2>2, <2>4, <2>5, <2>7 DEF SendersApart, Sender
<1> QED
  BY <1>1, <1>2 DEF StreamBatch

\* The chain starts with the transaction of an earlier run; the nonces of a sender have
\* no gap, neither in the order of the blocks nor as a set; some node is at the top.
Begun == Len(chain) >= 1 /\ chain[1] = Earlier
Numbered ==
    \A i \in 1..Len(chain) : \A k \in 0..(chain[i].nonce - 1) :
        \E j \in 1..(i - 1) : chain[j].sender = chain[i].sender /\ chain[j].nonce = k
Filled ==
    \A t \in Ledger : \A k \in 0..(Cardinality(From(Ledger, t.sender)) - 1) :
        \E u \in From(Ledger, t.sender) : u.nonce = k
Tall == \E n \in Node : view[n] = Len(chain)
Ordered == Begun /\ Numbered /\ Filled /\ Tall

LEMMA ExecuteIs ==
  ASSUME VInv, NEW n \in Node, Execute(n)
  PROVE  \E t \in pool[n] :
           /\ Genuine(t) /\ t \notin Ledger
           /\ t.nonce \in Nat /\ t.nonce = Cardinality(From(Ledger, t.sender))
           /\ Len(chain') = Len(chain) + 1 /\ chain'[Len(chain) + 1] = t
           /\ \A i \in 1..Len(chain) : chain'[i] = chain[i]
           /\ Ledger' = Ledger \cup {t}
           /\ pool' = [pool EXCEPT ![n] = @ \ {t}]
           /\ view[n] = Len(chain) /\ view' = [view EXCEPT ![n] = @ + 1]
           /\ Executed(n) = Ledger
<1>1. PICK t \in pool[n] : /\ t.nonce = Cardinality(From(Executed(n), t.sender))
                           /\ chain' = Append(chain, t)
                           /\ pool' = [pool EXCEPT ![n] = @ \ {t}]
  BY DEF Execute
<1>2. /\ chain \in Seq(Ledger) /\ IsFiniteSet(Ledger)
      /\ view[n] = Len(chain) /\ view' = [view EXCEPT ![n] = @ + 1] /\ Executed(n) = Ledger
  BY DEF Execute, Executed, Ledger, VInv, IInv, Shaped
<1>3. /\ Len(chain) \in Nat /\ Len(chain') = Len(chain) + 1 /\ chain'[Len(chain) + 1] = t
      /\ \A i \in 1..Len(chain) : chain'[i] = chain[i]
  <2>1. chain \in Seq(Ledger \cup {t})
    BY <1>2
  <2> QED
    BY <1>1, <2>1
<1>4. Ledger' = Ledger \cup {t}
  BY <1>3 DEF Ledger
<1>5. IsFiniteSet(From(Ledger, t.sender))
  BY <1>2, FS_Subset DEF From
<1>6. t.nonce \in Nat /\ t.nonce = Cardinality(From(Ledger, t.sender))
  BY <1>1, <1>2, <1>5, FS_CardinalityType
<1>7. t \notin Ledger
  BY <1>6 DEF VInv, IInv, Counted
<1>8. Genuine(t)
  BY <1>1 DEF VInv, IInv, PoolsGenuine
<1> QED
  BY <1>1, <1>2, <1>3, <1>4, <1>6, <1>7, <1>8

\* A block that adds the next nonce of its sender leaves no gap.
LEMMA ExecuteOrdered ==
  ASSUME VInv, Ordered, NEW n \in Node, Execute(n) PROVE Ordered'
<1>1. PICK t \in pool[n] :
        /\ t \notin Ledger /\ t.nonce \in Nat /\ t.nonce = Cardinality(From(Ledger, t.sender))
        /\ Len(chain') = Len(chain) + 1 /\ chain'[Len(chain) + 1] = t
        /\ \A i \in 1..Len(chain) : chain'[i] = chain[i]
        /\ Ledger' = Ledger \cup {t}
        /\ view[n] = Len(chain) /\ view' = [view EXCEPT ![n] = @ + 1]
  BY ExecuteIs
<1>2. Len(chain) \in Nat /\ view \in [Node -> Nat] /\ IsFiniteSet(Ledger)
      /\ \A u \in Ledger : u.nonce \in Nat
  BY DEF VInv, Views, IInv, Counted, Shaped
<1>3. \A k \in 0..(t.nonce - 1) : \E u \in From(Ledger, t.sender) : u.nonce = k
  <2>1. CASE From(Ledger, t.sender) = {}
    BY <1>1, <2>1, FS_EmptySet
  <2>2. CASE From(Ledger, t.sender) # {}
    BY <1>1, <2>2 DEF Ordered, Filled, From
  <2> QED
    BY <2>1, <2>2
<1>4. Begun'
  BY <1>1, <1>2 DEF Ordered, Begun
<1>5. Numbered'
  <2> SUFFICES ASSUME NEW i \in 1..(Len(chain) + 1), NEW k \in 0..(chain'[i].nonce - 1)
               PROVE  \E j \in 1..(i - 1) : chain'[j].sender = chain'[i].sender /\ chain'[j].nonce = k
    BY <1>1 DEF Numbered
  <2>1. CASE i \in 1..Len(chain)
    <3>1. chain'[i] = chain[i]
      BY <1>1, <2>1
    <3>2. PICK j \in 1..(i - 1) : chain[j].sender = chain[i].sender /\ chain[j].nonce = k
      BY <2>1, <3>1 DEF Ordered, Numbered
    <3>3. chain'[j] = chain[j]
      BY <1>1, <1>2, <2>1
    <3> QED
      BY <3>1, <3>2, <3>3
  <2>2. CASE i = Len(chain) + 1
    <3>1. chain'[i] = t
      BY <1>1, <2>2
    <3>2. PICK u \in From(Ledger, t.sender) : u.nonce = k
      BY <1>3, <3>1
    <3>3. PICK j \in 1..Len(chain) : chain[j] = u
      BY <3>2 DEF From, Ledger
    <3>4. j \in 1..(i - 1) /\ chain'[j] = u /\ u.sender = t.sender
      BY <1>1, <1>2, <2>2, <3>2, <3>3 DEF From
    <3> QED
      BY <3>1, <3>2, <3>4
  <2> QED
    BY <1>2, <2>1, <2>2
<1>6. Filled'
  <2> DEFINE L == Ledger \cup {t}
  <2> SUFFICES ASSUME NEW u \in L, NEW k \in 0..(Cardinality(From(L, u.sender)) - 1)
               PROVE  \E w \in From(L, u.sender) : w.nonce = k
    BY <1>1 DEF Filled, From
  <2>1. CASE u.sender = t.sender
    <3>1. From(L, u.sender) = From(Ledger, t.sender) \cup {t}
      BY <2>1 DEF From
    <3>0. t \notin From(Ledger, t.sender) /\ Cardinality(From(Ledger, t.sender)) = t.nonce
      BY <1>1 DEF From
    <3>2. IsFiniteSet(From(Ledger, t.sender))
      BY <1>2, FS_Subset DEF From
    <3>3. Cardinality(From(Ledger, t.sender) \cup {t}) = t.nonce + 1
      BY <3>0, <3>2, FS_AddElement
    <3>4. Cardinality(From(L, u.sender)) = t.nonce + 1
      BY <3>1, <3>3, Zenon
    <3>5. k = t.nonce \/ k \in 0..(t.nonce - 1)
      BY <1>1, <3>4
    <3> QED
      BY <1>3, <3>1, <3>5
  <2>2. CASE u.sender # t.sender
    <3>1. From(L, u.sender) = From(Ledger, u.sender) /\ u \in Ledger
      BY <2>2 DEF From
    <3>2. k \in 0..(Cardinality(From(Ledger, u.sender)) - 1)
      BY <3>1
    <3> QED
      BY <3>1, <3>2 DEF Ordered, Filled
  <2> QED
    BY <2>1, <2>2
<1>7. Tall'
  <2>1. view'[n] = Len(chain) + 1
    BY <1>1, <1>2
  <2> QED
    BY <1>1, <2>1 DEF Tall
<1> QED
  BY <1>4, <1>5, <1>6, <1>7 DEF Ordered

\* Nor does any step that adds no block, for some node stays at the top.
LEMMA StillOrdered ==
  ASSUME VInv, Ordered, chain' = chain,
         view' = view \/ \E n \in Node : view[n] < Len(chain) /\ view' = [view EXCEPT ![n] = @ + 1]
  PROVE  Ordered'
<1>1. Ledger' = Ledger /\ \A s : From(Ledger, s)' = From(Ledger, s)
  BY DEF Ledger, From
<1>2. Begun' /\ Numbered' /\ Filled'
  BY <1>1 DEF Ordered, Begun, Numbered, Filled
<1>3. Tall'
  <2>1. PICK m \in Node : view[m] = Len(chain)
    BY DEF Ordered, Tall
  <2>2. view'[m] = view[m]
    BY <2>1 DEF VInv, Views
  <2> QED
    BY <2>1, <2>2 DEF Tall
<1> QED
  BY <1>2, <1>3 DEF Ordered

LEMMA InitOrdered == Init => Ordered
<1> SUFFICES ASSUME Init PROVE Ordered
  OBVIOUS
<1>1. chain = <<Earlier>> /\ \E n \in Node : view[n] = 1
  BY DEF Init
<1>2. Len(chain) = 1 /\ chain[1] = Earlier /\ Ledger = {Earlier}
  BY <1>1 DEF Ledger
<1>3. Earlier.nonce = 0 /\ Earlier.sender = 1
  BY DEF Earlier
<1>4. From(Ledger, 1) = {Earlier} /\ Cardinality({Earlier}) = 1
  BY <1>2, <1>3, FS_Singleton DEF From
<1>5. Begun /\ Tall
  BY <1>1, <1>2 DEF Begun, Tall
<1>6. Numbered
  BY <1>2, <1>3 DEF Numbered
<1>7. Filled
  <2>1. \A t \in Ledger : Cardinality(From(Ledger, t.sender)) = 1 /\ Earlier \in From(Ledger, t.sender)
    BY <1>2, <1>3, <1>4
  <2>2. \A k \in 0..(1 - 1) : k = Earlier.nonce
    BY <1>3
  <2> QED
    BY <2>1, <2>2 DEF Filled
<1> QED
  BY <1>5, <1>6, <1>7 DEF Ordered

\* A lane: what the chain has of a sender before the run, the operations of the run that
\* are the sender's, those that were sent, and those that come before one of them.
Base(s) == From({Earlier}, s)
Mine(s) == {p \in Id : P(p).sender = s}
Sent(s) == {p \in Mine(s) : rec[p].pc = "sent"}
Below(p, s) == {q \in Mine(s) : q < p}
Waiting == {"todo", "send"}

\* No node has a transaction that was not sent.
Unsent == /\ \A t \in Ledger : t = Earlier \/ rec[t.id].pc \notin Waiting
          /\ \A n \in Node : \A t \in pool[n] : rec[t.id].pc \notin Waiting
\* A node knows of the lane just what was sent, as executed or as pooled.
Knows(n, s) ==
    /\ From(Executed(n), s) \cup From(pool[n], s) = Base(s) \cup {Tx(p) : p \in Sent(s)}
    /\ From(Executed(n), s) \cap From(pool[n], s) = {}
\* The nonces of the lane are reserved.
Dealt(s) == \A p \in Mine(s) : /\ rec[p].pc \in {"send", "sent"}
                               /\ rec[p].nonce = Cardinality(Base(s)) + Cardinality(Below(p, s))

LEMMA BaseIs ==
  ASSUME NEW s
  PROVE  /\ IsFiniteSet(Base(s)) /\ Cardinality(Base(s)) \in Nat
         /\ s = 1 => Base(s) = {Earlier} /\ Cardinality(Base(s)) = 1
         /\ s # 1 => Base(s) = {} /\ Cardinality(Base(s)) = 0
         /\ Earlier.sender = 1 /\ Earlier.nonce = 0 /\ Earlier.id = 0
<1>1. Earlier.sender = 1 /\ Earlier.nonce = 0 /\ Earlier.id = 0
  BY DEF Earlier
<1>2. CASE s = 1
  <2>1. Base(s) = {Earlier}
    BY <1>1, <1>2 DEF Base, From
  <2>2. IsFiniteSet({Earlier}) /\ Cardinality({Earlier}) = 1
    BY FS_Singleton
  <2>3. IsFiniteSet(Base(s)) /\ Cardinality(Base(s)) = 1
    BY <2>1, <2>2, Zenon
  <2> QED
    BY <1>1, <1>2, <2>1, <2>3
<1>3. CASE s # 1
  <2>1. Base(s) = {}
    BY <1>1, <1>3 DEF Base, From
  <2> QED
    BY <1>1, <1>3, <2>1, FS_EmptySet
<1> QED
  BY <1>2, <1>3

LEMMA BelowFinite ==
  ASSUME NEW s, Mine(s) \subseteq Nat, NEW p \in Mine(s)
  PROVE  IsFiniteSet(Below(p, s)) /\ Cardinality(Below(p, s)) \in Nat
<1>1. p - 1 \in Int /\ Below(p, s) \subseteq 0..(p - 1)
  BY DEF Below
<1>2. IsFiniteSet(0..(p - 1))
  BY <1>1, FS_Interval
<1>3. IsFiniteSet(Below(p, s))
  BY <1>1, <1>2, FS_Subset
<1> QED
  BY <1>3, FS_CardinalityType

\* Reserved nonces ascend with the ids of a lane.
LEMMA DealtNonces ==
  ASSUME NEW s, Mine(s) \subseteq Nat, Dealt(s)
  PROVE  /\ \A p \in Mine(s) : rec[p].nonce \in Nat /\ rec[p].nonce >= Cardinality(Base(s))
         /\ \A p, q \in Mine(s) : q < p => rec[q].nonce < rec[p].nonce
         /\ \A p, q \in Mine(s) : rec[q].nonce = rec[p].nonce => p = q
<1>1. Cardinality(Base(s)) \in Nat
  BY BaseIs
<1>2. \A p \in Mine(s) : rec[p].nonce \in Nat /\ rec[p].nonce >= Cardinality(Base(s))
  BY <1>1, BelowFinite DEF Dealt
<1>3. ASSUME NEW p \in Mine(s), NEW q \in Mine(s), q < p PROVE rec[q].nonce < rec[p].nonce
  <2>1. Below(q, s) \in SUBSET Below(p, s) /\ q \in Below(p, s) /\ q \notin Below(q, s)
    BY <1>3 DEF Below
  <2>2. IsFiniteSet(Below(p, s)) /\ IsFiniteSet(Below(q, s))
        /\ Cardinality(Below(p, s)) \in Nat /\ Cardinality(Below(q, s)) \in Nat
    BY BelowFinite
  <2>3. Cardinality(Below(q, s)) <= Cardinality(Below(p, s))
        /\ Cardinality(Below(q, s)) # Cardinality(Below(p, s))
    BY <2>1, <2>2, FS_Subset
  <2> QED
    BY <1>1, <2>2, <2>3 DEF Dealt
<1>4. \A p, q \in Mine(s) : rec[q].nonce = rec[p].nonce => p = q
  <2> SUFFICES ASSUME NEW p \in Mine(s), NEW q \in Mine(s), rec[q].nonce = rec[p].nonce, p # q PROVE FALSE
    OBVIOUS
  <2>1. p < q \/ q < p
    OBVIOUS
  <2> QED
    BY <1>2, <1>3, <2>1
<1> QED
  BY <1>2, <1>3, <1>4

\* What nodes hold of a lane has been sent.
LEMMA LaneTx ==
  ASSUME VInv, Unsent, NEW s, Dealt(s), NEW t, t.sender = s,
         t \in Ledger \/ \E n \in Node : t \in pool[n]
  PROVE  t \in Base(s) \/ \E p \in Sent(s) : t = Tx(p) /\ t.nonce = rec[p].nonce
<1>1. CASE t = Earlier
  BY <1>1 DEF Base, From
<1>2. CASE t # Earlier
  <2>1. Genuine(t)
    BY <1>2 DEF VInv, IInv, ChainGenuine, PoolsGenuine
  <2>2. t.id \in Id /\ t = Tx(t.id) /\ rec[t.id].pc \notin Waiting
    BY <1>2, <2>1 DEF Genuine, Unsent
  <2>3. t.id \in Mine(s)
    BY <2>2 DEF Tx, Mine
  <2>4. t.id \in Sent(s)
    BY <2>2, <2>3 DEF Dealt, Sent, Waiting
  <2>5. t.nonce = rec[t.id].nonce
    BY <2>2 DEF Tx
  <2> QED
    BY <2>2, <2>4, <2>5
<1> QED
  BY <1>1, <1>2

LEMMA EarlierNotPooled ==
  ASSUME VInv, NEW n \in Node PROVE Earlier \notin pool[n]
<1>1. Scripted /\ PoolsGenuine
  BY DEF VInv, IInv
<1>2. 0 \notin Id
  BY <1>1, IdsPositive
<1> QED
  BY <1>1, <1>2 DEF PoolsGenuine, Genuine, Earlier

\* What a node sees of the chain is a part of it.
LEMMA ExecutedPart ==
  ASSUME VInv, NEW n \in Node
  PROVE  /\ Executed(n) \subseteq Ledger /\ view[n] \in Nat /\ Len(chain) \in Nat /\ view[n] <= Len(chain)
         /\ \A s : From(Executed(n), s) \subseteq Ledger
  BY DEF VInv, Views, Executed, Ledger, From

\* Nothing of a lane is lost or seen twice by a node that catches up.
LEMMA CatchUpKnows ==
  ASSUME VInv, Ordered, Unsent, NEW s, Mine(s) \subseteq Nat, Dealt(s),
         NEW n \in Node, Knows(n, s), CatchUp(n)
  PROVE  From(Executed(n), s)' \cup From(pool'[n], s) = From(Executed(n), s) \cup From(pool[n], s)
         /\ From(Executed(n), s)' \cap From(pool'[n], s) = {}
<1> DEFINE v == view[n]
           t == chain[v + 1]
<1>1. v \in Nat /\ v < Len(chain) /\ Len(chain) \in Nat /\ v + 1 \in 1..Len(chain) /\ t \in Ledger
  BY ExecutedPart DEF CatchUp, Ledger
<1>2. view'[n] = v + 1 /\ chain' = chain
  BY DEF CatchUp, VInv, Views
<1>3. Executed(n)' = Executed(n) \cup {t}
  BY <1>1, <1>2 DEF Executed
<1>4. pool'[n] = {u \in pool[n] : u.sender # t.sender \/ u.nonce > t.nonce}
  <2>1. DOMAIN pool = Node
    BY DEF VInv, IInv, Shaped
  <2> QED
    BY <2>1 DEF CatchUp
<1>5. t \notin Executed(n)
  <2>1. \A i \in 1..v : chain[i] # t
    BY <1>1 DEF VInv, IInv, Apart
  <2> QED
    BY <2>1 DEF Executed
<1> HIDE DEF v, t
<1>6. CASE t.sender # s
  <2>1. From(Executed(n), s)' = From(Executed(n), s)
    BY <1>3, <1>6 DEF From
  <2>2. From(pool'[n], s) = From(pool[n], s)
    BY <1>4, <1>6 DEF From
  <2> QED
    BY <2>1, <2>2 DEF Knows
<1>7. CASE t.sender = s
  <2>1. From(Executed(n), s)' = From(Executed(n), s) \cup {t}
    BY <1>3, <1>7 DEF From
  <2>2. t \in From(pool[n], s)
    <3>1. t \in Base(s) \cup {Tx(p) : p \in Sent(s)}
      BY <1>1, <1>7, LaneTx
    <3>2. t \in From(Executed(n), s) \cup From(pool[n], s)
      BY <3>1 DEF Knows
    <3> QED
      BY <1>5, <3>2 DEF From
  <2>3. t # Earlier
    BY <2>2, EarlierNotPooled DEF From
  <2>4. PICK p \in Sent(s) : t = Tx(p) /\ t.nonce = rec[p].nonce
    BY <1>1, <1>7, <2>3, LaneTx DEF Base, From
  <2>5. ASSUME NEW u \in From(pool[n], s), u # t PROVE u.nonce > t.nonce
    <3>1. u \in pool[n] /\ u.sender = s /\ u # Earlier
      BY EarlierNotPooled DEF From
    <3>2. PICK q \in Sent(s) : u = Tx(q) /\ u.nonce = rec[q].nonce
      BY <3>1, LaneTx DEF Base, From
    <3>3. p \in Mine(s) /\ q \in Mine(s)
      BY <2>4, <3>2 DEF Sent
    <3>4. u.nonce \in Nat /\ t.nonce \in Nat /\ u.nonce >= Cardinality(Base(s))
      BY <2>4, <3>2, <3>3, DealtNonces
    <3>5. u.nonce # t.nonce
      BY <2>4, <2>5, <3>2, <3>3, DealtNonces
    <3>6. ASSUME u.nonce < t.nonce PROVE FALSE
      <4>1. u.nonce \in 0..(t.nonce - 1)
        BY <3>4, <3>6
      <4>2. PICK j \in 1..v : chain[j].sender = s /\ chain[j].nonce = u.nonce
        <5>1. PICK j \in 1..((v + 1) - 1) : chain[j].sender = t.sender /\ chain[j].nonce = u.nonce
          BY <1>1, <4>1 DEF Ordered, Numbered, t
        <5> QED
          BY <1>1, <1>7, <5>1
      <4>3. chain[j] \in Executed(n) /\ chain[j] \in Ledger
        BY <1>1, <4>2 DEF Executed, Ledger, v
      <4>4. chain[j] # Earlier
        <5>1. SUFFICES ASSUME chain[j] = Earlier PROVE FALSE
          OBVIOUS
        <5>2. s = 1 /\ u.nonce = 0
          BY <4>2, <5>1, BaseIs
        <5> QED
          BY <3>4, <5>2, BaseIs
      <4>5. PICK r \in Sent(s) : chain[j] = Tx(r) /\ chain[j].nonce = rec[r].nonce
        BY <4>2, <4>3, <4>4, LaneTx DEF Base, From
      <4>6. r \in Mine(s)
        BY <4>5 DEF Sent
      <4>7. r = q
        BY <3>2, <3>3, <4>2, <4>5, <4>6, DealtNonces
      <4>8. u \in From(Executed(n), s)
        BY <3>1, <3>2, <4>3, <4>5, <4>7 DEF From
      <4> QED
        BY <4>8 DEF Knows
    <3> QED
      BY <3>4, <3>5, <3>6
  <2>6. From(pool'[n], s) = From(pool[n], s) \ {t}
    <3>1. t.nonce \in Nat
      BY <2>4, DealtNonces DEF Sent
    <3>2. \A u \in From(pool[n], s) : u \in pool'[n] <=> u # t
      BY <1>4, <1>7, <2>5, <3>1 DEF From
    <3> QED
      BY <1>4, <3>2 DEF From
  <2> QED
    BY <2>1, <2>2, <2>6 DEF Knows
<1> QED
  BY <1>6, <1>7

\* A node that is not asked gives its lanes no transaction but in passing them on.
LEMMA KnowsKept ==
  ASSUME VInv, Ordered, Unsent, NEW s, Mine(s) \subseteq Nat, Dealt(s), NEW n \in Node, Knows(n, s),
         NEW m \in Node, Execute(m) \/ CatchUp(m) \/ \E k \in Node : Gossip(m, k)
  PROVE  /\ From(Executed(n), s)' \cup From(pool'[n], s) = From(Executed(n), s) \cup From(pool[n], s)
         /\ From(Executed(n), s)' \cap From(pool'[n], s) = {}
<1>1. /\ DOMAIN pool = Node /\ pool = [k \in Node |-> pool[k]] /\ view \in [Node -> Nat]
      /\ view[n] \in Nat /\ Len(chain) \in Nat /\ view[n] <= Len(chain)
  BY ExecutedPart DEF VInv, IInv, Shaped, Views
<1>2. From(Executed(n), s) \cap From(pool[n], s) = {}
  BY DEF Knows
<1>3. CASE Execute(m)
  <2>1. PICK t \in pool[m] :
          /\ t \notin Ledger
          /\ Len(chain') = Len(chain) + 1 /\ chain'[Len(chain) + 1] = t
          /\ \A i \in 1..Len(chain) : chain'[i] = chain[i]
          /\ pool' = [pool EXCEPT ![m] = @ \ {t}]
          /\ view[m] = Len(chain) /\ view' = [view EXCEPT ![m] = @ + 1]
    BY <1>3, ExecuteIs
  <2>2. CASE n = m
    <3>1. view'[n] = Len(chain) + 1 /\ pool'[n] = pool[n] \ {t}
      BY <1>1, <2>1, <2>2
    <3>2. Executed(n)' = Executed(n) \cup {t}
      BY <1>1, <2>1, <2>2, <3>1 DEF Executed
    <3>3. From(Executed(n), s)' = From(Executed(n) \cup {t}, s)
      BY <3>2 DEF From
    <3> QED
      BY <1>2, <2>1, <2>2, <3>1, <3>3 DEF From
  <2>3. CASE n # m
    <3>1. view'[n] = view[n] /\ pool'[n] = pool[n]
      BY <1>1, <2>1, <2>3
    <3>2. Executed(n)' = Executed(n)
      BY <1>1, <2>1, <3>1 DEF Executed
    <3> QED
      BY <1>2, <3>1, <3>2 DEF From
  <2> QED
    BY <2>2, <2>3
<1>4. CASE CatchUp(m)
  <2>1. CASE n = m
    BY <1>4, <2>1, CatchUpKnows
  <2>2. CASE n # m
    <3>1. chain' = chain /\ view'[n] = view[n] /\ pool'[n] = pool[n]
      BY <1>1, <1>4, <2>2 DEF CatchUp
    <3>2. Executed(n)' = Executed(n)
      BY <3>1 DEF Executed
    <3> QED
      BY <1>2, <3>1, <3>2 DEF From
  <2> QED
    BY <2>1, <2>2
<1>5. CASE \E k \in Node : Gossip(m, k)
  <2>1. PICK k \in Node, t \in pool[m] :
          /\ "accepted" \in CheckTx(k, t) /\ Admit(k, t, "accepted")
          /\ chain' = chain /\ view' = view
    BY <1>5 DEF Gossip
  <2>2. Executed(n)' = Executed(n) /\ From(Executed(n), s)' = From(Executed(n), s)
    BY <2>1 DEF Executed, From
  <2>3. pool' = [pool EXCEPT ![k] = @ \cup {t}]
    BY <2>1 DEF Admit
  <2>4. t \notin Executed(k) \cup pool[k]
    BY <2>1 DEF CheckTx
  <2>5. CASE n = k /\ t.sender = s
    <3>1. t \in Base(s) \cup {Tx(p) : p \in Sent(s)}
      BY <2>5, LaneTx
    <3>2. t \in From(Executed(n), s) \cup From(pool[n], s)
      BY <3>1 DEF Knows
    <3> QED
      BY <2>4, <2>5, <3>2 DEF From
  <2>6. CASE ~(n = k /\ t.sender = s)
    <3>1. From(pool'[n], s) = From(pool[n], s)
      BY <1>1, <2>3, <2>6 DEF From
    <3> QED
      BY <1>2, <2>2, <3>1
  <2> QED
    BY <2>5, <2>6
<1> QED
  BY <1>3, <1>4, <1>5

\* A wallet that has not come to its turn, and one whose nonces are reserved.
Untouched(s) == /\ nextNonce[s] = None /\ affinity[s] = None
                /\ \A p \in Mine(s) : rec[p].pc = "todo"
Reserved(s) ==
    /\ Dealt(s)
    /\ \A p \in Sent(s), q \in Mine(s) : q < p => q \in Sent(s)
    /\ IF Sent(s) = {} THEN affinity[s] = None ELSE affinity[s] \in Node /\ Knows(affinity[s], s)

\* What holds of the wallet of an operation of a stream, while nothing fails.
LaneSound(b, p) ==
    LET s == P(p).sender
    IN  /\ (b > batch \/ (b = batch /\ phase = "sees")) => Untouched(s)
        /\ b = batch /\ phase = "reserve" => Untouched(s) \/ Reserved(s)
        /\ b = batch /\ phase = "broadcast" => Reserved(s)
        /\ b = batch => rec[p].pc # "rejected"
Lanes == \A b \in DOMAIN args.script : StreamBatch(b) => \A p \in IdsOf(b) : LaneSound(b, p)

\* No attempt has been in vain.
Attempts == \A p \in Id : rec[p].pc \in Waiting => rec[p].attempt = 0 /\ rec[p].tried = {}
Tables == /\ nextNonce = [s \in Sender |-> nextNonce[s]]
          /\ affinity = [s \in Sender |-> affinity[s]]

\* The inductive invariant of the streams.
SInv == /\ VInv /\ Ordered /\ Tables /\ faults \in Nat
        /\ faults = 0 => Unsent /\ Attempts /\ Lanes

LEMMA SameScript ==
  ASSUME args' = args
  PROVE  /\ Id' = Id /\ \A p : P(p)' = P(p)
         /\ \A s : Mine(s)' = Mine(s) /\ Base(s)' = Base(s)
         /\ \A b : IdsOf(b)' = IdsOf(b) /\ (StreamBatch(b)' <=> StreamBatch(b))
         /\ \A p, s : Below(p, s)' = Below(p, s)
  BY SameIds DEF Mine, Base, From, Earlier, IdsOf, StreamBatch, Below

\* The lanes of a stream are lanes of natural numbers.
LEMMA LaneIds ==
  ASSUME VInv, NEW b \in DOMAIN args.script, StreamBatch(b), NEW p \in IdsOf(b)
  PROVE  /\ Mine(P(p).sender) \subseteq Nat /\ Mine(P(p).sender) \subseteq IdsOf(b)
         /\ P(p).sender \in Sender /\ p \in Mine(P(p).sender) /\ p \in Id
         /\ \A c \in DOMAIN args.script \ {b} : Mine(P(p).sender) \cap IdsOf(c) = {}
<1>1. SendersApart(b)
  BY StreamsApart DEF VInv, IInv
<1>2. p \in Id
  BY DEF Id
<1> QED
  BY <1>1, <1>2 DEF SendersApart, Mine

\* Nodes that execute, catch up and pass on change no lane.
LEMMA NetLanes ==
  ASSUME SInv, faults = 0, NEW m \in Node, Execute(m) \/ CatchUp(m) \/ \E k \in Node : Gossip(m, k),
         UNCHANGED runVars
  PROVE  Lanes'
<1>1. args' = args /\ rec' = rec /\ batch' = batch /\ phase' = phase /\ nextNonce' = nextNonce
      /\ affinity' = affinity
  BY DEF runVars
<1>2. /\ Id' = Id /\ \A p : P(p)' = P(p)
      /\ \A s : Mine(s)' = Mine(s) /\ Base(s)' = Base(s)
      /\ \A b : IdsOf(b)' = IdsOf(b) /\ (StreamBatch(b)' <=> StreamBatch(b))
      /\ \A p, s : Below(p, s)' = Below(p, s)
  BY <1>1, SameScript
<1>3. \A p : Tx(p)' = Tx(p)
  BY <1>1, <1>2 DEF Tx
<1>4. \A s : Sent(s)' = Sent(s)
  BY <1>1, <1>2 DEF Sent
<1>5. ASSUME NEW b \in DOMAIN args.script, StreamBatch(b), NEW p \in IdsOf(b) PROVE LaneSound(b, p)'
  <2>0. PICK s : s = P(p).sender
    OBVIOUS
  <2>1. LaneSound(b, p)
    BY <1>5 DEF SInv, Lanes
  <2>2. Mine(s) \subseteq Nat
    BY <1>5, <2>0, LaneIds DEF SInv
  <2>3. Untouched(s) => Untouched(s)'
    BY <1>1, <1>2 DEF Untouched
  <2>4. Reserved(s) => Reserved(s)'
    <3>1. SUFFICES ASSUME Reserved(s) PROVE Reserved(s)'
      OBVIOUS
    <3>2. Dealt(s)'
      BY <1>1, <1>2, <3>1 DEF Reserved, Dealt
    <3>3. \A q \in Sent(s), r \in Mine(s) : r < q => r \in Sent(s)
      BY <3>1 DEF Reserved
    <3>4. CASE Sent(s) = {}
      BY <1>1, <1>2, <1>4, <3>1, <3>2, <3>3, <3>4 DEF Reserved
    <3>5. CASE Sent(s) # {}
      <4>1. PICK n : n = affinity[s]
        OBVIOUS
      <4>2. n \in Node /\ Knows(n, s) /\ Dealt(s)
        BY <3>1, <3>5, <4>1 DEF Reserved
      <4>3. /\ From(Executed(n), s)' \cup From(pool'[n], s) = From(Executed(n), s) \cup From(pool[n], s)
            /\ From(Executed(n), s)' \cap From(pool'[n], s) = {}
        BY <2>2, <4>2, KnowsKept DEF SInv
      <4>4. {Tx(q) : q \in Sent(s)}' = {Tx(q) : q \in Sent(s)}
        BY <1>3, <1>4
      <4>5. From(pool[n], s)' = From(pool'[n], s)
        BY DEF From
      <4>6. Knows(n, s)'
        BY <1>2, <4>2, <4>3, <4>4, <4>5 DEF Knows
      <4>7. affinity[s]' = n
        BY <1>1, <4>1
      <4> QED
        BY <1>2, <1>4, <3>2, <3>3, <3>5, <4>2, <4>6, <4>7 DEF Reserved
    <3> QED
      BY <3>4, <3>5
  <2> QED
    BY <1>1, <1>2, <2>0, <2>1, <2>3, <2>4 DEF LaneSound
<1> QED
  BY <1>1, <1>2, <1>5 DEF Lanes

\* While nothing fails, every node answers.
LEMMA NoSilence ==
  ASSUME faults \in Nat, NEW R \in SUBSET Node, NEW k \in Nat, Faulty(Silent(R) + k)
  PROVE  faults' \in Nat /\ (faults' = 0 => faults = 0 /\ k = 0 /\ R = Node)
<1>1. IsFiniteSet(Node \ R) /\ Silent(R) \in Nat /\ (Silent(R) = 0 => Node \ R = {})
  <2>1. IsFiniteSet(Node \ R)
    BY NodesFinite, FS_Subset
  <2> QED
    BY <2>1, FS_CardinalityType, FS_EmptySet DEF Silent
<1>2. faults' = faults + (Silent(R) + k)
  BY DEF Faulty
<1> QED
  BY <1>1, <1>2

LEMMA NoSilence0 ==
  ASSUME faults \in Nat, NEW R \in SUBSET Node, Faulty(Silent(R))
  PROVE  faults' \in Nat /\ (faults' = 0 => faults = 0 /\ R = Node)
<1>1. Silent(R) \in Nat /\ (Silent(R) = 0 => Node \ R = {})
  <2>1. IsFiniteSet(Node \ R)
    BY NodesFinite, FS_Subset
  <2> QED
    BY <2>1, FS_CardinalityType, FS_EmptySet DEF Silent
<1>2. faults' = faults + Silent(R)
  BY DEF Faulty
<1> QED
  BY <1>1, <1>2

LEMMA UnsentKept ==
  ASSUME VInv, Unsent, chain' = chain,
         \A q \in Id : rec[q].pc \notin Waiting => rec'[q].pc \notin Waiting,
         \A n \in Node : \A t \in pool'[n] :
            (\E m \in Node : t \in pool[m]) \/ rec'[t.id].pc \notin Waiting
  PROVE  Unsent'
<1>1. Ledger' = Ledger
  BY DEF Ledger
<1>2. \A t \in Ledger : t = Earlier \/ (t.id \in Id /\ rec[t.id].pc \notin Waiting)
  BY DEF VInv, IInv, ChainGenuine, Genuine, Unsent
<1>3. \A n \in Node : \A t \in pool[n] : t.id \in Id /\ rec[t.id].pc \notin Waiting
  BY DEF VInv, IInv, PoolsGenuine, Genuine, Unsent
<1>4. Waiting' = Waiting /\ Earlier' = Earlier
  BY DEF Waiting, Earlier
<1> QED
  BY <1>1, <1>2, <1>3, <1>4 DEF Unsent

\* What a step of the run leaves of all this.
Runs == /\ Tables' /\ faults' \in Nat /\ chain' = chain /\ view' = view
        /\ faults' = 0 => Unsent' /\ Attempts' /\ Lanes'

\* A step that only moves on.
LEMMA QuietRuns ==
  ASSUME SInv, rec' = rec, nextNonce' = nextNonce, affinity' = affinity, pool' = pool, chain' = chain,
         view' = view, args' = args, batch' = batch, faults' \in Nat, faults' = 0 => faults = 0,
         \/ phase' = phase
         \/ phase' \notin {"sees", "reserve", "broadcast"}
         \/ phase = "sees" /\ phase' = "reserve"
  PROVE  Runs
<1>1. Tables'
  BY DEF SInv, Tables
<1>2. ASSUME faults' = 0 PROVE Unsent' /\ Attempts' /\ Lanes'
  <2>1. Unsent /\ Attempts /\ Lanes
    BY <1>2 DEF SInv
  <2>2. /\ Id' = Id /\ \A p : P(p)' = P(p)
        /\ \A s : Mine(s)' = Mine(s) /\ Base(s)' = Base(s)
        /\ \A b : IdsOf(b)' = IdsOf(b) /\ (StreamBatch(b)' <=> StreamBatch(b))
        /\ \A p, s : Below(p, s)' = Below(p, s)
    BY SameScript
  <2>3. Unsent'
    BY <2>1, UnsentKept DEF SInv
  <2>4. Attempts'
    BY <2>1, <2>2 DEF Attempts, Waiting
  <2>5. \A s : Sent(s)' = Sent(s) /\ \A p : Tx(p)' = Tx(p)
    BY <2>2 DEF Sent, Tx
  <2>6. \A s : Untouched(s)' <=> Untouched(s)
    BY <2>2 DEF Untouched
  <2>7. \A s, n : Knows(n, s)' <=> Knows(n, s)
    <3>1. \A n : Executed(n)' = Executed(n)
      BY DEF Executed
    <3> QED
      BY <2>2, <2>5, <3>1 DEF Knows, From
  <2>8. \A s : Dealt(s)' <=> Dealt(s)
    BY <2>2 DEF Dealt
  <2>9. \A s : Reserved(s)' <=> Reserved(s)
    BY <2>2, <2>5, <2>7, <2>8 DEF Reserved
  <2>10. ASSUME NEW b \in DOMAIN args.script, StreamBatch(b), NEW p \in IdsOf(b) PROVE LaneSound(b, p)'
    <3>0. PICK s : s = P(p).sender
      OBVIOUS
    <3>1. LaneSound(b, p)
      BY <2>1, <2>10 DEF Lanes
    <3>2. P(p)'.sender = s
      BY <2>2, <3>0
    <3> QED
      BY <2>6, <2>9, <3>0, <3>1, <3>2 DEF LaneSound
  <2>11. Lanes'
    BY <2>2, <2>10 DEF Lanes
  <2> QED
    BY <2>3, <2>4, <2>11
<1> QED
  BY <1>1, <1>2 DEF Runs

\* The steps that change no record.
LEMMA WaitRuns ==
  ASSUME SInv, BatchSent \/ PollNode \/ Polled \/ Drained \/ WaitFails
  PROVE  Runs
<1>1. faults \in Nat
  BY DEF SInv
<1>2. CASE BatchSent
  BY <1>1, <1>2, QuietRuns DEF BatchSent, netVars
<1>3. CASE PollNode
  <2>1. PICK R \in SUBSET Node : Faulty(Silent(R))
    BY <1>3 DEF PollNode
  <2>2. faults' \in Nat /\ (faults' = 0 => faults = 0)
    BY <1>1, <2>1, NoSilence0
  <2> QED
    BY <1>3, <2>2, QuietRuns DEF PollNode
<1>4. CASE Polled
  BY <1>1, <1>4, QuietRuns DEF Polled, netVars
<1>5. CASE Drained
  BY <1>1, <1>5, QuietRuns DEF Drained, netVars
<1>6. CASE WaitFails
  BY <1>1, <1>6, QuietRuns DEF WaitFails, Fail, netVars
<1> QED
  BY <1>2, <1>3, <1>4, <1>5, <1>6

\* The comparisons at the end.
LEMMA SampleRuns ==
  ASSUME SInv, Observe \/ Sample \/ Compare \/ CompareAgain
  PROVE  Runs
<1>1. faults \in Nat
  BY DEF SInv
<1>2. CASE Observe
  <2>1. /\ \E R \in SUBSET Node : Faulty(Silent(R))
        /\ phase' \in {"sample", "failed"}
        /\ UNCHANGED <<chain, view, pool, args, batch, nextNonce, affinity, rec>>
    BY <1>2 DEF Observe
  <2>2. faults' \in Nat /\ (faults' = 0 => faults = 0)
    BY <1>1, <2>1, NoSilence0
  <2> QED
    BY <2>1, <2>2, QuietRuns
<1>3. CASE Sample
  <2>1. /\ \E R \in SUBSET Node : Faulty(Silent(R))
        /\ phase' = "compare"
        /\ UNCHANGED <<chain, view, pool, args, batch, nextNonce, affinity, rec>>
    BY <1>3 DEF Sample
  <2>2. faults' \in Nat /\ (faults' = 0 => faults = 0)
    BY <1>1, <2>1, NoSilence0
  <2> QED
    BY <2>1, <2>2, QuietRuns
<1>4. CASE Compare \/ CompareAgain
  <2>1. /\ \E A \in SUBSET samples : Faulty(Cardinality(samples \ A))
        /\ phase' \in {"ok", "failed", "sample"} /\ phase = "compare"
        /\ UNCHANGED <<chain, view, pool, args, batch, nextNonce, affinity, rec>>
    BY <1>4 DEF Compare, CompareAgain
  <2>2. PICK A \in SUBSET samples : Faulty(Cardinality(samples \ A))
    BY <2>1
  <2>3. samples \in SUBSET Node
    BY <2>1 DEF SInv, VInv, Sampled
  <2>4. Cardinality(samples \ A) \in Nat
    BY <2>3, NodesFinite, FS_Subset, FS_CardinalityType
  <2>5. faults' \in Nat /\ (faults' = 0 => faults = 0)
    BY <1>1, <2>2, <2>4 DEF Faulty
  <2> QED
    BY <2>1, <2>5, QuietRuns
<1> QED
  BY <1>2, <1>3, <1>4

\* The steps that give up.
LEMMA FailRuns ==
  ASSUME SInv, NEW p \in Id, ReadFails(p) \/ SendFails(p) \/ NotFound(p)
  PROVE  Runs
<1>1. faults \in Nat
  BY DEF SInv
<1>2. CASE ReadFails(p)
  <2>1. faults' = faults + 1
    BY <1>2 DEF ReadFails, Faulty
  <2> QED
    BY <1>1, <1>2, <2>1, QuietRuns DEF ReadFails, Fail
<1>3. CASE SendFails(p) \/ NotFound(p)
  BY <1>1, <1>3, QuietRuns DEF SendFails, NotFound, Fail, netVars
<1> QED
  BY <1>2, <1>3

\* A step confines itself to the records and the wallets of the batch at hand.
Confined ==
    /\ args' = args /\ batch' = batch
    /\ \A q \in Id \ Batch : rec'[q] = rec[q]
    /\ \A s \in Sender : (\A q \in Batch : P(q).sender # s) =>
                            nextNonce'[s] = nextNonce[s] /\ affinity'[s] = affinity[s]

\* The batch at hand is one of the script.
LEMMA BatchIs == ASSUME VInv PROVE batch \in DOMAIN args.script /\ Batch \subseteq Id
  BY ScriptLength DEF VInv, IInv, BatchesDone, Batch, Id

\* The wallets of other batches are left alone.
LEMMA OthersKept ==
  ASSUME VInv, Confined, NEW b \in DOMAIN args.script, StreamBatch(b), b # batch,
         NEW p \in IdsOf(b), LaneSound(b, p)
  PROVE  LaneSound(b, p)'
<1>0. PICK s : s = P(p).sender
  OBVIOUS
<1>1. batch \in DOMAIN args.script /\ args' = args /\ batch' = batch
  BY BatchIs DEF Confined
<1>2. Mine(s)' = Mine(s) /\ P(p)' = P(p)
  BY <1>1, SameScript
<1>3. s \in Sender /\ Mine(s) \cap Batch = {}
  BY <1>0, <1>1, LaneIds DEF Batch
<1>4. \A q \in Batch : P(q).sender # s
  BY <1>3, BatchIs DEF Mine
<1>5. \A q \in Mine(s) : rec'[q] = rec[q]
  BY <1>3 DEF Confined, Mine
<1>6. nextNonce'[s] = nextNonce[s] /\ affinity'[s] = affinity[s]
  BY <1>3, <1>4 DEF Confined
<1>7. Untouched(s) => Untouched(s)'
  BY <1>2, <1>5, <1>6 DEF Untouched
<1> QED
  BY <1>0, <1>1, <1>2, <1>7 DEF LaneSound

\* Once a stream is sent, no step makes one of its records rejected.
LEMMA LanesPast ==
  ASSUME VInv, Lanes, Confined,
         Streams => phase' \notin {"sees", "reserve", "broadcast"},
         Streams => \A q \in Batch : rec'[q].pc = "rejected" => rec[q].pc = "rejected"
  PROVE  Lanes'
<1>1. args' = args /\ batch' = batch
  BY DEF Confined
<1>2. \A b : IdsOf(b)' = IdsOf(b) /\ (StreamBatch(b)' <=> StreamBatch(b))
  BY <1>1, SameScript
<1>3. ASSUME NEW b \in DOMAIN args.script, StreamBatch(b), NEW p \in IdsOf(b) PROVE LaneSound(b, p)'
  <2>1. LaneSound(b, p)
    BY <1>3 DEF Lanes
  <2>2. CASE b # batch
    BY <1>3, <2>1, <2>2, OthersKept
  <2>3. CASE b = batch
    <3>1. Streams /\ p \in Batch /\ batch \in Nat
      BY <1>3, <2>3 DEF Streams, Batch, VInv, BatchesDone
    <3> QED
      BY <1>1, <2>1, <2>3, <3>1 DEF LaneSound
  <2> QED
    BY <2>2, <2>3
<1> QED
  BY <1>1, <1>2, <1>3 DEF Lanes

\* The next batch, or the end of the last one.
LEMMA BatchDoneRuns == ASSUME SInv, BatchDone PROVE Runs
<1>1. CASE batch' = batch
  <2>1. phase' \notin {"sees", "reserve", "broadcast"}
    BY <1>1 DEF BatchDone, SInv, VInv, BatchesDone
  <2> QED
    BY <1>1, <2>1, QuietRuns DEF BatchDone, netVars, SInv
<1>2. CASE batch' # batch
  <2>1. /\ batch' = batch + 1 /\ phase' = IF StreamBatch(batch + 1) THEN "sees" ELSE "broadcast"
        /\ UNCHANGED <<netVars, args, nextNonce, affinity, rec, samples>> /\ batch \in Nat
    BY <1>2 DEF BatchDone, SInv, VInv, BatchesDone
  <2>2. /\ Id' = Id /\ \A p : P(p)' = P(p)
        /\ \A s : Mine(s)' = Mine(s)
        /\ \A b : IdsOf(b)' = IdsOf(b) /\ (StreamBatch(b)' <=> StreamBatch(b))
    BY <2>1, SameScript
  <2>3. ASSUME faults = 0 PROVE Unsent' /\ Attempts' /\ Lanes'
    <3>1. Unsent /\ Attempts /\ Lanes
      BY <2>3 DEF SInv
    <3>2. Unsent'
      BY <2>1, <3>1, UnsentKept DEF SInv, netVars
    <3>3. Attempts'
      BY <2>1, <2>2, <3>1 DEF Attempts, Waiting
    <3>4. ASSUME NEW b \in DOMAIN args.script, StreamBatch(b), NEW p \in IdsOf(b) PROVE LaneSound(b, p)'
      <4>0. PICK s : s = P(p).sender
        OBVIOUS
      <4>1. LaneSound(b, p) /\ p \in Mine(s) /\ b \in Nat
        BY <3>1, <3>4, <4>0, LaneIds, ScriptLength DEF Lanes, SInv, VInv, IInv
      <4>2. b > batch => Untouched(s)
        BY <4>0, <4>1 DEF LaneSound
      <4>3. Untouched(s) => Untouched(s)' /\ rec'[p].pc # "rejected"
        BY <2>1, <2>2, <4>1 DEF Untouched
      <4>4. P(p)'.sender = s
        BY <2>2, <4>0
      <4>5. CASE b > batch'
        <5>1. b > batch /\ b # batch'
          BY <2>1, <4>1, <4>5
        <5>2. Untouched(s)' /\ rec'[p].pc # "rejected"
          BY <4>2, <4>3, <5>1
        <5> QED
          BY <4>4, <5>1, <5>2 DEF LaneSound
      <4>6. CASE b = batch'
        <5>1. b = batch + 1 /\ b > batch
          BY <2>1, <4>6
        <5>2. phase' = "sees"
          BY <2>1, <3>4, <5>1
        <5>3. Untouched(s)' /\ rec'[p].pc # "rejected"
          BY <4>2, <4>3, <5>1
        <5> QED
          BY <4>4, <4>6, <5>2, <5>3 DEF LaneSound
      <4>7. CASE b < batch'
        BY <2>1, <4>1, <4>7 DEF LaneSound
      <4> QED
        BY <2>1, <4>1, <4>5, <4>6, <4>7
    <3>5. Lanes'
      BY <2>1, <2>2, <3>4 DEF Lanes
    <3> QED
      BY <3>2, <3>3, <3>5
  <2>4. Tables'
    BY <2>1 DEF SInv, Tables
  <2> QED
    BY <2>1, <2>3, <2>4 DEF Runs, netVars, SInv
<1> QED
  BY <1>1, <1>2

\* Receipts: a record that was sent stays out of the lanes.
LEMMA ReceiptRuns ==
  ASSUME SInv, NEW p \in Batch, phase = "resolve", phase' \in {"resolve", "failed"},
         args' = args, batch' = batch, nextNonce' = nextNonce, affinity' = affinity,
         chain' = chain, view' = view, \A q \in Id \ {p} : rec'[q] = rec[q],
         rec[p].pc \notin Waiting, rec'[p].pc \notin Waiting,
         rec'[p].pc = "rejected" => rec[p].pc = "rejected",
         \A n \in Node : \A t \in pool'[n] : (\E m \in Node : t \in pool[m]) \/ t.id = p,
         faults' \in Nat, faults' = 0 => faults = 0
  PROVE  Runs
<1>1. Tables'
  BY DEF SInv, Tables
<1>2. p \in Id
  BY BatchIs DEF SInv
<1>3. Id' = Id
  BY SameScript
<1>4. ASSUME faults = 0 PROVE Unsent' /\ Attempts' /\ Lanes'
  <2>1. Unsent /\ Attempts /\ Lanes
    BY <1>4 DEF SInv
  <2>2. \A q \in Id : rec[q].pc \notin Waiting => rec'[q].pc \notin Waiting
    OBVIOUS
  <2>3. Unsent'
    BY <2>1, <2>2, UnsentKept DEF SInv
  <2>4. Attempts'
    BY <1>3, <2>1 DEF Attempts, Waiting
  <2>5. Confined
    BY DEF Confined
  <2>6. \A q \in Batch : rec'[q].pc = "rejected" => rec[q].pc = "rejected"
    BY BatchIs DEF SInv
  <2>7. Lanes'
    BY <2>1, <2>5, <2>6, LanesPast DEF SInv
  <2> QED
    BY <2>3, <2>4, <2>7
<1> QED
  BY <1>1, <1>4 DEF Runs

\* A pool gains at most the transaction that was sent.
LEMMA AdmitPools ==
  ASSUME VInv, NEW n, NEW t, NEW verdict, Admit(n, t, verdict)
  PROVE  \A m \in Node : \A u \in pool'[m] : u \in pool[m] \/ u = t
  BY DEF Admit, VInv, IInv, Shaped

LEMMA FoundRuns == ASSUME SInv, NEW p \in Id, Found(p) \/ Rejected(p) PROVE Runs
<1>1. /\ p \in Batch /\ phase = "resolve" /\ rec[p].pc \in {"sent", "rejected"}
      /\ UNCHANGED <<netVars, args, batch, nextNonce, affinity, samples>>
      /\ \E success, message, place : Conclude(p, success, message, place)
  BY DEF Found, Rejected, ResolveTurn
<1>2. rec = [q \in Id |-> rec[q]]
  BY DEF SInv, VInv, IInv, Shaped, WellShaped
<1>3. /\ phase' \in {"resolve", "failed"}
      /\ rec' = rec \/ \E r : r.pc = "done" /\ rec' = [rec EXCEPT ![p] = r]
  <2>1. PICK success, message, place : Conclude(p, success, message, place)
    BY <1>1
  <2>2. PICK r : r = [pc |-> "done", nonce |-> rec[p].nonce, attempt |-> 0, tried |-> {}, place |-> place]
    OBVIOUS
  <2>3. r.pc = "done"
    BY <2>2
  <2> QED
    BY <1>1, <2>1, <2>2, <2>3 DEF Conclude
<1>4. /\ \A q \in Id \ {p} : rec'[q] = rec[q]
      /\ rec'[p].pc = rec[p].pc \/ rec'[p].pc = "done"
  BY <1>2, <1>3
<1> QED
  BY <1>1, <1>3, <1>4, ReceiptRuns DEF Waiting, netVars, SInv

LEMMA TimedOutRuns == ASSUME SInv, NEW p \in Id, TimedOut(p) PROVE Runs
<1>1. /\ p \in Batch /\ phase = "resolve" /\ rec[p].pc = "sent"
      /\ UNCHANGED <<chain, view, pool, args, phase, batch, nextNonce, affinity, samples>>
  BY DEF TimedOut, ResolveTurn
<1>2. PICK R \in SUBSET Node : Faulty(Silent(R))
  BY DEF TimedOut
<1>3. faults' \in Nat /\ (faults' = 0 => faults = 0)
  BY <1>2, NoSilence0 DEF SInv
<1>4. WellShaped(rec) /\ rec' = SetPc(rec, p, "again")
  BY DEF SInv, VInv, IInv, Shaped, TimedOut, SetPc
<1>5. Differs(rec, rec', p) /\ rec'[p].pc = "again"
  BY <1>4, PcSet
<1> QED
  BY <1>1, <1>3, <1>5, ReceiptRuns DEF Waiting, Differs

LEMMA RebroadcastRuns == ASSUME SInv, NEW p \in Id, Rebroadcast(p) PROVE Runs
<1>1. /\ p \in Batch /\ phase = "resolve" /\ rec[p].pc = "again"
      /\ UNCHANGED <<chain, view, args, phase, batch, nextNonce, affinity, samples>>
  BY DEF Rebroadcast, ResolveTurn
<1>2. PICK R, node :
        /\ R \in SUBSET Node
        /\ \/ Faulty(Silent(R)) /\ rec' = [rec EXCEPT ![p].attempt = @ + 1] /\ pool' = pool
           \/ Faulty(Silent(R)) /\ TakenAgain(p, node)
           \/ Faulty(Silent(R) + 1) /\ NotTakenAgain(p, node)
  BY DEF Rebroadcast
<1>3. faults' \in Nat /\ (faults' = 0 => faults = 0)
  BY <1>2, NoSilence, NoSilence0 DEF SInv
<1>4. IInv /\ WellShaped(rec)
  BY DEF SInv, VInv, IInv, Shaped
<1>5. Tx(p).id = p
  BY DEF Tx
<1>6. CASE rec' = [rec EXCEPT ![p].attempt = @ + 1] /\ pool' = pool
  <2>1. PICK v : v = rec[p].attempt + 1
    OBVIOUS
  <2>2. rec' = SetAttempt(rec, p, v)
    BY <1>6, <2>1 DEF SetAttempt
  <2>3. Differs(rec, rec', p) /\ rec'[p].pc = "again"
    BY <1>1, <1>4, <2>2, AttemptSet
  <2> QED
    BY <1>1, <1>3, <1>6, <2>3, ReceiptRuns DEF Waiting, Differs
<1>7. CASE TakenAgain(p, node)
  <2>1. PICK verdict : /\ Admit(node, Tx(p), verdict)
                       /\ rec' = [NextAttempt(p, node) EXCEPT
                                    ![p].pc = IF verdict = "rejected" THEN "again" ELSE "sent"]
    BY <1>7 DEF TakenAgain
  <2>2. PICK pc : pc = IF verdict = "rejected" THEN "again" ELSE "sent"
    OBVIOUS
  <2>3. PICK one : one = NextAttempt(p, node)
    OBVIOUS
  <2>4. Differs(rec, one, p)
    BY <1>4, <2>3, AttemptDiffers
  <2>5. rec' = SetPc(one, p, pc)
    BY <2>1, <2>2, <2>3 DEF SetPc
  <2>6. Differs(one, rec', p) /\ rec'[p].pc = pc
    BY <2>4, <2>5, PcSet DEF Differs
  <2>7. Differs(rec, rec', p) /\ rec'[p].pc \in {"again", "sent"}
    BY <2>2, <2>4, <2>6 DEF Differs
  <2>8. \A n \in Node : \A t \in pool'[n] : t \in pool[n] \/ t.id = p
    BY <1>5, <2>1, AdmitPools DEF SInv
  <2> QED
    BY <1>1, <1>3, <2>7, <2>8, ReceiptRuns DEF Waiting, Differs
<1>8. CASE NotTakenAgain(p, node)
  <2>1. Differs(rec, rec', p) /\ rec'[p].pc = "again"
    BY <1>1, <1>4, <1>8, AttemptDiffers DEF NotTakenAgain
  <2>2. \E verdict : Admit(node, Tx(p), verdict)
    BY <1>8 DEF NotTakenAgain, Failed
  <2>3. \A n \in Node : \A t \in pool'[n] : t \in pool[n] \/ t.id = p
    BY <1>5, <2>2, AdmitPools DEF SInv
  <2> QED
    BY <1>1, <1>3, <2>1, <2>3, ReceiptRuns DEF Waiting, Differs
<1> QED
  BY <1>2, <1>6, <1>7, <1>8

\* A set of natural numbers that is not empty has a least one.
LEMMA LeastOf ==
  ASSUME NEW T \in SUBSET Nat, T # {} PROVE Min(T) \in T
<1>1. PICK x \in T : \A y \in T : ~(<<y, x>> \in OpToRel(<, Nat))
  <2>1. IsWellFoundedOn(OpToRel(<, Nat), Nat)
    BY NatLessThanWellFounded
  <2> QED
    BY <2>1, WFMin
<1>2. \A y \in T : ~(y < x)
  BY <1>1 DEF OpToRel
<1>3. \A y \in T : y \in Nat /\ x \in Nat /\ x <= y
  BY <1>2
<1> QED
  BY <1>3 DEF Min

\* A node that answers is at the top of the chain, when all do.
LEMMA TopIs ==
  ASSUME VInv, Ordered
  PROVE  AtTop(Node) # {} /\ AtTop(Node) \in SUBSET Node /\ \A n \in AtTop(Node) : view[n] = Len(chain)
<1> DEFINE H == {view[n] : n \in Node}
<1>1. /\ \A n \in Node : view[n] \in Nat /\ view[n] <= Len(chain)
      /\ Len(chain) \in Nat
  BY ExecutedPart
<1>2. PICK m \in Node : view[m] = Len(chain)
  BY DEF Ordered, Tall
<1>3. \E h \in H : \A n \in Node : view[n] <= h
  BY <1>1, <1>2
<1>4. Top(Node) \in H /\ \A n \in Node : view[n] <= Top(Node)
  BY <1>3 DEF Top
<1>5. Top(Node) = Len(chain)
  BY <1>1, <1>2, <1>4
<1> QED
  BY <1>2, <1>5 DEF AtTop

\* healthy_submission_index gives one of them.
LEMMA HealthyIs ==
  ASSUME VInv, Ordered, NEW rpc
  PROVE  /\ Healthy(rpc, Node) = AtTop(Node)
         /\ HealthyIndex(rpc, Node) \in Node /\ view[HealthyIndex(rpc, Node)] = Len(chain)
<1>1. 0 \in Node /\ Node \subseteq Nat
  BY NodesAssumption DEF Node
<1>2. Healthy(rpc, Node) = AtTop(Node)
  BY <1>1 DEF Healthy
<1>3. AtTop(Node) # {} /\ AtTop(Node) \in SUBSET Nat
  BY <1>1, TopIs
<1>4. HealthyIndex(rpc, Node) \in AtTop(Node)
  BY <1>2, <1>3, LeastOf DEF HealthyIndex
<1> QED
  BY <1>2, <1>4, TopIs

\* No node at the top knows of a lane of which nothing was sent.
LEMMA LaneFresh ==
  ASSUME VInv, Ordered, Unsent, NEW s, \A p \in Mine(s) : rec[p].pc \in Waiting,
         NEW n \in Node, view[n] = Len(chain)
  PROVE  /\ From(Executed(n), s) = Base(s) /\ From(pool[n], s) = {}
         /\ NextNonce(n, s) = Cardinality(Base(s))
<1>1. Executed(n) = Ledger
  BY DEF Executed, Ledger
<1>2. ASSUME NEW t, t.sender = s, t \in Ledger \/ t \in pool[n] PROVE t = Earlier
  <2>1. SUFFICES ASSUME t # Earlier PROVE FALSE
    OBVIOUS
  <2>2. Genuine(t) /\ rec[t.id].pc \notin Waiting
    BY <1>2, <2>1 DEF VInv, IInv, ChainGenuine, PoolsGenuine, Unsent
  <2>3. t.id \in Mine(s)
    BY <1>2, <2>2 DEF Genuine, Tx, Mine
  <2> QED
    BY <2>2, <2>3
<1>3. From(pool[n], s) = {}
  BY <1>2, EarlierNotPooled DEF From
<1>4. Earlier \in Ledger
  <2>1. 1 \in 1..Len(chain)
    BY ExecutedPart DEF Ordered, Begun
  <2> QED
    BY <2>1 DEF Ordered, Begun, Ledger
<1>5. From(Executed(n), s) = Base(s)
  BY <1>1, <1>2, <1>4 DEF From, Base
<1>6. Cardinality(From(pool[n], s)) = 0
  BY <1>3, FS_EmptySet
<1> QED
  BY <1>3, <1>5, <1>6, BaseIs DEF NextNonce

\* So reserve_nonces starts from what the chain has of the wallet.
LEMMA FirstNonceIs ==
  ASSUME VInv, Ordered, Unsent, NEW s, Untouched(s), NEW rpc
  PROVE  FirstNonce(s, rpc, Node) = Cardinality(Base(s))
<1> DEFINE c == Cardinality(Base(s))
           T == {NextNonce(n, s) : n \in Healthy(rpc, Node)}
<1>1. \A n \in AtTop(Node) : NextNonce(n, s) = c
  BY TopIs, LaneFresh DEF Untouched, Waiting
<1>2. T = {c}
  BY <1>1, HealthyIs, TopIs
<1>3. c \in Nat
  BY BaseIs
<1>4. FirstNonce(s, rpc, Node) = Max(T)
  BY DEF FirstNonce, Untouched
<1> HIDE DEF c, T
<1>5. Max(T) = c
  BY <1>2, <1>3 DEF Max
<1> QED
  BY <1>4, <1>5 DEF c

\* A lane that a step does not touch.
LEMMA LaneKept ==
  ASSUME NEW s, Reserved(s), args' = args, chain' = chain, view' = view,
         \A q \in Mine(s) : rec'[q] = rec[q], affinity'[s] = affinity[s],
         \A n \in Node : From(pool'[n], s) = From(pool[n], s)
  PROVE  Reserved(s)'
<1>1. /\ Id' = Id /\ \A p : P(p)' = P(p)
      /\ Mine(s)' = Mine(s) /\ Base(s)' = Base(s)
      /\ \A p : Below(p, s)' = Below(p, s)
  BY SameScript
<1>2. Sent(s)' = Sent(s) /\ Sent(s) \subseteq Mine(s)
  BY <1>1 DEF Sent
<1>3. Dealt(s)'
  BY <1>1 DEF Reserved, Dealt
<1>4. ASSUME NEW n \in Node, Knows(n, s) PROVE Knows(n, s)'
  <2>1. From(Executed(n), s)' = From(Executed(n), s)
    BY DEF Executed, From
  <2>2. From(pool[n], s)' = From(pool[n], s)
    BY DEF From
  <2>3. {Tx(p) : p \in Sent(s)}' = {Tx(p) : p \in Sent(s)}
    BY <1>1, <1>2 DEF Tx
  <2> QED
    BY <1>1, <1>4, <2>1, <2>2, <2>3 DEF Knows
<1>5. \A p \in Sent(s), q \in Mine(s) : q < p => q \in Sent(s)
  BY DEF Reserved
<1>6. CASE Sent(s) = {}
  BY <1>1, <1>2, <1>3, <1>5, <1>6 DEF Reserved
<1>7. CASE Sent(s) # {}
  <2>1. PICK n : n = affinity[s]
    OBVIOUS
  <2>2. n \in Node /\ Knows(n, s)'
    BY <1>4, <1>7, <2>1 DEF Reserved
  <2>3. affinity[s]' = n
    BY <2>1
  <2> QED
    BY <1>1, <1>2, <1>3, <1>5, <1>7, <2>2, <2>3 DEF Reserved
<1> QED
  BY <1>6, <1>7

\* No transaction of a stream is prepared alone.
LEMMA PrepareRuns == ASSUME SInv, NEW p \in Id, Prepare(p) PROVE Runs
<1>1. PICK R, nonce :
        /\ R \in SUBSET Node
        /\ Faulty(Silent(R))
        /\ rec' = [rec EXCEPT ![p].pc = "send", ![p].nonce = nonce]
        /\ nextNonce' = [nextNonce EXCEPT ![P(p).sender] = nonce + 1]
  BY DEF Prepare
<1>2. /\ p \in Batch /\ phase = "broadcast" /\ rec[p].pc = "todo"
      /\ UNCHANGED <<chain, view, pool, args, phase, batch, affinity, samples>>
  BY DEF Prepare, SendTurn
<1>3. faults' \in Nat /\ (faults' = 0 => faults = 0)
  BY <1>1, NoSilence0 DEF SInv
<1>4. /\ rec = [q \in Id |-> rec[q]]
      /\ rec[p] = [pc |-> rec[p].pc, nonce |-> rec[p].nonce, attempt |-> rec[p].attempt,
                   tried |-> rec[p].tried, place |-> rec[p].place]
  BY DEF SInv, VInv, IInv, Shaped, WellShaped, Shape
<1>5. \A q \in Id \ {p} : rec'[q] = rec[q]
  BY <1>1, <1>4
<1>6. rec'[p] = [rec[p] EXCEPT !.pc = "send", !.nonce = nonce]
  BY <1>1, <1>4
<1>7. rec'[p].pc = "send" /\ rec'[p].attempt = rec[p].attempt /\ rec'[p].tried = rec[p].tried
  BY <1>4, <1>6
<1>8. Tables'
  BY <1>1, <1>2 DEF SInv, Tables
<1>9. ASSUME faults = 0 PROVE Unsent' /\ Attempts' /\ Lanes'
  <2>1. Unsent /\ Attempts /\ Lanes
    BY <1>9 DEF SInv
  <2>2. ~Streams
    <3>1. SUFFICES ASSUME Streams PROVE FALSE
      OBVIOUS
    <3>2. batch \in DOMAIN args.script /\ StreamBatch(batch) /\ p \in IdsOf(batch)
      BY <1>2, <3>1, BatchIs DEF SInv, Streams, Batch
    <3>3. Reserved(P(p).sender) /\ p \in Mine(P(p).sender)
      BY <1>2, <2>1, <3>2, LaneIds DEF Lanes, LaneSound, SInv
    <3> QED
      BY <1>2, <3>3 DEF Reserved, Dealt
  <2>3. \A q \in Id : rec[q].pc \notin Waiting => rec'[q].pc \notin Waiting
    BY <1>2, <1>5 DEF Waiting
  <2>4. Unsent'
    BY <1>2, <2>1, <2>3, UnsentKept DEF SInv
  <2>5. Attempts'
    <3>1. Id' = Id
      BY <1>2, SameScript
    <3> QED
      BY <1>2, <1>5, <1>7, <2>1, <3>1 DEF Attempts, Waiting
  <2>6. Confined
    <3>1. \A s \in Sender : P(p).sender # s => nextNonce'[s] = nextNonce[s]
      BY <1>1 DEF SInv, Tables
    <3> QED
      BY <1>2, <1>5, <3>1 DEF Confined
  <2>7. Lanes'
    BY <2>1, <2>2, <2>6, LanesPast DEF SInv
  <2> QED
    BY <2>4, <2>5, <2>7
<1> QED
  BY <1>2, <1>3, <1>8, <1>9 DEF Runs

\* The reservation: the lane of one wallet is dealt its nonces, the others are kept.
LEMMA ReserveRuns == ASSUME SInv, NEW s \in Sender, ReserveStream(s) PROVE Runs
<1> DEFINE todo == {p \in Batch : rec[p].pc = "todo"}
           mine == {p \in todo : P(p).sender = s}
           Rank(p) == Cardinality({q \in mine : q < p})
<1>1. PICK R, first :
        /\ R \in SUBSET Node
        /\ Faulty(Silent(R)) /\ first = FirstNonce(s, s - 1, R)
        /\ rec' = [p \in Id |-> IF p \in mine
                               THEN [rec[p] EXCEPT !.nonce = first + Rank(p), !.pc = "send"]
                               ELSE rec[p]]
        /\ nextNonce' = [nextNonce EXCEPT ![s] = first + Cardinality(mine)]
  BY DEF ReserveStream
<1>2. /\ phase = "reserve" /\ mine # {}
      /\ phase' = IF mine = todo THEN "broadcast" ELSE "reserve"
      /\ UNCHANGED <<chain, view, pool, args, batch, affinity, samples>>
  BY DEF ReserveStream
<1>3. faults' \in Nat /\ (faults' = 0 => faults = 0 /\ R = Node)
  BY <1>1, NoSilence0 DEF SInv
<1>4. mine \subseteq Id /\ Batch \subseteq Id
  BY BatchIs DEF SInv
<1>5. \A q \in Id \ mine : rec'[q] = rec[q]
  BY <1>1
<1>6. ASSUME NEW p \in mine
      PROVE  /\ rec'[p].pc = "send" /\ rec'[p].nonce = first + Rank(p)
             /\ rec'[p].attempt = rec[p].attempt /\ rec'[p].tried = rec[p].tried
             /\ rec[p].pc = "todo"
  <2>1. PICK v : v = first + Rank(p)
    OBVIOUS
  <2>2. rec'[p] = [rec[p] EXCEPT !.nonce = v, !.pc = "send"]
    BY <1>1, <1>4, <2>1
  <2>3. rec[p] = [pc |-> rec[p].pc, nonce |-> rec[p].nonce, attempt |-> rec[p].attempt,
                  tried |-> rec[p].tried, place |-> rec[p].place]
    BY <1>4 DEF SInv, VInv, IInv, Shaped, WellShaped, Shape
  <2>4. rec[p].pc = "todo"
    OBVIOUS
  <2> HIDE DEF mine
  <2> QED
    BY <2>1, <2>2, <2>3, <2>4
<1>7. Tables'
  BY <1>1, <1>2 DEF SInv, Tables
<1>8. ASSUME faults' = 0 PROVE Unsent' /\ Attempts' /\ Lanes'
  <2>1. Unsent /\ Attempts /\ Lanes /\ R = Node
    BY <1>3, <1>8 DEF SInv
  <2>2. Id' = Id /\ \A p : P(p)' = P(p)
    BY <1>2, SameScript
  <2>3. \A q \in Id : rec[q].pc \notin Waiting => rec'[q] = rec[q]
    BY <1>5, <1>6 DEF Waiting
  <2>4. Unsent'
    BY <1>2, <2>1, <2>3, UnsentKept DEF SInv
  <2>5. Attempts'
    BY <1>5, <1>6, <2>1, <2>2 DEF Attempts, Waiting
  <2>6. Confined
    <3>1. \A r \in Sender : r # s => nextNonce'[r] = nextNonce[r]
      BY <1>1 DEF SInv, Tables
    <3>2. \E q \in Batch : P(q).sender = s
      BY <1>2
    <3> QED
      BY <1>2, <1>5, <3>1, <3>2 DEF Confined
  <2>7. ASSUME NEW b \in DOMAIN args.script, StreamBatch(b), NEW p \in IdsOf(b) PROVE LaneSound(b, p)'
    <3>0. PICK r : r = P(p).sender
      OBVIOUS
    <3>1. LaneSound(b, p)
      BY <2>1, <2>7 DEF Lanes
    <3>2. CASE b # batch
      BY <2>6, <2>7, <3>1, <3>2, OthersKept DEF SInv
    <3>4. batch' = batch /\ batch \in Nat /\ phase' \in {"broadcast", "reserve"}
      BY <1>2 DEF SInv, VInv, BatchesDone
    <3>3. CASE b = batch
      <4>1. /\ Mine(r) \subseteq Nat /\ Mine(r) \subseteq Batch /\ r \in Sender
            /\ p \in Mine(r) /\ p \in Id /\ p \in Batch
        BY <2>7, <3>0, <3>3, LaneIds DEF SInv, Batch
      <4>2. Untouched(r) \/ Reserved(r)
        BY <1>2, <3>0, <3>1, <3>3 DEF LaneSound
      <4>3. P(p)'.sender = r /\ Mine(r)' = Mine(r) /\ Base(r)' = Base(r) /\ \A q : Below(q, r)' = Below(q, r)
        BY <1>2, <2>2, <3>0, SameScript
      <4>4. CASE r = s
        <5>1. PICK q \in mine : TRUE
          BY <1>2
        <5>2. q \in Mine(s) /\ rec[q].pc = "todo"
          BY <1>4 DEF Mine
        <5>3. Untouched(s)
          BY <4>2, <4>4, <5>2 DEF Reserved, Dealt
        <5>4. mine = Mine(s)
          BY <1>4, <4>1, <4>4, <5>3 DEF Untouched, Mine
        <5>5. first = Cardinality(Base(s))
          BY <1>1, <2>1, <5>3, FirstNonceIs DEF SInv
        <5>6. \A u \in Mine(s) : rec'[u].pc = "send" /\ rec'[u].nonce = first + Cardinality(Below(u, s))
          BY <1>6, <5>4 DEF Below
        <5>7. Dealt(s)'
          BY <4>3, <4>4, <5>5, <5>6 DEF Dealt
        <5>8. Sent(s)' = {}
          BY <4>3, <4>4, <5>6 DEF Sent
        <5>9. affinity[s]' = None
          BY <1>2, <5>3 DEF Untouched
        <5>10. Reserved(s)'
          BY <5>7, <5>8, <5>9 DEF Reserved
        <5>11. rec'[p].pc # "rejected"
          BY <4>1, <4>4, <5>6
        <5> HIDE DEF mine, todo
        <5> QED
          BY <3>3, <3>4, <4>3, <4>4, <5>10, <5>11 DEF LaneSound
      <4>5. CASE r # s
        <5>1. \A q \in Mine(r) : rec'[q] = rec[q]
          BY <1>5, <4>5 DEF Mine
        <5>2. affinity'[r] = affinity[r] /\ nextNonce'[r] = nextNonce[r]
          BY <1>1, <1>2, <4>1, <4>5 DEF SInv, Tables
        <5>3. Reserved(r) => Reserved(r)'
          BY <1>2, <5>1, <5>2, LaneKept
        <5>4. Untouched(r) => Untouched(r)'
          BY <4>3, <5>1, <5>2 DEF Untouched
        <5>5. Untouched(r) => p \in todo /\ p \notin mine
          BY <3>0, <4>1, <4>5 DEF Untouched
        <5>6. Untouched(r) => phase' = "reserve"
          BY <1>2, <5>5
        <5>7. rec'[p].pc # "rejected"
          BY <3>1, <3>3, <4>1, <5>1 DEF LaneSound
        <5> HIDE DEF mine, todo
        <5>9. phase' = "broadcast" => Reserved(r)'
          BY <4>2, <5>3, <5>6
        <5>10. Untouched(r)' \/ Reserved(r)'
          BY <4>2, <5>3, <5>4
        <5> QED
          BY <3>3, <3>4, <4>3, <5>7, <5>9, <5>10 DEF LaneSound
      <4> QED
        BY <4>4, <4>5
    <3> QED
      BY <3>2, <3>3
  <2>8. Lanes'
    <3>1. \A b : IdsOf(b)' = IdsOf(b) /\ (StreamBatch(b)' <=> StreamBatch(b))
      BY <1>2, SameScript
    <3> QED
      BY <1>2, <2>7, <3>1 DEF Lanes
  <2> QED
    BY <2>4, <2>5, <2>8
<1> QED
  BY <1>2, <1>3, <1>7, <1>8 DEF Runs

LEMMA DisjointUnion ==
  ASSUME NEW S, NEW T, IsFiniteSet(S), IsFiniteSet(T), S \cap T = {}
  PROVE  Cardinality(S \cup T) = Cardinality(S) + Cardinality(T)
<1>1. Cardinality(S \cup T) = Cardinality(S) + Cardinality(T) - Cardinality(S \cap T)
  BY FS_Union
<1>2. Cardinality(S \cap T) = 0
  BY FS_EmptySet, Zenon
<1>3. Cardinality(S) \in Nat /\ Cardinality(T) \in Nat
  BY FS_CardinalityType
<1> QED
  BY <1>1, <1>2, <1>3

\* A node that knows of all that was sent of a lane expects the nonce that comes next.
LEMMA LaneNonce ==
  ASSUME VInv, NEW s, Mine(s) \subseteq Nat, Dealt(s), IsFiniteSet(Sent(s)), NEW n \in Node, Knows(n, s)
  PROVE  NextNonce(n, s) = Cardinality(Base(s)) + Cardinality(Sent(s))
<1> DEFINE A == From(Executed(n), s)
           B == From(pool[n], s)
           S == Sent(s)
           T == {Tx(p) : p \in S}
<1>1. A \cup B = Base(s) \cup T /\ A \cap B = {}
  BY DEF Knows
<1>2. IsFiniteSet(T) /\ Cardinality(T) = Cardinality(S)
  <2> DEFINE f == [t \in T |-> t.id]
  <2>1. \A p \in S : Tx(p).id = p
    BY DEF Tx
  <2>2. f \in Bijection(T, S)
    <3>1. f \in [T -> S]
      BY <2>1
    <3>2. \A t, u \in T : f[t] = f[u] => t = u
      BY <2>1
    <3>3. \A p \in S : \E t \in T : f[t] = p
      BY <2>1
    <3> QED
      BY <3>1, <3>2, <3>3, Fun_IsBij
  <2>3. ExistsBijection(T, S)
    BY <2>2 DEF ExistsBijection
  <2>4. ExistsBijection(S, T)
    BY <2>3, Fun_ExistsBijSymmetric
  <2> HIDE DEF f, T, S
  <2> QED
    BY <2>3, <2>4, FS_Bijection DEF S
<1>3. Base(s) \cap T = {}
  <2>1. \A p \in S : Tx(p).id = p /\ p \in Id
    BY DEF Tx, Sent, Mine
  <2>2. 0 \notin Id
    BY IdsPositive DEF VInv, IInv
  <2>3. \A t \in T : t.id # 0
    BY <2>1, <2>2
  <2>4. \A t \in Base(s) : t.id = 0
    BY BaseIs DEF Base, From
  <2> HIDE DEF T
  <2> QED
    BY <2>3, <2>4
<1> HIDE DEF A, B, T, S
<1>4. Cardinality(Base(s) \cup T) = Cardinality(Base(s)) + Cardinality(S)
  BY <1>2, <1>3, BaseIs, DisjointUnion DEF S
<1>5. IsFiniteSet(A \cup B)
  BY <1>1, <1>2, BaseIs, FS_Union
<1>6. IsFiniteSet(A) /\ IsFiniteSet(B)
  <2>1. A \subseteq A \cup B /\ B \subseteq A \cup B
    OBVIOUS
  <2> QED
    BY <1>5, <2>1, FS_Subset
<1>7. Cardinality(A \cup B) = Cardinality(A) + Cardinality(B)
  BY <1>1, <1>6, DisjointUnion
<1> QED
  BY <1>1, <1>4, <1>7 DEF NextNonce, A, B, S

\* The transaction whose turn it is in a lane is taken by the node that it goes to.
LEMMA LaneAccepts ==
  ASSUME VInv, Ordered, Unsent, NEW s, Mine(s) \subseteq Nat, Reserved(s),
         NEW p \in Mine(s), rec[p].pc = "send",
         \A q \in Mine(s) : rec[q].nonce < rec[p].nonce => q \in Sent(s),
         NEW n \in Node,
         IF Sent(s) = {} THEN view[n] = Len(chain) ELSE n = affinity[s]
  PROVE  /\ Sent(s) = Below(p, s) /\ Knows(n, s)
         /\ Tx(p) \notin Executed(n) \cup pool[n] /\ CheckTx(n, Tx(p)) = {"accepted"}
<1>1. Dealt(s)
  BY DEF Reserved
<1>2. Sent(s) = Below(p, s)
  <2>1. Below(p, s) \subseteq Sent(s)
    BY <1>1, DealtNonces DEF Below
  <2>2. ASSUME NEW q \in Sent(s) PROVE q \in Below(p, s)
    <3>1. q \in Mine(s) /\ q # p /\ ~(p < q)
      BY DEF Sent, Reserved
    <3>2. q \in Nat /\ p \in Nat
      BY <3>1
    <3> QED
      BY <3>1, <3>2 DEF Below
  <2> QED
    BY <2>1, <2>2
<1>3. IsFiniteSet(Sent(s))
  BY <1>2, BelowFinite
<1>4. Knows(n, s)
  <2>1. CASE Sent(s) = {}
    <3>1. \A q \in Mine(s) : rec[q].pc \in Waiting
      BY <1>1, <2>1 DEF Dealt, Sent, Waiting
    <3>2. From(Executed(n), s) = Base(s) /\ From(pool[n], s) = {}
      BY <2>1, <3>1, LaneFresh
    <3> QED
      BY <2>1, <3>2 DEF Knows
  <2>2. CASE Sent(s) # {}
    BY <2>2 DEF Reserved
  <2> QED
    BY <2>1, <2>2
<1>5. NextNonce(n, s) = Cardinality(Base(s)) + Cardinality(Below(p, s))
  BY <1>1, <1>2, <1>3, <1>4, LaneNonce
<1>6. /\ Tx(p).id = p /\ Tx(p).sender = s /\ Tx(p).nonce = NextNonce(n, s)
  BY <1>1, <1>5 DEF Tx, Mine, Dealt
<1>7. Tx(p) \notin Ledger /\ Tx(p) \notin pool[n]
  <2>1. p # 0
    BY IdsPositive DEF VInv, IInv, Mine
  <2>2. Tx(p) # Earlier
    BY <1>6, <2>1, BaseIs
  <2> QED
    BY <1>6, <2>2 DEF Unsent, Waiting
<1>8. Tx(p) \notin Executed(n) \cup pool[n]
  BY <1>7, ExecutedPart
<1>9. CheckTx(n, Tx(p)) = {"accepted"}
  BY <1>6, <1>8 DEF CheckTx
<1> QED
  BY <1>2, <1>4, <1>8, <1>9

\* What an answer does to the record.
LEMMA AnsweredIs ==
  ASSUME VInv, NEW p \in Id, NEW node, Answered(p, node)
  PROVE  \E verdict \in CheckTx(node, Tx(p)) :
           /\ Admit(node, Tx(p), verdict) /\ Differs(rec, rec', p)
           /\ rec'[p].nonce = rec[p].nonce
           /\ rec'[p].pc = IF verdict = "rejected" /\ ~Async THEN "rejected" ELSE "sent"
<1>1. PICK verdict, pc :
        /\ verdict \in CheckTx(node, Tx(p))
        /\ Admit(node, Tx(p), verdict)
        /\ pc = IF verdict = "rejected" /\ ~Async THEN "rejected" ELSE "sent"
        /\ rec' = [rec EXCEPT ![p].pc = pc, ![p].attempt = 0, ![p].tried = {}]
  <2>1. PICK verdict \in CheckTx(node, Tx(p)) :
          /\ Admit(node, Tx(p), verdict)
          /\ rec' = [rec EXCEPT ![p].pc = IF verdict = "rejected" /\ ~Async THEN verdict ELSE "sent",
                                ![p].attempt = 0, ![p].tried = {}]
    BY DEF Answered
  <2>2. CASE verdict = "rejected" /\ ~Async
    BY <2>1, <2>2
  <2>3. CASE ~(verdict = "rejected" /\ ~Async)
    BY <2>1, <2>3
  <2> QED
    BY <2>2, <2>3
<1>2. WellShaped(rec)
  BY DEF VInv, IInv, Shaped
<1>3. PICK one : one = SetPc(rec, p, pc)
  OBVIOUS
<1>4. Differs(rec, one, p) /\ one[p].pc = pc /\ one[p].nonce = rec[p].nonce
  BY <1>2, <1>3, PcSet
<1>5. PICK two : two = SetAttempt(one, p, 0)
  OBVIOUS
<1>6. Differs(one, two, p) /\ two[p].pc = one[p].pc /\ two[p].nonce = one[p].nonce
  BY <1>4, <1>5, AttemptSet DEF Differs
<1>7. rec' = SetTried(two, p, {})
  BY <1>1, <1>2, <1>3, <1>5 DEF SetPc, SetAttempt, SetTried, WellShaped
<1>8. Differs(two, rec', p) /\ rec'[p].pc = two[p].pc /\ rec'[p].nonce = two[p].nonce
  BY <1>6, <1>7, TriedSet DEF Differs
<1>9. Differs(rec, rec', p)
  BY <1>4, <1>6, <1>8 DEF Differs
<1>10. rec'[p].pc = pc /\ rec'[p].nonce = rec[p].nonce
  BY <1>4, <1>6, <1>8
<1> QED
  BY <1>1, <1>9, <1>10

\* The lane of a transaction that its node has taken.
LEMMA LaneGrows ==
  ASSUME VInv, NEW s \in Sender, Mine(s) \subseteq Nat, Reserved(s), NEW p \in Mine(s), rec[p].pc = "send",
         NEW n \in Node, Sent(s) = Below(p, s), Knows(n, s), Tx(p) \notin Executed(n) \cup pool[n],
         UNCHANGED <<args, chain, view>>, Differs(rec, rec', p),
         rec'[p].pc = "sent", rec'[p].nonce = rec[p].nonce,
         pool' = [pool EXCEPT ![n] = @ \cup {Tx(p)}], affinity'[s] = n
  PROVE  Reserved(s)'
<1>1. /\ Mine(s)' = Mine(s) /\ Base(s)' = Base(s) /\ \A q : P(q)' = P(q)
      /\ \A q : Below(q, s)' = Below(q, s)
  BY SameScript
<1>2. /\ \A q \in Mine(s) : rec'[q].nonce = rec[q].nonce
      /\ \A q \in Mine(s) \ {p} : rec'[q] = rec[q]
  BY DEF Differs, Mine
<1>3. Sent(s)' = Sent(s) \cup {p}
  BY <1>1, <1>2 DEF Sent
<1>4. Dealt(s)'
  BY <1>1, <1>2 DEF Reserved, Dealt
<1>5. \A u \in Sent(s)', q \in Mine(s)' : q < u => q \in Sent(s)'
  <2>1. ASSUME NEW u \in Sent(s) \cup {p}, NEW q \in Mine(s), q < u PROVE q \in Sent(s) \cup {p}
    BY <2>1 DEF Reserved, Below
  <2> QED
    BY <1>1, <1>3, <2>1
<1>6. Knows(n, s)'
  <2>1. \A q \in Sent(s) \cup {p} : Tx(q)' = Tx(q)
    BY <1>1, <1>2 DEF Tx, Sent
  <2>2. {Tx(q) : q \in Sent(s)}' = {Tx(q) : q \in Sent(s)} \cup {Tx(p)}
    BY <1>3, <2>1
  <2>3. From(Executed(n), s)' = From(Executed(n), s)
    BY DEF Executed, From
  <2>4. pool'[n] = pool[n] \cup {Tx(p)}
    BY DEF VInv, IInv, Shaped
  <2>5. Tx(p).sender = s
    BY DEF Tx, Mine
  <2>6. From(pool[n], s)' = From(pool[n], s) \cup {Tx(p)}
    BY <2>4, <2>5 DEF From
  <2>7. Tx(p) \notin From(Executed(n), s)
    BY DEF From
  <2> QED
    BY <1>1, <2>2, <2>3, <2>6, <2>7 DEF Knows
<1>7. affinity[s]' = n /\ Sent(s)' # {}
  BY <1>3
<1> QED
  BY <1>4, <1>5, <1>6, <1>7 DEF Reserved

\* An attempt while nothing fails is answered.
LEMMA SendAnswered ==
  ASSUME SInv, NEW p \in Id, Send(p)
  PROVE  /\ Tables' /\ faults' \in Nat /\ (faults' = 0 => faults = 0)
         /\ faults' = 0 =>
              LET node == SubmissionIndex(p, Node)
              IN  /\ rec[p].attempt = 0 /\ Answered(p, node)
                  /\ affinity' = IF Streams THEN [affinity EXCEPT ![P(p).sender] = node] ELSE affinity
<1>1. rec[p].pc = "send" /\ nextNonce' = nextNonce
  BY DEF Send
<1>2. PICK R, node, keep :
        /\ R \in SUBSET Node
        /\ node = SubmissionIndex(p, R)
        /\ keep = IF Streams THEN [affinity EXCEPT ![P(p).sender] = node] ELSE affinity
        /\ \/ /\ node \in rec[p].tried
              /\ Faulty(Silent(R))
              /\ UNCHANGED <<pool, affinity>>
           \/ /\ node \notin rec[p].tried
              /\ Faulty(Silent(R)) /\ Answered(p, node)
              /\ affinity' = keep
           \/ /\ node \notin rec[p].tried
              /\ Faulty(Silent(R) + 1)
              /\ affinity' = IF rec[p].attempt = 0 THEN keep ELSE affinity
  BY DEF Send
<1>3. faults' \in Nat /\ (faults' = 0 => faults = 0 /\ R = Node)
  BY <1>2, NoSilence, NoSilence0 DEF SInv
<1>4. affinity' = affinity \/ affinity' = [affinity EXCEPT ![P(p).sender] = node]
  BY <1>2
<1>5. Tables'
  BY <1>1, <1>4 DEF SInv, Tables
<1>6. ASSUME faults' = 0
      PROVE  rec[p].attempt = 0 /\ Answered(p, node) /\ affinity' = keep /\ node = SubmissionIndex(p, Node)
  <2>1. rec[p].attempt = 0 /\ rec[p].tried = {}
    BY <1>1, <1>3, <1>6 DEF SInv, Attempts, Waiting
  <2>2. ~Faulty(Silent(R) + 1)
    BY <1>2, <1>6, NoSilence DEF SInv
  <2> QED
    BY <1>2, <1>3, <1>6, <2>1, <2>2
<1> QED
  BY <1>2, <1>3, <1>5, <1>6

\* The node of a first attempt: that of the wallet's last one, or one at the top.
LEMMA LaneNode ==
  ASSUME VInv, Ordered, Streams, NEW p \in Id, rec[p].attempt = 0, NEW s, s = P(p).sender, Reserved(s),
         NEW n, n = SubmissionIndex(p, Node)
  PROVE  n \in Node /\ IF Sent(s) = {} THEN view[n] = Len(chain) ELSE n = affinity[s]
<1>1. CASE Sent(s) = {}
  <2>1. affinity[s] = None
    BY <1>1 DEF Reserved
  <2>2. n = HealthyIndex(P(p).rpc + rec[p].attempt, Node)
    BY <2>1 DEF SubmissionIndex
  <2> QED
    BY <1>1, <2>2, HealthyIs
<1>2. CASE Sent(s) # {}
  <2>1. affinity[s] \in Node
    BY <1>2 DEF Reserved
  <2>2. affinity[s] # None
    BY <2>1, NodesAssumption DEF Node, None
  <2>3. n = affinity[s]
    BY <2>2 DEF SubmissionIndex
  <2> QED
    BY <1>2, <2>1, <2>3
<1> QED
  BY <1>1, <1>2

\* Sending: the lane of the sender grows, the others are kept.
LEMMA SendRuns == ASSUME SInv, NEW p \in Id, Send(p) PROVE Runs
<1>1. /\ phase = "broadcast" /\ p \in Batch /\ rec[p].pc = "send"
      /\ \A q \in Batch : LaneBefore(q, p) => rec[q].pc \in {"sent", "rejected"}
      /\ UNCHANGED <<chain, view, args, phase, batch, nextNonce, samples>>
  BY DEF Send, SendTurn
<1>2. PICK node : node = SubmissionIndex(p, Node)
  OBVIOUS
<1>3. PICK s : s = P(p).sender
  OBVIOUS
<1>4. Tables' /\ faults' \in Nat /\ (faults' = 0 => faults = 0)
  BY SendAnswered
<1>5. ASSUME faults' = 0 PROVE Unsent' /\ Attempts' /\ Lanes'
  <2>1. Unsent /\ Attempts /\ Lanes /\ faults = 0
    BY <1>4, <1>5 DEF SInv
  <2>2. /\ rec[p].attempt = 0 /\ Answered(p, node)
        /\ affinity' = IF Streams THEN [affinity EXCEPT ![s] = node] ELSE affinity
    BY <1>2, <1>3, <1>5, SendAnswered
  <2>3. PICK verdict \in CheckTx(node, Tx(p)) :
          /\ Admit(node, Tx(p), verdict) /\ Differs(rec, rec', p)
          /\ rec'[p].nonce = rec[p].nonce
          /\ rec'[p].pc = IF verdict = "rejected" /\ ~Async THEN "rejected" ELSE "sent"
    BY <2>2, AnsweredIs DEF SInv
  <2>4. rec'[p].pc \notin Waiting /\ \A q \in Id \ {p} : rec'[q] = rec[q]
    BY <2>3 DEF Waiting, Differs
  <2>5. Unsent'
    <3>1. Tx(p).id = p
      BY DEF Tx
    <3>2. \A n \in Node : \A t \in pool'[n] : t \in pool[n] \/ t.id = p
      BY <2>3, <3>1, AdmitPools DEF SInv
    <3>3. \A q \in Id : rec[q].pc \notin Waiting => rec'[q].pc \notin Waiting
      BY <2>4
    <3> QED
      BY <1>1, <2>1, <2>4, <3>2, <3>3, UnsentKept DEF SInv
  <2>6. Id' = Id /\ \A q : P(q)' = P(q)
    BY <1>1, SameScript
  <2>7. Attempts'
    BY <2>1, <2>4, <2>6 DEF Attempts, Waiting
  <2>8. Confined
    <3>1. \A r \in Sender : r # s => affinity'[r] = affinity[r]
      BY <2>2 DEF SInv, Tables
    <3> QED
      BY <1>1, <1>3, <2>4, <3>1 DEF Confined
  <2>9. CASE ~Streams
    BY <2>1, <2>5, <2>7, <2>8, <2>9, LanesPast DEF SInv
  <2>10. CASE Streams
    <3>1. batch \in DOMAIN args.script /\ StreamBatch(batch) /\ Batch = IdsOf(batch) /\ batch \in Nat
      BY <2>10, BatchIs DEF SInv, Streams, Batch, VInv, BatchesDone
    <3>2. ASSUME NEW b \in DOMAIN args.script, StreamBatch(b), NEW u \in IdsOf(b) PROVE LaneSound(b, u)'
      <4>1. LaneSound(b, u)
        BY <2>1, <3>2 DEF Lanes
      <4>2. CASE b # batch
        BY <2>8, <3>2, <4>1, <4>2, OthersKept DEF SInv
      <4>3. CASE b = batch
        <5>0. PICK r : r = P(u).sender
          OBVIOUS
        <5>1. /\ Mine(r) \subseteq Nat /\ Mine(r) \subseteq Batch /\ r \in Sender /\ u \in Mine(r)
              /\ Mine(s) \subseteq Nat /\ Mine(s) \subseteq Batch /\ s \in Sender /\ p \in Mine(s)
          BY <1>1, <1>3, <3>1, <3>2, <4>3, <5>0, LaneIds DEF SInv
        <5>2. Reserved(r)
          BY <1>1, <4>1, <4>3, <5>0 DEF LaneSound
        <5>3. Reserved(r)' /\ rec'[u].pc # "rejected"
          <6>1. CASE r # s
            <7>1. \A q \in Mine(r) : rec'[q] = rec[q]
              BY <1>3, <2>4, <6>1 DEF Mine
            <7>2. affinity'[r] = affinity[r]
              BY <2>2, <5>1, <6>1 DEF SInv, Tables
            <7>3. Tx(p).sender = s
              BY <1>3 DEF Tx
            <7>4. \A n \in Node : From(pool'[n], r) = From(pool[n], r)
              <8>1. DOMAIN pool = Node
                BY DEF SInv, VInv, IInv, Shaped
              <8>2. \A n \in Node : pool'[n] = pool[n] \/ pool'[n] = pool[n] \cup {Tx(p)}
                BY <2>3, <8>1 DEF Admit, SInv, VInv, IInv, Shaped
              <8> QED
                BY <6>1, <7>3, <8>2 DEF From
            <7>5. Reserved(r)'
              BY <1>1, <5>2, <7>1, <7>2, <7>4, LaneKept
            <7>6. rec'[u].pc # "rejected"
              BY <4>1, <4>3, <5>1, <7>1 DEF LaneSound
            <7> QED
              BY <7>5, <7>6
          <6>2. CASE r = s
            <7>1. Reserved(s) /\ Dealt(s)
              BY <5>2, <6>2 DEF Reserved
            <7>2. node \in Node /\ IF Sent(s) = {} THEN view[node] = Len(chain) ELSE node = affinity[s]
              BY <1>2, <1>3, <2>2, <2>10, <7>1, LaneNode DEF SInv
            <7>3. \A q \in Mine(s) : rec[q].nonce < rec[p].nonce => q \in Sent(s)
              <8>1. SUFFICES ASSUME NEW q \in Mine(s), rec[q].nonce < rec[p].nonce PROVE q \in Sent(s)
                OBVIOUS
              <8>2. LaneBefore(q, p) /\ q \in Batch
                BY <1>3, <2>10, <5>1, <8>1 DEF LaneBefore, Mine
              <8>3. rec[q].pc \in {"sent", "rejected"}
                BY <1>1, <8>2
              <8> QED
                BY <7>1, <8>3 DEF Dealt, Sent
            <7>4. /\ Sent(s) = Below(p, s) /\ Knows(node, s)
                  /\ Tx(p) \notin Executed(node) \cup pool[node] /\ CheckTx(node, Tx(p)) = {"accepted"}
              BY <1>1, <2>1, <5>1, <7>1, <7>2, <7>3, LaneAccepts DEF SInv
            <7>5. verdict = "accepted" /\ rec'[p].pc = "sent"
              BY <2>3, <7>4
            <7>6. pool' = [pool EXCEPT ![node] = @ \cup {Tx(p)}]
              BY <2>3, <7>5 DEF Admit
            <7>7. affinity'[s] = node
              BY <2>2, <2>10, <5>1 DEF SInv, Tables
            <7>8. Reserved(s)'
              BY <1>1, <2>3, <5>1, <7>1, <7>2, <7>4, <7>5, <7>6, <7>7, LaneGrows DEF SInv
            <7>9. Mine(s)' = Mine(s)
              BY <1>1, SameScript
            <7>10. rec'[u].pc \in {"send", "sent"}
              BY <5>1, <6>2, <7>8, <7>9 DEF Reserved, Dealt
            <7> QED
              BY <6>2, <7>8, <7>10
          <6> QED
            BY <6>1, <6>2
        <5>4. P(u)'.sender = r
          BY <2>6, <5>0
        <5> QED
          BY <1>1, <3>1, <4>3, <5>3, <5>4 DEF LaneSound
      <4> QED
        BY <4>2, <4>3
    <3>3. Lanes'
      <4>1. \A b : IdsOf(b)' = IdsOf(b) /\ (StreamBatch(b)' <=> StreamBatch(b))
        BY <1>1, SameScript
      <4> QED
        BY <1>1, <3>2, <4>1 DEF Lanes
    <3> QED
      BY <2>5, <2>7, <3>3
  <2> QED
    BY <2>9, <2>10
<1> QED
  BY <1>1, <1>4, <1>5 DEF Runs

--------------------------------------------------------------------------------
(* The invariant of the streams, over all steps.                             *)

LEMMA InitSInv == Init => SInv
<1> SUFFICES ASSUME Init PROVE SInv
  OBVIOUS
<1>1. VInv /\ Ordered
  BY InitVInv, InitOrdered
<1>2. /\ chain = <<Earlier>> /\ pool = [n \in Node |-> {}] /\ faults = 0
      /\ batch = 1 /\ phase = IF Streams THEN "reserve" ELSE "broadcast"
      /\ nextNonce = [s \in Sender |-> None] /\ affinity = [s \in Sender |-> None]
      /\ rec = [p \in Id |-> NewRecord]
  BY DEF Init
<1>3. Tables
  BY <1>2 DEF Tables
<1>4. Unsent
  BY <1>2 DEF Unsent, Ledger
<1>5. \A p \in Id : rec[p].pc = "todo" /\ rec[p].attempt = 0 /\ rec[p].tried = {}
  BY <1>2 DEF NewRecord
<1>6. Attempts
  BY <1>5 DEF Attempts
<1>7. ASSUME NEW b \in DOMAIN args.script, StreamBatch(b), NEW p \in IdsOf(b) PROVE LaneSound(b, p)
  <2>1. P(p).sender \in Sender /\ p \in Id
    BY <1>1, <1>7, LaneIds
  <2>2. Untouched(P(p).sender)
    BY <1>2, <1>5, <2>1 DEF Untouched, Mine
  <2>3. b = batch => phase = "reserve"
    BY <1>2, <1>7 DEF Streams
  <2> QED
    BY <1>5, <2>1, <2>2, <2>3 DEF LaneSound
<1>8. Lanes
  BY <1>7 DEF Lanes
<1> QED
  BY <1>1, <1>2, <1>3, <1>4, <1>6, <1>8 DEF SInv

LEMMA NetStepSInv ==
  ASSUME SInv, VInv', NetStep, UNCHANGED runVars PROVE SInv'
<1>1. PICK m \in Node : Execute(m) \/ CatchUp(m) \/ Restart(m) \/ \E k \in Node : Gossip(m, k)
  BY DEF NetStep
<1>2. Tables'
  BY DEF SInv, Tables, runVars
<1>3. Ordered'
  <2>1. CASE Execute(m)
    BY <2>1, ExecuteOrdered DEF SInv
  <2>2. CASE CatchUp(m)
    BY <2>2, StillOrdered DEF SInv, CatchUp
  <2>3. CASE Restart(m) \/ \E k \in Node : Gossip(m, k)
    BY <2>3, StillOrdered DEF SInv, Restart, Gossip
  <2> QED
    BY <1>1, <2>1, <2>2, <2>3
<1>4. CASE Restart(m)
  <2>1. faults' = faults + 1
    BY <1>4 DEF Restart, Faulty
  <2>2. faults' \in Nat /\ faults' # 0
    BY <2>1 DEF SInv
  <2> QED
    BY <1>2, <1>3, <2>2 DEF SInv
<1>5. CASE Execute(m) \/ CatchUp(m) \/ \E k \in Node : Gossip(m, k)
  <2>1. faults' = faults
    BY <1>5 DEF Execute, CatchUp, Gossip
  <2>2. ASSUME faults = 0 PROVE Unsent' /\ Attempts' /\ Lanes'
    <3>1. Unsent /\ Attempts
      BY <2>2 DEF SInv
    <3>2. args' = args /\ rec' = rec
      BY DEF runVars
    <3>3. Attempts'
      BY <3>1, <3>2, SameScript DEF Attempts, Waiting
    <3>4. Lanes'
      BY <1>5, <2>2, NetLanes
    <3>5. \A n \in Node : \A t \in pool'[n] : \E k \in Node : t \in pool[k]
      <4>1. DOMAIN pool = Node /\ pool = [n \in Node |-> pool[n]]
        BY DEF SInv, VInv, IInv, Shaped
      <4>2. CASE Execute(m)
        BY <4>1, <4>2 DEF Execute
      <4>3. CASE CatchUp(m)
        BY <4>1, <4>3 DEF CatchUp
      <4>4. CASE \E k \in Node : Gossip(m, k)
        BY <4>1, <4>4 DEF Gossip, Admit
      <4> QED
        BY <1>5, <4>2, <4>3, <4>4
    <3>6. Ledger' \subseteq Ledger \cup UNION {pool[n] : n \in Node}
      <4>1. CASE Execute(m)
        BY <4>1, ExecuteIs DEF SInv
      <4>2. CASE CatchUp(m) \/ \E k \in Node : Gossip(m, k)
        BY <4>2 DEF CatchUp, Gossip, Ledger
      <4> QED
        BY <1>5, <4>1, <4>2
    <3>7. Unsent'
      BY <3>1, <3>2, <3>5, <3>6 DEF Unsent, Waiting, Earlier
    <3> QED
      BY <3>3, <3>4, <3>7
  <2> QED
    BY <1>2, <1>3, <2>1, <2>2 DEF SInv
<1> QED
  BY <1>1, <1>4, <1>5

LEMMA RunStepRuns == ASSUME SInv, RunStep PROVE Runs
<1>1. ASSUME NEW s \in Sender, ReserveStream(s) PROVE Runs
  BY <1>1, ReserveRuns
<1>2. ASSUME NEW p \in Id, Prepare(p) PROVE Runs
  BY <1>2, PrepareRuns
<1>3. ASSUME NEW p \in Id, Send(p) PROVE Runs
  BY <1>3, SendRuns
<1>4. ASSUME NEW p \in Id, Found(p) \/ Rejected(p) PROVE Runs
  BY <1>4, FoundRuns
<1>5. ASSUME NEW p \in Id, TimedOut(p) PROVE Runs
  BY <1>5, TimedOutRuns
<1>6. ASSUME NEW p \in Id, Rebroadcast(p) PROVE Runs
  BY <1>6, RebroadcastRuns
<1>7. ASSUME NEW p \in Id, ReadFails(p) \/ SendFails(p) \/ NotFound(p) PROVE Runs
  BY <1>7, FailRuns
<1>8. CASE BatchSent \/ PollNode \/ Polled \/ Drained \/ WaitFails
  BY <1>8, WaitRuns
<1>9. CASE BatchDone
  BY <1>9, BatchDoneRuns
<1>10. CASE Observe \/ Sample \/ Compare \/ CompareAgain
  BY <1>10, SampleRuns
<1> QED
  BY <1>1, <1>2, <1>3, <1>4, <1>5, <1>6, <1>7, <1>8, <1>9, <1>10 DEF RunStep

LEMMA SInvNext == SInv /\ [Next]_vars => SInv'
<1> SUFFICES ASSUME SInv, [Next]_vars PROVE SInv'
  OBVIOUS
<1>1. VInv'
  BY VInvNext DEF SInv
<1>2. CASE NetStep /\ UNCHANGED runVars
  BY <1>1, <1>2, NetStepSInv
<1>3. CASE RunStep
  <2>1. Runs
    BY <1>3, RunStepRuns
  <2>2. Ordered'
    BY <2>1, StillOrdered DEF SInv, Runs
  <2> QED
    BY <1>1, <2>1, <2>2 DEF SInv, Runs
<1>4. CASE UNCHANGED vars
  <2>1. Runs
    BY <1>4, QuietRuns DEF vars, netVars, runVars, SInv
  <2>2. Ordered'
    BY <2>1, StillOrdered DEF SInv, Runs
  <2> QED
    BY <1>1, <2>1, <2>2 DEF SInv, Runs
<1> QED
  BY <1>2, <1>3, <1>4 DEF Next

LEMMA SInvAdmitted == SInv => StreamAdmitted
<1> SUFFICES ASSUME SInv, Streams, NEW p \in Batch, rec[p].pc = "rejected" PROVE faults > 0
  BY DEF StreamAdmitted
<1>1. batch \in DOMAIN args.script /\ StreamBatch(batch) /\ p \in IdsOf(batch)
  BY BatchIs DEF SInv, Streams, Batch
<1>2. ~Lanes
  BY <1>1 DEF Lanes, LaneSound
<1>3. faults # 0 /\ faults \in Nat
  BY <1>2 DEF SInv
<1> QED
  BY <1>3

\* No node refuses a transaction of a stream unless a request failed or a node restarted:
\* reserved nonces, lanes and the affinity of a wallet to its node see to that, with any
\* number of nodes, however far they are apart, in any order of the streams.
THEOREM StreamsAdmitted == Spec => []StreamAdmitted
  BY InitSInv, SInvNext, SInvAdmitted, PTL DEF Spec

--------------------------------------------------------------------------------
(* The order of the transactions of one wallet.  What is to be shown is that *)
(* the transactions below the one that is sent again have all been resolved. *)
(* Only a batch that was reached has nonces (Reached), the batches before    *)
(* the one at hand are done, and the next nonce of a wallet is above all     *)
(* that it gave (Counting).  So a wallet has no lower nonce in a later batch *)
(* and, within the batch, a receipt worker goes either by nonces or by the   *)
(* order of the plans, along which the nonces ascend outside of streams      *)
(* (Ascending).  A stream reserves its nonces by the ids of the plans, so    *)
(* that the order of the plans says nothing there: the exception made.       *)

\* All plans that a script may have.
Planned == {Plan(i, s, kind, rpc) : i \in 1..4, s \in Sender, kind \in {"write", "fail", "observe"}, rpc \in 0..1}

\* The batches of a script are in the plans one after the other.
Joined == /\ Plans \in Seq(Planned)
          /\ \A b \in DOMAIN args.script : \A i \in DOMAIN args.script[b] :
                \E j \in DOMAIN Plans : Plans[j] = args.script[b][i]

\* All that u holds, w holds.
Listed(u, w) == \A i \in DOMAIN u : \E j \in DOMAIN w : w[j] = u[i]
Planner == Seq(Planned)

\* What two sequences of plans hold, their concatenation holds.
LEMMA InJoin ==
  ASSUME NEW u, NEW v, NEW w, u \in Planner, v \in Planner, w = u \o v
  PROVE  w \in Planner /\ Listed(u, w) /\ Listed(v, w)
<1>0. u \in Seq(Planned) /\ v \in Seq(Planned)
  BY DEF Planner
<1>1. /\ w \in Seq(Planned) /\ Len(w) = Len(u) + Len(v)
      /\ \A i \in 1..(Len(u) + Len(v)) : w[i] = IF i <= Len(u) THEN u[i] ELSE v[i - Len(u)]
  BY <1>0, ConcatProperties
<1>2. /\ DOMAIN w = 1..Len(w) /\ DOMAIN u = 1..Len(u) /\ DOMAIN v = 1..Len(v)
      /\ Len(u) \in Nat /\ Len(v) \in Nat
  BY <1>0, <1>1
<1>3. ASSUME NEW i \in 1..Len(u) PROVE i \in DOMAIN w /\ w[i] = u[i]
  BY <1>1, <1>2
<1>4. ASSUME NEW i \in 1..Len(v) PROVE Len(u) + i \in DOMAIN w /\ w[Len(u) + i] = v[i]
  <2>1. Len(u) + i \in 1..(Len(u) + Len(v)) /\ ~(Len(u) + i <= Len(u)) /\ Len(u) + i - Len(u) = i
    BY <1>2
  <2> QED
    BY <1>1, <1>2, <2>1
<1> QED
  BY <1>1, <1>2, <1>3, <1>4 DEF Listed, Planner

\* The plans of scripts of one, two and three batches.
LEMMA OneJoined ==
  ASSUME NEW x \in Seq(Planned), args.script = <<x>> PROVE Joined
<1>1. Plans = x
  BY JoinOne DEF Plans
<1>2. \A b \in DOMAIN args.script : args.script[b] = x
  OBVIOUS
<1> QED
  BY <1>1, <1>2 DEF Joined

LEMMA TwoJoined ==
  ASSUME NEW x \in Seq(Planned), NEW y \in Seq(Planned), args.script = <<x, y>> PROVE Joined
<1>1. PICK w : w = x \o y
  OBVIOUS
<1>2. x \in Planner /\ y \in Planner
  BY DEF Planner
<1>3. w \in Planner /\ Listed(x, w) /\ Listed(y, w)
  BY <1>1, <1>2, InJoin
<1>4. \A b \in DOMAIN args.script : args.script[b] = x \/ args.script[b] = y
  OBVIOUS
<1>5. Plans = w
  BY <1>1, JoinTwo DEF Plans
<1> QED
  BY <1>3, <1>4, <1>5 DEF Joined, Listed, Planner

\* Three sequences joined.
LEMMA JoinThree ==
  ASSUME NEW seqs, Len(seqs) = 3
  PROVE  \E w : w = seqs[1] \o seqs[2] /\ FlattenSeq(seqs) = w \o seqs[3]
<1> DEFINE x == seqs[1]
           y == seqs[2]
           z == seqs[3]
<1>0. PICK w : w = x \o y
  OBVIOUS
<1> DEFINE IsJoin(f) == f = [i \in 1..Len(seqs) |-> IF i = 1 THEN seqs[i] ELSE f[i - 1] \o seqs[i]]
<1>1. FlattenSeq(seqs) = (CHOOSE f : IsJoin(f))[3]
  BY DEF FlattenSeq
<1>2. Len(seqs) = 3 /\ seqs[1] = x /\ seqs[2] = y /\ seqs[3] = z
  OBVIOUS
<1>3. PICK f : f = [i \in 1..3 |-> IF i = 1 THEN x ELSE IF i = 2 THEN w ELSE w \o z]
  OBVIOUS
<1>4. IsJoin(f)
  <2>1. \A i \in 1..3 : i = 1 \/ i = 2 \/ i = 3
    OBVIOUS
  <2>2. f[1] = x /\ f[2] = w /\ f[3] = w \o z
    BY <1>3
  <2>3. \A i \in 1..3 : (IF i = 1 THEN x ELSE IF i = 2 THEN w ELSE w \o z)
                        = (IF i = 1 THEN seqs[i] ELSE f[i - 1] \o seqs[i])
    <3>1. 2 - 1 = 1 /\ 3 - 1 = 2 /\ 2 # 1 /\ 3 # 1 /\ 3 # 2
      OBVIOUS
    <3>2. f[2 - 1] \o seqs[2] = w
      BY <1>0, <1>2, <2>2, <3>1, Zenon
    <3>3. f[3 - 1] \o seqs[3] = w \o z
      BY <1>2, <2>2, <3>1, Zenon
    <3> QED
      BY <1>2, <2>1, <3>1, <3>2, <3>3, Zenon
  <2> QED
    BY <1>2, <1>3, <2>3
<1> HIDE DEF IsJoin
<1>5. PICK g : g = (CHOOSE h : IsJoin(h))
  OBVIOUS
<1>7. IsJoin(g)
  BY <1>4, <1>5, Zenon
<1>6. g = [i \in 1..3 |-> IF i = 1 THEN seqs[i] ELSE g[i - 1] \o seqs[i]]
  BY <1>2, <1>7 DEF IsJoin
<1>8. g[1] = x
  BY <1>2, <1>6
<1>9. g[2] = g[1] \o y
  <2>1. 2 \in 1..3 /\ 2 - 1 = 1 /\ 2 # 1
    OBVIOUS
  <2>2. g[2] = IF 2 = 1 THEN seqs[2] ELSE g[2 - 1] \o seqs[2]
    BY <1>6, <2>1
  <2> QED
    BY <1>2, <2>1, <2>2
<1>10. g[3] = g[2] \o z
  <2>1. 3 \in 1..3 /\ 3 - 1 = 2 /\ 3 # 1
    OBVIOUS
  <2>2. g[3] = IF 3 = 1 THEN seqs[3] ELSE g[3 - 1] \o seqs[3]
    BY <1>6, <2>1
  <2> QED
    BY <1>2, <2>1, <2>2
<1> QED
  BY <1>0, <1>1, <1>5, <1>8, <1>9, <1>10

LEMMA ThreeJoined ==
  ASSUME NEW x \in Seq(Planned), NEW y \in Seq(Planned), NEW z \in Seq(Planned),
         args.script = <<x, y, z>>
  PROVE  Joined
<1>1. PICK w : w = x \o y /\ Plans = w \o z
  <2>0. PICK s : s = <<x, y, z>>
    OBVIOUS
  <2>1. Len(s) = 3 /\ s[1] = x /\ s[2] = y /\ s[3] = z
    BY <2>0
  <2>3. PICK w : w = s[1] \o s[2] /\ FlattenSeq(s) = w \o s[3]
    BY <2>1, JoinThree, Zenon
  <2>2. Plans = FlattenSeq(s)
    BY <2>0 DEF Plans
  <2> QED
    BY <2>1, <2>2, <2>3, Zenon
<1>2. PICK v : v = w \o z
  OBVIOUS
<1>3. x \in Planner /\ y \in Planner /\ z \in Planner
  BY DEF Planner
<1>4. w \in Planner /\ Listed(x, w) /\ Listed(y, w)
  BY <1>1, <1>3, InJoin
<1>5. v \in Planner /\ Listed(w, v) /\ Listed(z, v)
  BY <1>2, <1>3, <1>4, InJoin
<1>6. \A b \in DOMAIN args.script : args.script[b] = x \/ args.script[b] = y \/ args.script[b] = z
  OBVIOUS
<1>7. Plans = v
  BY <1>1, <1>2
<1>8. Listed(x, v) /\ Listed(y, v)
  BY <1>4, <1>5 DEF Listed
<1> QED
  BY <1>5, <1>6, <1>7, <1>8 DEF Joined, Listed, Planner

\* An operation is of one batch.
BatchesApart == \A b, c \in DOMAIN args.script : b # c => IdsOf(b) \cap IdsOf(c) = {}

\* What a plan holds.
LEMMA PlanIs ==
  ASSUME NEW i, NEW s, NEW kind, NEW rpc
  PROVE  /\ Plan(i, s, kind, rpc).id = i /\ Plan(i, s, kind, rpc).sender = s
         /\ i \in 1..4 /\ s \in Sender /\ kind \in {"write", "fail", "observe"} /\ rpc \in 0..1
              => Plan(i, s, kind, rpc) \in Planned
  BY DEF Plan, Planned

\* The scripts, as far as the order of transactions goes.
LEMMA ScriptIs == ASSUME Scripted PROVE Joined /\ BatchesApart
<1>1. CASE args.scenario = "counter_basic"
  <2> DEFINE x == <<Plan(1, 1, "write", 0), Plan(2, 2, "write", 1), Plan(3, 1, "write", 0)>>
  <2>1. args.script = <<x>>
    BY <1>1 DEF Scripted, Scripts, CounterBasic
  <2>2. x \in Seq(Planned)
    BY PlanIs DEF Sender
  <2> HIDE DEF x
  <2> QED
    BY <2>1, <2>2, OneJoined DEF BatchesApart
<1>2. CASE args.scenario = "dex_mixed"
  <2> DEFINE a == Plan(1, 1, "write", 0)
             b == Plan(2, 1, "write", 0)
             c == Plan(3, 2, "fail", 1)
             d == Plan(4, 1, "write", 1)
  <2>1. args.script = << <<a>>, <<b, c>>, <<d>> >>
    BY <1>2 DEF Scripted, Scripts, DexMixed, DexSetup, DexRound, DexFinal
  <2>2. a \in Planned /\ b \in Planned /\ c \in Planned /\ d \in Planned
    BY PlanIs DEF Sender
  <2>3. a.id = 1 /\ b.id = 2 /\ c.id = 3 /\ d.id = 4
    BY PlanIs
  <2> HIDE DEF a, b, c, d
  <2>4. <<a>> \in Seq(Planned) /\ <<b, c>> \in Seq(Planned) /\ <<d>> \in Seq(Planned)
    BY <2>2
  <2>5. Joined
    BY <2>1, <2>4, ThreeJoined
  <2>6. DOMAIN args.script = {1, 2, 3} /\ IdsOf(1) = {1} /\ IdsOf(2) = {2, 3} /\ IdsOf(3) = {4}
    <3>1. args.script[1] = <<a>> /\ args.script[2] = <<b, c>> /\ args.script[3] = <<d>>
      BY <2>1
    <3>2. DOMAIN args.script[1] = {1} /\ DOMAIN args.script[2] = {1, 2} /\ DOMAIN args.script[3] = {1}
      BY <3>1
    <3> QED
      BY <2>1, <2>3, <3>1, <3>2 DEF IdsOf
  <2> QED
    BY <2>5, <2>6 DEF BatchesApart
<1>3. CASE args.scenario = "parallel_probe"
  <2> DEFINE a == Plan(1, 1, "write", 0)
             b == Plan(2, 1, "write", 0)
             c == Plan(3, 1, "write", 0)
             d == Plan(4, 2, "observe", 0)
             e == Plan(2, 2, "observe", 0)
  <2>1. args.script = << <<a, b>>, <<c, d>> >> \/ args.script = << <<a, e, c>> >>
    BY <1>3 DEF Scripted, Scripts, ParallelProbe, SameSender, ReadAfterWrite, PrefixScan
  <2>2. a \in Planned /\ b \in Planned /\ c \in Planned /\ d \in Planned /\ e \in Planned
    BY PlanIs DEF Sender
  <2>3. a.id = 1 /\ b.id = 2 /\ c.id = 3 /\ d.id = 4
    BY PlanIs
  <2> HIDE DEF a, b, c, d, e
  <2>4. <<a, b>> \in Seq(Planned) /\ <<c, d>> \in Seq(Planned) /\ <<a, e, c>> \in Seq(Planned)
    BY <2>2
  <2>5. CASE args.script = << <<a, b>>, <<c, d>> >>
    <3>1. DOMAIN args.script = {1, 2} /\ IdsOf(1) = {1, 2} /\ IdsOf(2) = {3, 4}
      <4>1. args.script[1] = <<a, b>> /\ args.script[2] = <<c, d>>
        BY <2>5
      <4>2. DOMAIN args.script[1] = {1, 2} /\ DOMAIN args.script[2] = {1, 2}
        BY <4>1
      <4> QED
        BY <2>3, <2>5, <4>1, <4>2 DEF IdsOf
    <3>2. BatchesApart
      BY <3>1 DEF BatchesApart
    <3>3. Joined
      BY <2>4, <2>5, TwoJoined, Zenon
    <3> QED
      BY <3>2, <3>3
  <2>6. CASE args.script = << <<a, e, c>> >>
    <3>1. DOMAIN args.script = {1}
      BY <2>6
    <3>2. BatchesApart
      BY <3>1 DEF BatchesApart
    <3>3. Joined
      BY <2>4, <2>6, OneJoined, Zenon
    <3> QED
      BY <3>2, <3>3
  <2> QED
    BY <2>1, <2>5, <2>6
<1>4. CASE args.scenario = "transfer_fanout"
  <2> DEFINE plans == <<Plan(1, 1, "write", 0), Plan(2, 1, "write", 0), Plan(3, 2, "write", 1)>>
             x == [k \in 1..3 |-> plans[Shuffle[k]]]
  <2>1. args.script = <<x>>
    BY <1>4 DEF Scripted, Scripts, TransferFanout
  <2>2. \A j \in 1..3 : plans[j] \in Planned
    BY PlanIs DEF Sender
  <2>3. \A k \in 1..3 : plans[Shuffle[k]] \in Planned
    BY <2>2, ShuffleAssumption
  <2>4. x \in Seq(Planned)
    BY <2>3
  <2> HIDE DEF x
  <2> QED
    BY <2>1, <2>4, OneJoined DEF BatchesApart
<1>5. CASE args.scenario = "contract_heavy"
  <2> DEFINE a == Plan(1, 2, "write", 0)
             b == Plan(3, 1, "write", 0)
             c == Plan(2, 1, "write", 0)
  <2>1. args.script = << <<a>>, <<b, c>> >>
    BY <1>5 DEF Scripted, Scripts, ContractHeavy
  <2>2. a \in Planned /\ b \in Planned /\ c \in Planned
    BY PlanIs DEF Sender
  <2>3. a.id = 1 /\ b.id = 3 /\ c.id = 2
    BY PlanIs
  <2> HIDE DEF a, b, c
  <2>4. <<a>> \in Seq(Planned) /\ <<b, c>> \in Seq(Planned)
    BY <2>2
  <2>5. DOMAIN args.script = {1, 2} /\ IdsOf(1) = {1} /\ IdsOf(2) = {2, 3}
    <3>1. args.script[1] = <<a>> /\ args.script[2] = <<b, c>>
      BY <2>1
    <3>2. DOMAIN args.script[1] = {1} /\ DOMAIN args.script[2] = {1, 2}
      BY <3>1
    <3> QED
      BY <2>1, <2>3, <3>1, <3>2 DEF IdsOf
  <2>6. BatchesApart
    BY <2>5 DEF BatchesApart
  <2>7. Joined
    BY <2>1, <2>4, TwoJoined, Zenon
  <2> QED
    BY <2>6, <2>7
<1> QED
  BY <1>1, <1>2, <1>3, <1>4, <1>5, ScenarioAssumption DEF Scripted

\* The place of an operation among the plans is its own.
LEMMA PositionIs ==
  ASSUME Scripted
  PROVE  /\ \A p \in Id : Position(p) \in Nat /\ Plans[Position(p)].id = p /\ P(p).sender \in Sender
         /\ \A p, q \in Id : Position(p) = Position(q) => p = q
         /\ Id \subseteq 1..4 /\ IsFiniteSet(Id)
<1>1. Joined
  BY ScriptIs
<1>2. \A plan \in Planned : plan.id \in 1..4 /\ plan.sender \in Sender
  BY DEF Planned, Plan
<1>3. DOMAIN Plans \subseteq Nat /\ \A j \in DOMAIN Plans : Plans[j] \in Planned
  <2>1. Plans \in Seq(Planned)
    BY <1>1 DEF Joined
  <2> QED
    BY <2>1
<1>4. ASSUME NEW p \in Id
      PROVE  /\ Position(p) \in Nat /\ Plans[Position(p)].id = p /\ P(p).sender \in Sender /\ p \in 1..4
  <2>0. PICK b \in DOMAIN args.script : p \in IdsOf(b)
    BY DEF Id
  <2>1. PICK i \in DOMAIN args.script[b] : p = args.script[b][i].id
    BY <2>0 DEF IdsOf
  <2>2. PICK j \in DOMAIN Plans : Plans[j].id = p
    BY <1>1, <2>1 DEF Joined
  <2>3. Position(p) \in DOMAIN Plans /\ Plans[Position(p)].id = p
    BY <2>2 DEF Position
  <2>4. P(p) = Plans[Position(p)]
    BY DEF P, Position
  <2> QED
    BY <1>2, <1>3, <2>3, <2>4
<1>5. IsFiniteSet(Id)
  <2>1. IsFiniteSet(1..4)
    <3>1. \A a, b \in Int : IsFiniteSet(a..b)
      BY FS_Interval
    <3>2. 1 \in Int /\ 4 \in Int
      OBVIOUS
    <3> QED
      BY <3>1, <3>2, Zenon
  <2>2. Id \subseteq 1..4
    BY <1>4
  <2> QED
    BY <2>1, <2>2, FS_Subset
<1>6. \A p, q \in Id : Position(p) = Position(q) => p = q
  BY <1>4
<1>7. Id \subseteq 1..4
  BY <1>4
<1> HIDE DEF Position
<1> QED
  BY <1>4, <1>5, <1>6, <1>7

\* A record has a nonce once it is prepared.
Nonced == \A p \in Id : IF rec[p].pc = "todo" THEN rec[p].nonce = None ELSE rec[p].nonce \in Nat
\* Only the batches up to the one at hand have been begun.
Reached == \A p \in Id : rec[p].pc # "todo" => \E b \in 1..batch : p \in IdsOf(b)
\* The next nonce of a wallet is above those it gave.
Counting ==
    /\ nextNonce = [s \in Sender |-> nextNonce[s]]
    /\ \A s \in Sender : nextNonce[s] = None \/ nextNonce[s] \in Nat
    /\ \A p \in Id : rec[p].pc # "todo" =>
          nextNonce[P(p).sender] \in Nat /\ rec[p].nonce < nextNonce[P(p).sender]
\* Outside of streams the nonces of a wallet ascend in the order of the plans.
Ascending == ~Streams =>
    \A p, q \in Batch :
        P(q).sender = P(p).sender /\ Position(q) < Position(p) /\ rec[p].pc # "todo" =>
            rec[q].pc # "todo" /\ rec[q].nonce < rec[p].nonce
\* Only streams reserve their nonces.
Reserving == phase \in {"sees", "reserve"} => Streams
\* What holds whenever a step is taken.
OInv == VInv /\ Nonced /\ Reached /\ Counting /\ Ascending /\ Reserving

\* Records that have no nonce are left alone.
NoneBegun == \A p \in Id : rec[p].pc = "todo" => rec'[p].pc = "todo" /\ rec'[p].nonce = rec[p].nonce

\* The script gives the order.
LEMMA SameOrder ==
  ASSUME args' = args
  PROVE  Id' = Id /\ \A p : P(p)' = P(p) /\ Position(p)' = Position(p) /\ \A b : IdsOf(b)' = IdsOf(b)
  BY SameIds DEF Position, Plans, IdsOf

\* Steps that prepare nothing keep the order.
LEMMA OrderKept ==
  ASSUME OInv, args' = args, batch' = batch, nextNonce' = nextNonce, RecKept, NoneBegun
  PROVE  Nonced' /\ Reached' /\ Counting' /\ Ascending'
<1>1. Id' = Id /\ \A p : P(p)' = P(p) /\ Position(p)' = Position(p) /\ \A b : IdsOf(b)' = IdsOf(b)
  BY SameOrder
<1>2. \A p \in Id : (rec'[p].pc = "todo" <=> rec[p].pc = "todo") /\ rec'[p].nonce = rec[p].nonce
  BY DEF RecKept, NoneBegun
<1>3. Nonced'
  BY <1>1, <1>2 DEF OInv, Nonced
<1>4. Reached'
  BY <1>1, <1>2 DEF OInv, Reached
<1>5. Counting'
  BY <1>1, <1>2 DEF OInv, Counting
<1>6. Batch' = Batch /\ (Streams' <=> Streams) /\ Batch \subseteq Id
  BY <1>1, BatchIs DEF OInv, Batch, Streams, StreamBatch
<1>7. Ascending'
  BY <1>1, <1>2, <1>6 DEF OInv, Ascending
<1> QED
  BY <1>3, <1>4, <1>5, <1>7

\* The first nonce of a wallet is a number, above all that it gave.
LEMMA NonceIs ==
  ASSUME VInv, NEW n \in Node, NEW s
  PROVE  /\ NextNonce(n, s) \in Nat /\ NextNonce(n, s) <= Cardinality(Ledger) + Cardinality(Id)
         /\ Cardinality(Ledger) \in Nat /\ Cardinality(Id) \in Nat
<1>1. IsFiniteSet(Ledger)
  BY DEF VInv, IInv, Shaped
<1>2. IsFiniteSet(From(Executed(n), s)) /\ Cardinality(From(Executed(n), s)) <= Cardinality(Ledger)
  BY <1>1, ExecutedPart, FS_Subset
<1>3. IsFiniteSet(From(pool[n], s)) /\ Cardinality(From(pool[n], s)) <= Cardinality(Id)
  <2> DEFINE T == From(pool[n], s)
             f == [t \in T |-> t.id]
  <2>1. \A t \in T : t.id \in Id /\ t = Tx(t.id)
    BY DEF VInv, IInv, PoolsGenuine, Genuine, From
  <2>2. f \in [T -> Id]
    BY <2>1
  <2>3. ASSUME NEW t \in T, NEW u \in T, f[t] = f[u] PROVE t = u
    <3>1. t.id = u.id
      BY <2>3
    <3>2. Tx(t.id) = Tx(u.id)
      BY <3>1
    <3> QED
      BY <2>1, <3>2
  <2>4. f \in Injection(T, Id)
    <3>1. \A t, u \in T : f[t] = f[u] => t = u
      BY <2>3
    <3> HIDE DEF f
    <3> QED
      BY <2>2, <3>1, Fun_IsInj
  <2>5. IsFiniteSet(Id)
    BY PositionIs DEF VInv, IInv
  <2> HIDE DEF f
  <2> QED
    BY <2>4, <2>5, FS_Injection
<1>4. IsFiniteSet(Id)
  BY PositionIs DEF VInv, IInv
<1>5. /\ Cardinality(Ledger) \in Nat /\ Cardinality(Id) \in Nat
      /\ Cardinality(From(Executed(n), s)) \in Nat /\ Cardinality(From(pool[n], s)) \in Nat
  BY <1>1, <1>2, <1>3, <1>4, FS_CardinalityType
<1> QED
  BY <1>2, <1>3, <1>5 DEF NextNonce

\* A set of natural numbers that has a bound has a greatest one.
LEMMA GreatestOf ==
  ASSUME NEW T \in SUBSET Nat, T # {}, NEW c \in Nat, \A y \in T : y <= c
  PROVE  (\E x \in T : \A y \in T : y <= x) /\ Max(T) \in T
<1> DEFINE U == {k \in Nat : \E y \in T : y = c - k}
<1>1. \A y \in T : c - y \in U
  BY DEF U
<1>2. PICK k \in U : \A l \in U : ~(<<l, k>> \in OpToRel(<, Nat))
  <2>1. IsWellFoundedOn(OpToRel(<, Nat), Nat)
    BY NatLessThanWellFounded
  <2>2. U # {} /\ U \in SUBSET Nat
    BY <1>1
  <2> HIDE DEF U
  <2> QED
    BY <2>1, <2>2, WFMin
<1>3. \A l \in U : ~(l < k)
  BY <1>2 DEF OpToRel
<1>4. PICK x \in T : x = c - k
  BY DEF U
<1>5. ASSUME NEW y \in T PROVE y <= x
  <2>1. ~(c - y < k) /\ k \in Nat /\ x \in Nat /\ y \in Nat
    BY <1>1, <1>3
  <2> QED
    BY <1>4, <2>1
<1> QED
  BY <1>5 DEF Max

\* reserve_nonces gives a number, none that the wallet has given.
LEMMA FirstIs ==
  ASSUME OInv, NEW s \in Sender, NEW rpc, NEW R \in SUBSET Node, R # {},
         NEW first, first = FirstNonce(s, rpc, R)
  PROVE  /\ first \in Nat
         /\ \A p \in Id : P(p).sender = s /\ rec[p].pc # "todo" => rec[p].nonce < first
<1>1. CASE nextNonce[s] # None
  BY <1>1 DEF OInv, Counting, FirstNonce
<1>2. CASE nextNonce[s] = None
  <2>1. \A p \in Id : P(p).sender = s => rec[p].pc = "todo"
    BY <1>2 DEF OInv, Counting, None
  <2>2. Healthy(rpc, R) = AtTop(R)
    BY DEF Healthy
  <2>3. AtTop(R) # {} /\ AtTop(R) \subseteq Node
    <3> DEFINE H == {view[n] : n \in R}
    <3>1. \A h \in H : h \in Nat /\ h <= Len(chain)
      BY ExecutedPart DEF OInv
    <3>2. H \in SUBSET Nat /\ H # {} /\ Len(chain) \in Nat
      BY <3>1 DEF OInv, VInv, Views
    <3>3. \E h \in H : \A g \in H : g <= h
      <4> HIDE DEF H
      <4> QED
        BY <3>1, <3>2, GreatestOf
    <3>4. \E h \in H : \A n \in R : view[n] <= h
      BY <3>3
    <3>5. Top(R) \in H
      BY <3>4 DEF Top
    <3> QED
      BY <3>5 DEF AtTop
  <2>4. first \in Nat
    <3> DEFINE T == {NextNonce(n, s) : n \in Healthy(rpc, R)}
               c == Cardinality(Ledger) + Cardinality(Id)
    <3>1. first = Max(T)
      BY <1>2 DEF FirstNonce
    <3>2. c \in Nat
      BY NodesAssumption, NonceIs DEF OInv, Node
    <3>3. T \in SUBSET Nat /\ T # {} /\ \A y \in T : y <= c
      BY <2>2, <2>3, NonceIs DEF OInv
    <3> HIDE DEF T, c
    <3>4. Max(T) \in T
      BY <3>2, <3>3, GreatestOf
    <3> QED
      BY <3>1, <3>3, <3>4
  <2> QED
    BY <2>1, <2>4
<1> QED
  BY <1>1, <1>2

\* Other records than that of p are left alone, and p keeps its nonce.
LEMMA OneBegun ==
  ASSUME NEW p \in Id, rec[p].pc # "todo", \A q \in Id \ {p} : rec'[q] = rec[q] PROVE NoneBegun
  BY DEF NoneBegun

\* An attempt or a receipt is of one record, which has its nonce.
LEMMA SendBegins ==
  ASSUME VInv, NEW p \in Id, Send(p) \/ Rebroadcast(p) \/ Found(p) \/ Rejected(p) \/ TimedOut(p)
  PROVE  rec[p].pc # "todo" /\ \A q \in Id \ {p} : rec'[q] = rec[q]
<1>1. rec = [q \in Id |-> rec[q]]
  BY DEF VInv, IInv, Shaped, WellShaped
<1>2. CASE Send(p)
  BY <1>1, <1>2 DEF Send, Answered, Unanswered, NextAttempt
<1>3. CASE Rebroadcast(p)
  BY <1>1, <1>3 DEF Rebroadcast, TakenAgain, NotTakenAgain, NextAttempt
<1>4. CASE Found(p) \/ Rejected(p)
  BY <1>1, <1>4 DEF Found, Rejected, Conclude
<1>5. CASE TimedOut(p)
  BY <1>1, <1>5 DEF TimedOut
<1> QED
  BY <1>2, <1>3, <1>4, <1>5

\* The nonce that broadcast_tx takes is above all of the wallet.
LEMMA PrepareOrders ==
  ASSUME OInv, NEW p \in Id, Prepare(p) PROVE Nonced' /\ Reached' /\ Counting' /\ Ascending'
<1> DEFINE s == P(p).sender
<1>1. PICK R, nonce :
        /\ R \in SUBSET Node /\ R # {}
        /\ nonce = FirstNonce(s, P(p).rpc, R)
        /\ rec' = [rec EXCEPT ![p].pc = "send", ![p].nonce = nonce]
        /\ nextNonce' = [nextNonce EXCEPT ![s] = nonce + 1]
  <2>1. PICK R \in (SUBSET Node) \ {{}} :
          LET nonce == FirstNonce(P(p).sender, P(p).rpc, R)
          IN  /\ rec' = [rec EXCEPT ![p].pc = "send", ![p].nonce = nonce]
              /\ nextNonce' = [nextNonce EXCEPT ![P(p).sender] = nonce + 1]
    BY DEF Prepare
  <2>2. R \in SUBSET Node /\ R # {}
    BY <2>1
  <2>3. PICK nonce : nonce = FirstNonce(P(p).sender, P(p).rpc, R)
    OBVIOUS
  <2> QED
    BY <2>1, <2>2, <2>3
<1>2. /\ p \in Batch /\ rec[p].pc = "todo" /\ args' = args /\ batch' = batch
      /\ \A q \in Batch : LaneBefore(q, p) => rec[q].pc \in {"sent", "rejected"}
  BY DEF Prepare, SendTurn
<1>3. /\ Id' = Id /\ \A q : P(q)' = P(q) /\ Position(q)' = Position(q) /\ \A b : IdsOf(b)' = IdsOf(b)
      /\ Batch' = Batch /\ (Streams' <=> Streams) /\ Batch \subseteq Id
  BY <1>2, SameOrder, BatchIs DEF OInv, Batch, Streams, StreamBatch
<1>4. s \in Sender /\ \A q \in Id : P(q).sender \in Sender
  BY PositionIs DEF OInv, VInv, IInv
<1>5. nonce \in Nat /\ \A q \in Id : P(q).sender = s /\ rec[q].pc # "todo" => rec[q].nonce < nonce
  BY <1>1, <1>4, FirstIs
<1>6. /\ \A q \in Id \ {p} : rec'[q] = rec[q]
      /\ rec'[p].pc = "send" /\ rec'[p].nonce = nonce
  <2>1. rec = [q \in Id |-> rec[q]]
        /\ rec[p] = [pc |-> rec[p].pc, nonce |-> rec[p].nonce, attempt |-> rec[p].attempt,
                     tried |-> rec[p].tried, place |-> rec[p].place]
    BY DEF OInv, VInv, IInv, Shaped, WellShaped, Shape
  <2>2. rec'[p] = [rec[p] EXCEPT !.pc = "send", !.nonce = nonce]
    BY <1>1, <2>1
  <2> QED
    BY <1>1, <2>1, <2>2
<1>7. Nonced'
  BY <1>3, <1>5, <1>6 DEF OInv, Nonced
<1>8. Reached'
  <2>1. batch \in 1..batch /\ p \in IdsOf(batch)
    BY <1>2 DEF OInv, VInv, BatchesDone, Batch
  <2> QED
    BY <1>2, <1>3, <1>6, <2>1 DEF OInv, Reached
<1>9. Counting'
  <2>1. /\ nextNonce' = [r \in Sender |-> nextNonce'[r]] /\ nextNonce'[s] = nonce + 1
        /\ \A r \in Sender \ {s} : nextNonce'[r] = nextNonce[r]
    BY <1>1, <1>4 DEF OInv, Counting
  <2>2. \A r \in Sender : nextNonce'[r] = None \/ nextNonce'[r] \in Nat
    BY <1>5, <2>1 DEF OInv, Counting
  <2>3. ASSUME NEW q \in Id, rec'[q].pc # "todo"
        PROVE  nextNonce'[P(q).sender] \in Nat /\ rec'[q].nonce < nextNonce'[P(q).sender]
    <3>1. CASE q = p
      BY <1>5, <1>6, <2>1, <3>1
    <3>2. CASE q # p /\ P(q).sender = s
      BY <1>5, <1>6, <2>1, <2>3, <3>2 DEF OInv, Nonced
    <3>3. CASE q # p /\ P(q).sender # s
      BY <1>4, <1>6, <2>1, <2>3, <3>3 DEF OInv, Counting
    <3> QED
      BY <3>1, <3>2, <3>3
  <2> QED
    BY <1>3, <2>1, <2>2, <2>3 DEF Counting
<1>10. Ascending'
  <2> SUFFICES ASSUME ~Streams, NEW u \in Batch, NEW q \in Batch,
                      P(q).sender = P(u).sender, Position(q) < Position(u), rec'[u].pc # "todo"
               PROVE  rec'[q].pc # "todo" /\ rec'[q].nonce < rec'[u].nonce
    BY <1>3 DEF Ascending
  <2>1. q # u
    BY PositionIs, <1>3 DEF OInv, VInv, IInv
  <2>2. CASE u = p
    <3>1. LaneBefore(q, p)
      BY <2>2 DEF LaneBefore
    <3>2. rec[q].pc # "todo"
      BY <1>2, <3>1
    <3> QED
      BY <1>3, <1>5, <1>6, <2>1, <2>2, <3>2
  <2>3. CASE u # p
    <3>1. rec[q].pc # "todo" /\ rec[q].nonce < rec[u].nonce
      BY <1>3, <1>6, <2>3 DEF OInv, Ascending
    <3> QED
      BY <1>2, <1>3, <1>6, <2>3, <3>1
  <2> QED
    BY <2>2, <2>3
<1> QED
  BY <1>7, <1>8, <1>9, <1>10

\* The nonces of a stream are above all others of the wallet.
LEMMA ReserveOrders ==
  ASSUME OInv, NEW s \in Sender, ReserveStream(s) PROVE Nonced' /\ Reached' /\ Counting' /\ Ascending'
<1> DEFINE todo == {p \in Batch : rec[p].pc = "todo"}
           mine == {p \in todo : P(p).sender = s}
           Rank(p) == Cardinality({q \in mine : q < p})
           c == Cardinality(mine)
<1>1. PICK R, first :
        /\ R \in SUBSET Node /\ R # {} /\ first = FirstNonce(s, s - 1, R)
        /\ rec' = [p \in Id |-> IF p \in mine
                               THEN [rec[p] EXCEPT !.nonce = first + Rank(p), !.pc = "send"]
                               ELSE rec[p]]
        /\ nextNonce' = [nextNonce EXCEPT ![s] = first + c]
  <2>1. PICK R \in (SUBSET Node) \ {{}} :
          LET first == FirstNonce(s, s - 1, R)
          IN  /\ rec' = [p \in Id |-> IF p \in mine
                                     THEN [rec[p] EXCEPT !.nonce = first + Rank(p), !.pc = "send"]
                                     ELSE rec[p]]
              /\ nextNonce' = [nextNonce EXCEPT ![s] = first + c]
    BY DEF ReserveStream
  <2>2. R \in SUBSET Node /\ R # {}
    BY <2>1
  <2>3. PICK first : first = FirstNonce(s, s - 1, R)
    OBVIOUS
  <2> HIDE DEF mine, Rank, c
  <2> QED
    BY <2>1, <2>2, <2>3
<1>2. /\ mine # {} /\ phase = "reserve" /\ args' = args /\ batch' = batch
  BY DEF ReserveStream
<1>3. /\ Id' = Id /\ \A q : P(q)' = P(q) /\ Position(q)' = Position(q) /\ \A b : IdsOf(b)' = IdsOf(b)
      /\ Batch' = Batch /\ (Streams' <=> Streams) /\ Batch \subseteq Id
  BY <1>2, SameOrder, BatchIs DEF OInv, Batch, Streams, StreamBatch
<1>4. Id \subseteq 1..4 /\ IsFiniteSet(Id) /\ \A q \in Id : P(q).sender \in Sender
  BY PositionIs DEF OInv, VInv, IInv
<1>5. mine \subseteq Id /\ IsFiniteSet(mine) /\ c \in Nat /\ mine \subseteq Nat
  <2>1. mine \subseteq Id /\ mine \subseteq Nat
    <3>1. Batch \subseteq Id /\ Id \subseteq 1..4 /\ mine \subseteq Batch
      BY <1>3, <1>4
    <3> HIDE DEF mine
    <3> QED
      BY <3>1
  <2> HIDE DEF mine
  <2> QED
    BY <1>4, <2>1, FS_Subset, FS_CardinalityType
<1>6. first \in Nat /\ \A q \in Id : P(q).sender = s /\ rec[q].pc # "todo" => rec[q].nonce < first
  BY <1>1, FirstIs
<1>7. ASSUME NEW p \in mine PROVE Rank(p) \in Nat /\ Rank(p) < c
  <2> DEFINE low == {q \in mine : q < p}
  <2> HIDE DEF mine
  <2>1. low \in SUBSET mine /\ p \notin low /\ p \in mine
    BY <1>5
  <2> HIDE DEF low
  <2>2. Cardinality(low) \in Nat /\ Cardinality(low) <= c /\ Cardinality(low) # c
    BY <1>5, <2>1, FS_Subset, FS_CardinalityType
  <2> QED
    BY <1>5, <2>2 DEF low
<1>8. \A q \in Id \ mine : rec'[q] = rec[q]
  BY <1>1
<1>9. ASSUME NEW p \in mine
      PROVE  rec'[p].pc = "send" /\ rec'[p].nonce = first + Rank(p) /\ P(p).sender = s
  <2>1. PICK v : v = first + Rank(p)
    OBVIOUS
  <2>2. rec'[p] = [rec[p] EXCEPT !.nonce = v, !.pc = "send"]
    BY <1>1, <1>5, <2>1
  <2>3. rec[p] = [pc |-> rec[p].pc, nonce |-> rec[p].nonce, attempt |-> rec[p].attempt,
                  tried |-> rec[p].tried, place |-> rec[p].place]
    BY <1>5 DEF OInv, VInv, IInv, Shaped, WellShaped, Shape
  <2>4. P(p).sender = s
    OBVIOUS
  <2> HIDE DEF mine
  <2> QED
    BY <2>1, <2>2, <2>3, <2>4
<1>10. mine \subseteq IdsOf(batch) /\ batch \in 1..batch
  BY DEF OInv, VInv, BatchesDone, Batch
<1>11. Streams
  BY <1>2 DEF OInv, Reserving
<1> HIDE DEF mine, Rank, c
<1>12. Nonced'
  BY <1>3, <1>6, <1>7, <1>8, <1>9 DEF OInv, Nonced
<1>13. Reached'
  BY <1>2, <1>3, <1>8, <1>10 DEF OInv, Reached
<1>14. Counting'
  <2>1. /\ nextNonce' = [r \in Sender |-> nextNonce'[r]] /\ nextNonce'[s] = first + c
        /\ \A r \in Sender \ {s} : nextNonce'[r] = nextNonce[r]
    BY <1>1 DEF OInv, Counting
  <2>2. \A r \in Sender : nextNonce'[r] = None \/ nextNonce'[r] \in Nat
    BY <1>5, <1>6, <2>1 DEF OInv, Counting
  <2>3. ASSUME NEW q \in Id, rec'[q].pc # "todo"
        PROVE  nextNonce'[P(q).sender] \in Nat /\ rec'[q].nonce < nextNonce'[P(q).sender]
    <3>1. CASE q \in mine
      BY <1>5, <1>6, <1>7, <1>9, <2>1, <3>1
    <3>2. CASE q \notin mine /\ P(q).sender = s
      BY <1>5, <1>6, <1>8, <2>1, <2>3, <3>2 DEF OInv, Nonced
    <3>3. CASE q \notin mine /\ P(q).sender # s
      BY <1>4, <1>8, <2>1, <2>3, <3>3 DEF OInv, Counting
    <3> QED
      BY <3>1, <3>2, <3>3
  <2> QED
    BY <1>3, <2>1, <2>2, <2>3 DEF Counting
<1>15. Ascending'
  BY <1>3, <1>11 DEF Ascending
<1> QED
  BY <1>12, <1>13, <1>14, <1>15

\* What steps do to the order.
Order == Nonced /\ Reached /\ Counting /\ Ascending

\* Steps within a batch that begin no reservation.
LEMMA ReservingKept ==
  ASSUME OInv, args' = args, batch' = batch, phase' \in {"sees", "reserve"} => phase \in {"sees", "reserve"}
  PROVE  Reserving'
  BY DEF OInv, Reserving, Streams, StreamBatch

\* Steps that leave the records alone.
LEMMA QuietOrders ==
  ASSUME OInv, args' = args, batch' = batch, nextNonce' = nextNonce, rec' = rec,
         phase' \in {"sees", "reserve"} => phase \in {"sees", "reserve"}
  PROVE  Order' /\ Reserving'
<1>1. RecKept /\ NoneBegun
  BY RecSame DEF OInv, VInv, NoneBegun
<1> QED
  BY <1>1, OrderKept, ReservingKept DEF Order

\* Nothing of the next batch has been begun.
LEMMA BatchDoneOrders == ASSUME OInv, BatchDone PROVE Order' /\ Reserving'
<1>1. args' = args /\ rec' = rec /\ nextNonce' = nextNonce
  BY DEF BatchDone
<1>2. CASE batch < Len(args.script)
  <2>1. batch' = batch + 1 /\ phase' = IF StreamBatch(batch + 1) THEN "sees" ELSE "broadcast"
    BY <1>2 DEF BatchDone
  <2>2. /\ batch \in Nat /\ batch + 1 \in DOMAIN args.script /\ 1..batch \subseteq DOMAIN args.script
    BY <1>2, ScriptLength DEF OInv, VInv, IInv, BatchesDone
  <2>3. Id' = Id /\ \A p : P(p)' = P(p) /\ Position(p)' = Position(p) /\ \A b : IdsOf(b)' = IdsOf(b)
    BY <1>1, SameOrder
  <2>4. Nonced' /\ Counting'
    BY <1>1, <2>3 DEF OInv, Nonced, Counting
  <2>5. Reached'
    BY <1>1, <2>1, <2>2, <2>3 DEF OInv, Reached
  <2>6. Batch' = IdsOf(batch + 1)
    BY <1>1, <2>1 DEF Batch, IdsOf
  <2>7. \A p \in IdsOf(batch + 1) : rec[p].pc = "todo"
    <3> SUFFICES ASSUME NEW p \in IdsOf(batch + 1), rec[p].pc # "todo" PROVE FALSE
      OBVIOUS
    <3>1. p \in Id
      BY <2>2 DEF Id
    <3>2. PICK b \in 1..batch : p \in IdsOf(b)
      BY <3>1 DEF OInv, Reached
    <3>3. BatchesApart
      BY ScriptIs DEF OInv, VInv, IInv
    <3>4. b \in DOMAIN args.script /\ b # batch + 1
      BY <2>2
    <3> QED
      BY <2>2, <3>2, <3>3, <3>4 DEF BatchesApart
  <2>8. Ascending'
    BY <1>1, <2>6, <2>7 DEF Ascending
  <2>9. Reserving'
    BY <1>1, <2>1 DEF Reserving, Streams, StreamBatch
  <2> QED
    BY <2>4, <2>5, <2>8, <2>9 DEF Order
<1>3. CASE ~(batch < Len(args.script))
  <2>1. batch' = batch /\ phase' \notin {"sees", "reserve"}
    BY <1>3 DEF BatchDone
  <2> QED
    BY <1>1, <2>1, QuietOrders
<1> QED
  BY <1>2, <1>3

\* An attempt or a receipt.
LEMMA SendOrders ==
  ASSUME OInv, RecKept, NEW p \in Id, Send(p) \/ Rebroadcast(p) \/ Found(p) \/ Rejected(p) \/ TimedOut(p)
  PROVE  Order' /\ Reserving'
<1>1. NoneBegun
  BY SendBegins, OneBegun DEF OInv
<1>2. args' = args /\ batch' = batch /\ nextNonce' = nextNonce /\ phase' \in {phase, "failed"}
  BY DEF Send, Rebroadcast, Found, Rejected, TimedOut, Conclude
<1> QED
  BY <1>1, <1>2, OrderKept, ReservingKept DEF Order

\* The steps of the run, one by one.
LEMMA RunStepOrders == ASSUME OInv, RunStep PROVE Order' /\ Reserving'
<1>1. RecKept
  BY RunStepKeeps DEF OInv, VInv, Keeps
<1>2. ASSUME NEW s \in Sender, ReserveStream(s) PROVE Order' /\ Reserving'
  <2>1. args' = args /\ batch' = batch /\ phase = "reserve"
    BY <1>2 DEF ReserveStream
  <2> QED
    BY <1>2, <2>1, ReserveOrders, ReservingKept DEF Order
<1>3. ASSUME NEW p \in Id, Prepare(p) PROVE Order' /\ Reserving'
  <2>1. args' = args /\ batch' = batch /\ phase' = phase
    BY <1>3 DEF Prepare
  <2> QED
    BY <1>3, <2>1, PrepareOrders, ReservingKept DEF Order
<1>4. ASSUME NEW p \in Id, Send(p) \/ Rebroadcast(p) \/ Found(p) \/ Rejected(p) \/ TimedOut(p)
      PROVE  Order' /\ Reserving'
  BY <1>1, <1>4, SendOrders
<1>5. ASSUME NEW p \in Id, ReadFails(p) \/ SendFails(p) \/ NotFound(p) PROVE Order' /\ Reserving'
  BY <1>5, QuietOrders DEF ReadFails, SendFails, NotFound, Fail
<1>6. CASE BatchSent \/ PollNode \/ Polled \/ Drained \/ WaitFails
  BY <1>6, QuietOrders DEF BatchSent, PollNode, Polled, Drained, WaitFails, Fail
<1>7. CASE BatchDone
  BY <1>7, BatchDoneOrders
<1>8. CASE Observe \/ Sample \/ Compare \/ CompareAgain
  BY <1>8, QuietOrders DEF Observe, Sample, Compare, CompareAgain
<1> QED
  BY <1>2, <1>3, <1>4, <1>5, <1>6, <1>7, <1>8 DEF RunStep

LEMMA InitOInv == Init => OInv
<1> SUFFICES ASSUME Init PROVE OInv
  OBVIOUS
<1>1. VInv
  BY InitVInv
<1>2. \A p \in Id : rec[p].pc = "todo" /\ rec[p].nonce = None
  BY DEF Init, NewRecord
<1>3. nextNonce = [s \in Sender |-> None]
  BY DEF Init
<1>4. Nonced /\ Reached
  BY <1>2 DEF Nonced, Reached
<1>5. Counting
  BY <1>2, <1>3 DEF Counting
<1>6. Ascending
  BY <1>1, <1>2, BatchIs DEF Ascending
<1>7. Reserving
  BY DEF Init, Reserving
<1> QED
  BY <1>1, <1>4, <1>5, <1>6, <1>7 DEF OInv

LEMMA OInvNext == OInv /\ [Next]_vars => OInv'
<1> SUFFICES ASSUME OInv, [Next]_vars PROVE OInv'
  OBVIOUS
<1>1. VInv'
  BY VInvNext DEF OInv
<1>2. Order' /\ Reserving'
  <2>1. CASE RunStep
    BY <2>1, RunStepOrders
  <2>2. CASE UNCHANGED runVars
    BY <2>2, QuietOrders DEF runVars
  <2> QED
    BY <2>1, <2>2 DEF Next, vars
<1> QED
  BY <1>1, <1>2 DEF OInv, Order

\* Only rebroadcast_and_wait_for_receipt takes up a record whose receipt was not found.
LEMMA AgainIs ==
  ASSUME VInv, RunStep, NEW p \in Id, rec[p].pc = "again", rec'[p].attempt # rec[p].attempt
  PROVE  Rebroadcast(p)
<1>1. rec = [q \in Id |-> rec[q]]
  BY DEF VInv, IInv, Shaped, WellShaped
<1>2. ~(rec' = rec)
  OBVIOUS
<1>3. ASSUME NEW s \in Sender, ReserveStream(s) PROVE FALSE
  BY <1>3 DEF ReserveStream
<1>4. ASSUME NEW q \in Id, Prepare(q) PROVE FALSE
  <2>1. rec[q].pc = "todo" /\ \A r \in Id \ {q} : rec'[r] = rec[r]
    BY <1>1, <1>4 DEF Prepare
  <2> QED
    BY <2>1
<1>5. ASSUME NEW q \in Id, Send(q) \/ Found(q) \/ Rejected(q) \/ TimedOut(q) PROVE FALSE
  <2>1. \A r \in Id \ {q} : rec'[r] = rec[r]
    BY <1>5, SendBegins
  <2>2. rec[q].pc # "again"
    BY <1>5 DEF Send, Found, Rejected, TimedOut
  <2> QED
    BY <2>1, <2>2
<1>6. ASSUME NEW q \in Id, Rebroadcast(q) PROVE Rebroadcast(p)
  <2>1. \A r \in Id \ {q} : rec'[r] = rec[r]
    BY <1>6, SendBegins
  <2> QED
    BY <1>6, <2>1
<1>7. ASSUME NEW q \in Id, ReadFails(q) \/ SendFails(q) \/ NotFound(q) PROVE FALSE
  BY <1>2, <1>7 DEF ReadFails, SendFails, NotFound, Fail
<1>8. ~(BatchSent \/ PollNode \/ Polled \/ Drained \/ WaitFails)
  BY <1>2 DEF BatchSent, PollNode, Polled, Drained, WaitFails, Fail
<1>9. ~(BatchDone \/ Observe \/ Sample \/ Compare \/ CompareAgain)
  BY <1>2 DEF BatchDone, Observe, Sample, Compare, CompareAgain
<1> QED
  BY <1>3, <1>4, <1>5, <1>6, <1>7, <1>8, <1>9 DEF RunStep

\* A receipt worker comes to a transaction after those of its wallet with lower nonces.
LEMMA TurnInOrder ==
  ASSUME OInv, ~(Streams /\ args.resolution = "serial"), NEW p \in Id, ResolveTurn(p), rec[p].pc = "again",
         NEW q \in Id, P(q).sender = P(p).sender, rec[q].nonce \in 0..(rec[p].nonce - 1)
  PROVE  Places(q) # {}
<1>1. rec[p].nonce \in Nat /\ rec[q].nonce \in Nat /\ rec[q].nonce < rec[p].nonce /\ q # p
  BY DEF OInv, Nonced
<1>2. rec[q].pc # "todo"
  BY <1>1 DEF OInv, Nonced, None
<1>3. PICK b \in 1..batch : q \in IdsOf(b)
  BY <1>2 DEF OInv, Reached
<1>4. rec[q].pc = "done"
  <2>1. CASE b # batch
    <3>1. b \in 1..(batch - 1)
      BY <2>1 DEF OInv, VInv, BatchesDone
    <3> QED
      BY <1>3, <3>1 DEF OInv, VInv, BatchesDone
  <2>2. CASE b = batch
    <3>1. q \in Batch /\ p \in Batch
      BY <1>3, <2>2 DEF Batch, ResolveTurn
    <3>2. ResolveBefore(q, p)
      <4>1. CASE args.resolution # "serial"
        BY <1>1, <4>1 DEF ResolveBefore
      <4>2. CASE args.resolution = "serial"
        <5>1. Position(p) \in Nat /\ Position(q) \in Nat /\ Position(p) # Position(q)
          BY <1>1, PositionIs DEF OInv, VInv, IInv
        <5>2. ~(Position(p) < Position(q))
          BY <1>1, <1>2, <3>1, <4>2 DEF OInv, Ascending
        <5> QED
          BY <4>2, <5>1, <5>2 DEF ResolveBefore
      <4> QED
        BY <4>1, <4>2
    <3> QED
      BY <3>1, <3>2 DEF ResolveTurn
  <2> QED
    BY <2>1, <2>2
<1>5. rec[q].place \in 1..Len(chain) /\ chain[rec[q].place].id = q
  <2>1. rec[q].place \in 1..Len(chain) /\ chain[rec[q].place] = Tx(q)
    BY <1>4 DEF OInv, VInv, Placed
  <2>2. Tx(q).id = q
    BY DEF Tx
  <2> QED
    BY <2>1, <2>2
<1> QED
  BY <1>5 DEF Places

\* What a step that sends again keeps to.
OrderedStep == ~(Streams /\ args.resolution = "serial") => \A p \in Id : InOrder(p)
LEMMA OInvStep == OInv /\ [Next]_vars => [OrderedStep]_vars
<1> SUFFICES ASSUME OInv, Next, ~(Streams /\ args.resolution = "serial"), NEW p \in Id, Again(p),
                    NEW q \in Id, P(q).sender = P(p).sender, rec[q].nonce \in 0..(rec[p].nonce - 1)
             PROVE  Places(q) # {}
  BY DEF OrderedStep, InOrder
<1>1. rec[p].pc = "again" /\ rec'[p].attempt # rec[p].attempt
  BY DEF Again
<1>2. RunStep
  BY <1>1 DEF Next, runVars, vars
<1>3. Rebroadcast(p)
  BY <1>1, <1>2, AgainIs DEF OInv
<1>4. ResolveTurn(p)
  BY <1>3 DEF Rebroadcast
<1> QED
  BY <1>1, <1>4, TurnInOrder

\* A transaction is sent again only once all those of its sender with lower nonces are
\* executed, except for a stream that is resolved in the order of its plans.
THEOREM RebroadcastsInOrder == Spec => RebroadcastInOrder
<1>1. Init => OInv
  BY InitOInv
<1>2. OInv /\ [Next]_vars => OInv'
  BY OInvNext
<1>3. OInv /\ [Next]_vars => [OrderedStep]_vars
  BY OInvStep
<1>4. Spec => [][OrderedStep]_vars
  BY <1>1, <1>2, <1>3, PTL DEF Spec
<1> QED
  BY <1>4 DEF RebroadcastInOrder, OrderedStep
================================================================================
