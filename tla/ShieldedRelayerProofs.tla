------------------------- MODULE ShieldedRelayerProofs -------------------------
(***************************************************************************)
(* Proofs about ShieldedRelayer, for any number of requests, client ids,   *)
(* bodies and restarts and for any history limit and ttl.  The lemmas of   *)
(* the first part are about the operators on the store; the second part    *)
(* has the inductive invariant, the third the steps and the refinement.    *)
(***************************************************************************)
EXTENDS ShieldedRelayer, FiniteSetTheorems, WellFoundedInduction, TLAPS

StoreType(s) ==
    /\ Retained(s) \subseteq Task
    /\ s \in [jobs      : [Retained(s) -> Job],
              updatedAt : [Retained(s) -> Nat],
              order     : [Retained(s) -> Nat],
              seq       : Nat,
              index     : [ClientRequestId -> Entry \cup {NoJob}]]

\* nothing in the store is younger than time t or than the last move_to_end
StoreAges(s, t) ==
    /\ \A j \in Retained(s) : s.order[j] <= s.seq /\ s.updatedAt[j] <= t
    /\ \A j, k \in Retained(s) : s.order[j] < s.order[k] => s.updatedAt[j] <= s.updatedAt[k]

\* the jobs and the index agree with the requests tk that created them
StoreSound(s, tk) ==
    /\ \A j \in Retained(s) : tk[j].pc # "idle" /\ s.jobs[j].cid = tk[j].cid
    /\ \A c \in ClientRequestId :
           s.index[c] # NoJob =>
               /\ s.index[c].job \in Retained(s)
               /\ s.jobs[s.index[c].job].cid = c
               /\ tk[s.index[c].job].cid = c
               /\ tk[s.index[c].job].body = s.index[c].body

StoreInv(s, tk, t) == StoreType(s) /\ StoreAges(s, t) /\ StoreSound(s, tk)

--------------------------------------------------------------------------------
\* Evicting jobs removes exactly them, changes no other job, and leaves a store
\* whose index is sound (_evict_job).
LEMMA EvictLemma ==
    ASSUME NEW s, NEW tk, NEW t \in Nat, StoreInv(s, tk, t),
           NEW ids \in SUBSET Retained(s)
    PROVE  /\ StoreInv(Evict(s, ids), tk, t)
           /\ Retained(Evict(s, ids)) = Retained(s) \ ids
           /\ \A j \in Retained(s) \ ids : Evict(s, ids).jobs[j] = s.jobs[j]
           /\ Evict(s, ids).seq = s.seq
<1> DEFINE e == Evict(s, ids)
           kept == Retained(s) \ ids
           cids == {s.jobs[j].cid : j \in ids}
<1>1. /\ e.jobs = [j \in kept |-> s.jobs[j]]
      /\ e.updatedAt = [j \in kept |-> s.updatedAt[j]]
      /\ e.order = [j \in kept |-> s.order[j]]
      /\ e.seq = s.seq
      /\ e.index = [c \in ClientRequestId |-> IF c \in cids THEN NoJob ELSE s.index[c]]
  BY DEF Evict, Restrict
<1>2. Retained(e) = kept
  BY <1>1 DEF Retained
<1>3. StoreType(e)
  <2>1. /\ e.jobs \in [kept -> Job]
        /\ e.updatedAt \in [kept -> Nat]
        /\ e.order \in [kept -> Nat]
        /\ e.seq \in Nat
        /\ e.index \in [ClientRequestId -> Entry \cup {NoJob}]
    BY <1>1 DEF StoreInv, StoreType
  <2>2. e = [jobs |-> e.jobs, updatedAt |-> e.updatedAt, order |-> e.order,
             seq |-> e.seq, index |-> e.index]
    BY DEF Evict
  <2>3. kept \subseteq Task
    BY DEF StoreInv, StoreType
  <2> HIDE DEF e, kept
  <2>4. QED
    BY <1>2, <2>1, <2>2, <2>3 DEF StoreType
<1>4. StoreAges(e, t)
  BY <1>1, <1>2 DEF StoreInv, StoreAges
<1>5. StoreSound(e, tk)
  <2>1. \A j \in Retained(e) : tk[j].pc # "idle" /\ e.jobs[j].cid = tk[j].cid
    BY <1>1, <1>2 DEF StoreInv, StoreSound
  <2>2. ASSUME NEW c \in ClientRequestId, e.index[c] # NoJob
        PROVE  /\ e.index[c].job \in Retained(e)
               /\ e.jobs[e.index[c].job].cid = c
               /\ tk[e.index[c].job].cid = c
               /\ tk[e.index[c].job].body = e.index[c].body
    <3>1. c \notin cids /\ e.index[c] = s.index[c]
      BY <1>1, <2>2
    <3>2. /\ s.index[c].job \in Retained(s)
          /\ s.jobs[s.index[c].job].cid = c
          /\ tk[s.index[c].job].cid = c
          /\ tk[s.index[c].job].body = s.index[c].body
      BY <2>2, <3>1 DEF StoreInv, StoreSound
    <3>3. s.index[c].job \in kept
      BY <3>1, <3>2
    <3>4. QED
      BY <1>1, <1>2, <3>1, <3>2, <3>3
  <2>3. QED
    BY <2>1, <2>2 DEF StoreSound
<1>6. QED
  BY <1>1, <1>2, <1>3, <1>4, <1>5 DEF StoreInv

\* Expiry only evicts (_expire_jobs).
LEMMA ExpireLemma ==
    ASSUME NEW s, NEW tk, NEW t \in Nat, StoreInv(s, tk, t)
    PROVE  /\ StoreInv(Expire(s, t), tk, t)
           /\ Retained(Expire(s, t)) \subseteq Retained(s)
           /\ \A j \in Retained(Expire(s, t)) : Expire(s, t).jobs[j] = s.jobs[j]
<1> DEFINE ids == {j \in Retained(s) : s.updatedAt[j] <= t - Ttl}
<1>1. CASE Ttl = 0
  BY <1>1 DEF Expire
<1>2. CASE Ttl # 0
  <2>1. Expire(s, t) = Evict(s, ids)
    BY <1>2 DEF Expire
  <2>2. ids \in SUBSET Retained(s)
    OBVIOUS
  <2> HIDE DEF ids
  <2>3. QED
    BY <2>1, <2>2, EvictLemma
<1>3. QED
  BY <1>1, <1>2

\* A job remembered for its request joins the store as its youngest entry.
LEMMA InsertLemma ==
    ASSUME NEW s, NEW tk, NEW t \in Nat, StoreInv(s, tk, t),
           NEW j \in Task, NEW job \in Job, tk[j].pc # "idle", job.cid = tk[j].cid
    PROVE  LET r == Insert(s, j, job, t)
           IN  /\ StoreInv(r, tk, t)
               /\ Retained(r) = Retained(s) \cup {j}
               /\ r.jobs[j] = job
               /\ \A k \in Retained(s) \ {j} : r.jobs[k] = s.jobs[k] /\ r.order[k] < r.order[j]
               /\ r.index = s.index
<1> DEFINE r == Insert(s, j, job, t)
           ids == Retained(s) \cup {j}
<1>1. /\ r.jobs = [k \in ids |-> IF k = j THEN job ELSE s.jobs[k]]
      /\ r.updatedAt = [k \in ids |-> IF k = j THEN t ELSE s.updatedAt[k]]
      /\ r.order = [k \in ids |-> IF k = j THEN s.seq + 1 ELSE s.order[k]]
      /\ r.seq = s.seq + 1
      /\ r.index = s.index
  BY DEF Insert
<1>2. Retained(r) = ids
  BY <1>1 DEF Retained
<1>3. StoreType(r)
  <2>1. /\ r.jobs \in [ids -> Job]
        /\ r.updatedAt \in [ids -> Nat]
        /\ r.order \in [ids -> Nat]
        /\ r.seq \in Nat
        /\ r.index \in [ClientRequestId -> Entry \cup {NoJob}]
    BY <1>1 DEF StoreInv, StoreType
  <2>2. r = [jobs |-> r.jobs, updatedAt |-> r.updatedAt, order |-> r.order,
             seq |-> r.seq, index |-> r.index]
    BY DEF Insert
  <2>3. ids \subseteq Task
    BY DEF StoreInv, StoreType
  <2> HIDE DEF r, ids
  <2>4. QED
    BY <1>2, <2>1, <2>2, <2>3 DEF StoreType
<1>4. \A k \in Retained(s) : s.order[k] \in Nat /\ s.updatedAt[k] \in Nat /\ s.seq \in Nat
  BY DEF StoreInv, StoreType
<1>5. StoreAges(r, t)
  <2>1. \A k \in ids : r.order[k] <= r.seq /\ r.updatedAt[k] <= t
    BY <1>1, <1>4 DEF StoreInv, StoreAges, StoreType
  <2>2. ASSUME NEW k \in ids, NEW l \in ids, r.order[k] < r.order[l]
        PROVE  r.updatedAt[k] <= r.updatedAt[l]
    <3>1. CASE l = j
      BY <1>1, <2>1, <3>1
    <3>2. CASE l # j /\ k = j
      BY <1>1, <1>4, <2>2, <3>2 DEF StoreInv, StoreAges
    <3>3. CASE l # j /\ k # j
      BY <1>1, <2>2, <3>3 DEF StoreInv, StoreAges
    <3>4. QED
      BY <3>1, <3>2, <3>3
  <2>3. QED
    BY <1>2, <2>1, <2>2 DEF StoreAges
<1>6. StoreSound(r, tk)
  <2>1. \A k \in ids : tk[k].pc # "idle" /\ r.jobs[k].cid = tk[k].cid
    BY <1>1 DEF StoreInv, StoreSound
  <2>2. ASSUME NEW c \in ClientRequestId, r.index[c] # NoJob
        PROVE  /\ r.index[c].job \in ids
               /\ r.jobs[r.index[c].job].cid = c
               /\ tk[r.index[c].job].cid = c
               /\ tk[r.index[c].job].body = r.index[c].body
    BY <1>1, <2>1, <2>2 DEF StoreInv, StoreSound
  <2>3. QED
    BY <1>2, <2>1, <2>2 DEF StoreSound
<1>7. \A k \in Retained(s) \ {j} : r.jobs[k] = s.jobs[k] /\ r.order[k] < r.order[j]
  BY <1>1, <1>4 DEF StoreInv, StoreAges
<1>8. r.jobs[j] = job
  BY <1>1
<1>9. QED
  BY <1>1, <1>2, <1>3, <1>5, <1>6, <1>7, <1>8 DEF StoreInv

\* A history with a job in it has an oldest one.
LEMMA OldestExists ==
    ASSUME NEW s, StoreType(s), Retained(s) # {}
    PROVE  Oldest(s) # {} /\ Oldest(s) \subseteq Retained(s)
<1> DEFINE R == {ss \in Nat \X Nat : ss[1] < ss[2]}
           positions == {s.order[j] : j \in Retained(s)}
<1>1. positions \subseteq Nat /\ positions # {}
  BY DEF StoreType
<1>2. PICK x \in positions : \A y \in positions : ~ (<<y, x>> \in R)
  <2>1. IsWellFoundedOn(R, Nat)
    BY NatLessThanWellFounded, Zenon DEF OpToRel
  <2> HIDE DEF R, positions
  <2>2. QED
    BY <1>1, <2>1, WFMin
<1>3. \A y \in positions : x <= y
  <2>1. \A a, b \in Nat : a < b => <<a, b>> \in R
    OBVIOUS
  <2> HIDE DEF R, positions
  <2>2. x \in Nat /\ \A y \in positions : y \in Nat /\ ~ (y < x)
    BY <1>1, <1>2, <2>1
  <2>3. QED
    BY <2>2
<1>4. PICK j \in Retained(s) : s.order[j] = x
  OBVIOUS
<1>5. QED
  BY <1>3, <1>4 DEF Oldest

\* The history limit: after a job has joined a history within its limit, one
\* eviction restores the limit, and never evicts the job that has just joined.
LEMMA TrimLemma ==
    ASSUME NEW s, NEW tk, NEW t \in Nat, StoreInv(s, tk, t),
           NEW j \in Retained(s),
           \A k \in Retained(s) \ {j} : s.order[k] < s.order[j],
           Cardinality(Retained(s) \ {j}) <= HistoryLimit
    PROVE  /\ StoreInv(Trim(s), tk, t)
           /\ Cardinality(Retained(Trim(s))) <= HistoryLimit
           /\ j \in Retained(Trim(s))
           /\ Retained(Trim(s)) \subseteq Retained(s)
           /\ \A k \in Retained(Trim(s)) : Trim(s).jobs[k] = s.jobs[k]
<1> DEFINE kept == Retained(s) \ Oldest(s)
<1>1. StoreType(s) /\ IsFiniteSet(Retained(s)) /\ Oldest(s) \in SUBSET Retained(s)
  BY TaskAssumption, FS_Subset DEF StoreInv, StoreType, Oldest
<1>2. Cardinality(Retained(s)) \in Nat /\ HistoryLimit \in Nat \ {0}
  BY <1>1, FS_CardinalityType, ConfigAssumption
<1>3. CASE ~ (Cardinality(Retained(s)) > HistoryLimit)
  BY <1>2, <1>3 DEF Trim
<1>4. CASE Cardinality(Retained(s)) > HistoryLimit
  <2>1. Trim(s) = Evict(s, Oldest(s))
    BY <1>4 DEF Trim
  <2>2. Retained(Trim(s)) = kept
    BY <1>1, <2>1, EvictLemma
  <2>3. j \notin Oldest(s)
    <3>1. Retained(s) # {j}
      BY <1>2, <1>4, FS_Singleton
    <3>2. PICK k \in Retained(s) : k # j
      BY <3>1
    <3>3. s.order[k] < s.order[j] /\ s.order[k] \in Nat /\ s.order[j] \in Nat
      BY <1>1, <3>2 DEF StoreType
    <3>4. QED
      BY <3>2, <3>3 DEF Oldest
  <2>4. Cardinality(kept) <= HistoryLimit
    <3>1. PICK o \in Oldest(s) : o \in Retained(s)
      BY <1>1, OldestExists
    <3>2. kept \in SUBSET (Retained(s) \ {o}) /\ IsFiniteSet(Retained(s) \ {o})
      BY <1>1, <3>1, FS_RemoveElement
    <3>3. Cardinality(kept) <= Cardinality(Retained(s) \ {o})
      BY <3>2, FS_Subset
    <3>4. Cardinality(Retained(s) \ {o}) = Cardinality(Retained(s)) - 1
      BY <1>1, <3>1, FS_RemoveElement
    <3>5. Cardinality(Retained(s) \ {j}) = Cardinality(Retained(s)) - 1
      BY <1>1, FS_RemoveElement
    <3>6. Cardinality(kept) \in Nat
      BY <3>2, FS_Subset, FS_CardinalityType
    <3>7. QED
      BY <1>2, <3>3, <3>4, <3>5, <3>6
  <2>5. QED
    BY <1>1, <2>1, <2>2, <2>3, <2>4, EvictLemma
<1>5. QED
  BY <1>3, <1>4

\* _remember_job: the job is in the history afterwards, every other retained
\* job was there before and is unchanged, and the limit holds.
LEMMA RememberLemma ==
    ASSUME NEW s, NEW tk, NEW t \in Nat, StoreInv(s, tk, t),
           Cardinality(Retained(s)) <= HistoryLimit,
           NEW j \in Task, NEW job \in Job, tk[j].pc # "idle", job.cid = tk[j].cid
    PROVE  LET r == Remember(s, j, job, t)
           IN  /\ StoreInv(r, tk, t)
               /\ Cardinality(Retained(r)) <= HistoryLimit
               /\ j \in Retained(r)
               /\ r.jobs[j] = job
               /\ \A k \in Retained(r) \ {j} : k \in Retained(s) /\ r.jobs[k] = s.jobs[k]
<1> DEFINE e == Expire(s, t)
           i == Insert(e, j, job, t)
           r == Remember(s, j, job, t)
<1>1. /\ StoreInv(e, tk, t)
      /\ Retained(e) \subseteq Retained(s)
      /\ \A k \in Retained(e) : e.jobs[k] = s.jobs[k]
  BY ExpireLemma
<1>2. /\ StoreInv(i, tk, t)
      /\ Retained(i) = Retained(e) \cup {j}
      /\ i.jobs[j] = job
      /\ \A k \in Retained(e) \ {j} : i.jobs[k] = e.jobs[k] /\ i.order[k] < i.order[j]
  <2> HIDE DEF e
  <2>1. QED
    BY <1>1, InsertLemma
<1>3. Cardinality(Retained(i) \ {j}) <= HistoryLimit
  <2>1. IsFiniteSet(Retained(s))
    BY TaskAssumption, FS_Subset DEF StoreInv, StoreType
  <2>2. Retained(i) \ {j} \in SUBSET Retained(s)
    BY <1>1, <1>2
  <2>3. /\ Cardinality(Retained(i) \ {j}) <= Cardinality(Retained(s))
        /\ IsFiniteSet(Retained(i) \ {j})
    BY <2>1, <2>2, FS_Subset
  <2>4. Cardinality(Retained(i) \ {j}) \in Nat /\ Cardinality(Retained(s)) \in Nat
    BY <2>1, <2>3, FS_CardinalityType
  <2>5. QED
    BY <2>3, <2>4, ConfigAssumption
<1>4. r = Trim(i)
  BY DEF Remember
<1> HIDE DEF e, i, r
<1>5. \A k \in Retained(i) \ {j} : i.order[k] < i.order[j]
  BY <1>2
<1>6. /\ StoreInv(r, tk, t)
      /\ Cardinality(Retained(r)) <= HistoryLimit
      /\ j \in Retained(r)
      /\ Retained(r) \subseteq Retained(i)
      /\ \A k \in Retained(r) : r.jobs[k] = i.jobs[k]
  BY <1>2, <1>3, <1>4, <1>5, TrimLemma
<1>7. QED
  BY <1>1, <1>2, <1>6 DEF r

\* The soundness of the store depends only on the requests of its jobs.
LEMMA RequestsLemma ==
    ASSUME NEW s, NEW tk, NEW tk2, NEW t \in Nat, StoreInv(s, tk, t),
           \A j \in Retained(s) : /\ tk2[j].pc # "idle"
                                  /\ tk2[j].cid = tk[j].cid
                                  /\ tk2[j].body = tk[j].body
    PROVE  StoreInv(s, tk2, t)
BY DEF StoreInv, StoreSound

--------------------------------------------------------------------------------
(* The inductive invariant.                                                  *)

Request == [pc     : {"idle", "chain", "sending", "done"},
            cid    : ClientRequestId \cup {NoClientId},
            body   : Body \cup {NoJob},
            job    : Task \cup {NoJob},
            answer : Answer]

RestType ==
    /\ now \in Nat
    /\ task \in [Task -> Request]
    /\ tx \in [Task -> {"none", "mempool", "success", "failure"}]
    /\ restarts \in Nat

\* how far a handler is determines what it holds
HandlerShape ==
    \A t \in Task :
        /\ task[t].pc = "idle" => task[t] = Idle /\ tx[t] = "none"
        /\ task[t].pc # "idle" => task[t].body \in Body
        /\ task[t].pc \in {"chain", "sending"} => task[t].answer = "none" /\ task[t].job \in Task
        /\ task[t].pc = "done" => task[t].answer # "none"

\* AnswersOwnRequest needs to know that the creator of a job has posted
OwnJob ==
    \A t \in Task :
        task[t].job # NoJob =>
            /\ task[task[t].job].pc # "idle"
            /\ task[task[t].job].cid = task[t].cid
            /\ task[task[t].job].body = task[t].body

\* AnswersBacked for a store s, requests tk and transactions x
BackedBy(tk, x, b, a) ==
    /\ a = "finalized" => \E u \in Task : tk[u].body = b /\ x[u] = "success"
    /\ a \in {"submitted", "accepted"} => \E u \in Task : tk[u].body = b /\ x[u] # "none"

AllBacked(s, tk, x) ==
    /\ \A t \in Task : BackedBy(tk, x, tk[t].body, tk[t].answer)
    /\ \A j \in Retained(s) : BackedBy(tk, x, tk[j].body, s.jobs[j].status)

Inv ==
    /\ RestType
    /\ StoreInv(store, task, now)
    /\ HistoryBounded
    /\ HandlerShape
    /\ OwnJob
    /\ AllBacked(store, task, tx)

\* The chain never takes back what backs a job status.
LEMMA BackedLemma ==
    ASSUME \A u \in Task : tx[u] # "none" => task'[u].body = task[u].body /\ tx'[u] # "none",
           \A u \in Task : tx[u] = "success" => tx'[u] = "success"
    PROVE  \A b, a : BackedBy(task, tx, b, a) => BackedBy(task', tx', b, a)
BY DEF BackedBy

\* The initial state satisfies the invariant.
LEMMA InitLemma == Init => Inv
<1> SUFFICES ASSUME Init PROVE Inv
  OBVIOUS
<1> USE DEF Init
<1>1. Retained(store) = {} /\ store.jobs = [j \in {} |-> NoJob]
  BY DEF Retained, EmptyStore
<1>2. RestType
  BY DEF RestType, Request, Idle, Answer
<1>3. StoreInv(store, task, now)
  <2>1. store.index = [c \in ClientRequestId |-> NoJob]
    BY DEF EmptyStore
  <2>2. /\ store.jobs \in [{} -> Job]
        /\ store.updatedAt \in [{} -> Nat]
        /\ store.order \in [{} -> Nat]
        /\ store.seq \in Nat
        /\ store.index \in [ClientRequestId -> Entry \cup {NoJob}]
    BY DEF EmptyStore
  <2>3. store = [jobs |-> store.jobs, updatedAt |-> store.updatedAt, order |-> store.order,
                 seq |-> store.seq, index |-> store.index]
    BY DEF EmptyStore
  <2>4. StoreType(store)
    BY ONLY <1>1, <2>2, <2>3 DEF StoreType
  <2>5. QED
    BY <1>1, <2>1, <2>4 DEF StoreInv, StoreAges, StoreSound
<1>4. HistoryBounded
  BY <1>1, FS_EmptySet, ConfigAssumption DEF HistoryBounded
<1>5. HandlerShape /\ OwnJob
  BY DEF HandlerShape, OwnJob, Idle
<1>6. AllBacked(store, task, tx)
  BY <1>1 DEF AllBacked, BackedBy, Idle
<1>7. QED
  BY <1>2, <1>3, <1>4, <1>5, <1>6 DEF Inv

\* What holds of every request that leaves the idle state, whichever way the
\* lookup of its client_request_id ends.
LEMMA PostLemma ==
    ASSUME Inv, NEW t \in Task, task[t].pc = "idle", tx' = tx,
           NEW c \in ClientRequestId \cup {NoClientId}, NEW b \in Body,
           NEW pc \in {"chain", "done"}, NEW j \in Task \cup {NoJob}, NEW a \in Answer,
           pc = "chain" => a = "none" /\ j \in Task,
           pc = "done" => a # "none",
           task' = [task EXCEPT ![t] = Started(c, b, pc, j, a)],
           j # NoJob => j = t \/ (task[j].pc # "idle" /\ task[j].cid = c /\ task[j].body = b)
    PROVE  /\ task' \in [Task -> Request]
           /\ HandlerShape'
           /\ OwnJob'
           /\ StoreInv(store, task', now)
           /\ \A x, y : BackedBy(task, tx, x, y) => BackedBy(task', tx', x, y)
           /\ \A u \in Task \ {t} : task'[u] = task[u]
           /\ task'[t] = Started(c, b, pc, j, a)
           /\ t \notin Retained(store)
<1> DEFINE rec == Started(c, b, pc, j, a)
<1>1. /\ task'[t] = rec
      /\ \A u \in Task \ {t} : task'[u] = task[u]
  BY DEF Inv, RestType
<1>2. /\ rec \in Request
      /\ rec.pc = pc /\ rec.cid = c /\ rec.body = b /\ rec.job = j /\ rec.answer = a
  BY DEF Started, Request
<1> HIDE DEF rec
<1>3. task' \in [Task -> Request]
  BY <1>2 DEF Inv, RestType, rec
<1>4. HandlerShape'
  BY <1>1, <1>2 DEF Inv, HandlerShape
<1>5. OwnJob'
  <2>1. ASSUME NEW u \in Task, task'[u].job # NoJob
        PROVE  /\ task'[task'[u].job].pc # "idle"
               /\ task'[task'[u].job].cid = task'[u].cid
               /\ task'[task'[u].job].body = task'[u].body
    <3>1. CASE u = t
      BY <1>1, <1>2, <2>1, <3>1
    <3>2. CASE u # t
      <4>1. task'[u] = task[u] /\ task[u].job \in Task
        BY <1>1, <2>1, <3>2 DEF Inv, RestType, Request
      <4>2. task[task[u].job].pc # "idle"
        BY <2>1, <4>1 DEF Inv, OwnJob
      <4>3. task'[task[u].job] = task[task[u].job]
        BY <1>1, <4>1, <4>2
      <4>4. QED
        BY <2>1, <4>1, <4>2, <4>3 DEF Inv, OwnJob
    <3>3. QED
      BY <3>1, <3>2
  <2>2. QED
    BY <2>1 DEF OwnJob
<1>6. \A k \in Retained(store) : k \in Task /\ k # t
  BY DEF Inv, StoreInv, StoreType, StoreSound
<1>7. StoreInv(store, task', now)
  <2>1. \A k \in Retained(store) : /\ task'[k].pc # "idle"
                                   /\ task'[k].cid = task[k].cid
                                   /\ task'[k].body = task[k].body
    BY <1>1, <1>6 DEF Inv, StoreInv, StoreSound
  <2>2. QED
    BY <2>1, RequestsLemma DEF Inv, RestType
<1>8. \A x, y : BackedBy(task, tx, x, y) => BackedBy(task', tx', x, y)
  <2>1. tx[t] = "none"
    BY DEF Inv, HandlerShape
  <2>2. QED
    BY <1>1, <2>1, BackedLemma
<1>9. QED
  BY <1>1, <1>3, <1>4, <1>5, <1>6, <1>7, <1>8 DEF rec

LEMMA PostConflictLemma ==
    ASSUME Inv, NEW t \in Task, task[t].pc = "idle",
           NEW c \in ClientRequestId \cup {NoClientId}, NEW b \in Body,
           PostConflict(t, c, b)
    PROVE  Inv'
<1>1. /\ task' = [task EXCEPT ![t] = Started(c, b, "done", NoJob, "conflict")]
      /\ UNCHANGED <<now, store, tx, restarts>>
  BY DEF PostConflict
<1>2. /\ task' \in [Task -> Request]
      /\ HandlerShape'
      /\ OwnJob'
      /\ StoreInv(store, task', now)
      /\ \A x, y : BackedBy(task, tx, x, y) => BackedBy(task', tx', x, y)
      /\ \A u \in Task \ {t} : task'[u] = task[u]
      /\ task'[t] = Started(c, b, "done", NoJob, "conflict")
      /\ t \notin Retained(store)
  <2>1. "conflict" \in Answer /\ tx' = tx
    BY <1>1 DEF Answer, Refusal
  <2>2. PICK pc \in {"chain", "done"}, j \in Task \cup {NoJob}, a \in Answer :
           pc = "done" /\ j = NoJob /\ a = "conflict"
    BY <2>1
  <2>3. /\ task' = [task EXCEPT ![t] = Started(c, b, pc, j, a)]
        /\ j # NoJob => j = t \/ (task[j].pc # "idle" /\ task[j].cid = c /\ task[j].body = b)
        /\ pc = "chain" => a = "none" /\ j \in Task
        /\ pc = "done" => a # "none"
    BY <1>1, <2>2
  <2>4. /\ task' \in [Task -> Request]
        /\ HandlerShape'
        /\ OwnJob'
        /\ StoreInv(store, task', now)
        /\ \A x, y : BackedBy(task, tx, x, y) => BackedBy(task', tx', x, y)
        /\ \A u \in Task \ {t} : task'[u] = task[u]
        /\ task'[t] = Started(c, b, pc, j, a)
        /\ t \notin Retained(store)
    BY <2>1, <2>3, PostLemma
  <2>5. QED
    BY <2>2, <2>4
<1>3. AllBacked(store', task', tx')
  <2>1. \A u \in Task : BackedBy(task', tx', task'[u].body, task'[u].answer)
    <3>1. BackedBy(task', tx', task'[t].body, task'[t].answer)
      BY <1>2 DEF BackedBy, Started
    <3>2. \A u \in Task \ {t} : BackedBy(task', tx', task'[u].body, task'[u].answer)
      BY <1>2 DEF Inv, AllBacked
    <3>3. QED
      BY <3>1, <3>2
  <2>2. \A j \in Retained(store) : BackedBy(task', tx', task'[j].body, store.jobs[j].status)
    <3>1. \A j \in Retained(store) : j \in Task \ {t}
      BY <1>2 DEF Inv, StoreInv, StoreType
    <3>2. QED
      BY <1>2, <3>1 DEF Inv, AllBacked
  <2>3. QED
    BY <1>1, <2>1, <2>2 DEF AllBacked
<1>4. QED
  BY <1>1, <1>2, <1>3 DEF Inv, RestType, HistoryBounded

LEMMA PostExistingLemma ==
    ASSUME Inv, NEW t \in Task, task[t].pc = "idle",
           NEW c \in ClientRequestId \cup {NoClientId}, NEW b \in Body,
           PostExisting(t, c, b)
    PROVE  Inv'
<1> DEFINE s == Expire(store, now)
           j == store.index[c].job
<1>1. /\ c \in ClientRequestId
      /\ Existing(c) = store.index[c]
      /\ j \in Retained(store)
      /\ task[j].pc # "idle" /\ task[j].cid = c /\ task[j].body = b
  BY DEF PostExisting, Existing, Inv, StoreInv, StoreSound
<1>2. /\ Retained(s) \subseteq Retained(store)
      /\ \A k \in Retained(s) : s.jobs[k] = store.jobs[k]
  BY ExpireLemma DEF Inv, RestType
<1>3. j \in Retained(s) => s.jobs[j].status \in Status
  BY <1>2 DEF Inv, StoreInv, StoreType, Job
<1>4. store' = s /\ UNCHANGED <<now, tx, restarts>>
  BY DEF PostExisting
<1> DEFINE Replied(pc, own, a) ==
             /\ task' = [task EXCEPT ![t] = Started(c, b, pc, own, a)]
             /\ pc = "chain" => a = "none" /\ own \in Task
             /\ pc = "done" => a # "none"
             /\ own # NoJob => own = j
             /\ a \in Settled => j \in Retained(s) /\ a = s.jobs[j].status
<1>5. PICK pc \in {"chain", "done"}, own \in Task \cup {NoJob}, a \in Answer :
         Replied(pc, own, a)
  <2>1. j \in Task
    BY <1>1 DEF Inv, StoreInv, StoreType
  <2>2. CASE j \notin Retained(s)
    <3>1. task' = [task EXCEPT ![t] = Started(c, b, "done", NoJob, "notfound")]
      BY <1>1, <2>2 DEF PostExisting
    <3>2. Replied("done", NoJob, "notfound") /\ "notfound" \in Answer
      BY <3>1 DEF Answer, Refusal, Settled
    <3> HIDE DEF Replied
    <3>3. QED
      BY <3>2
  <2>3. CASE j \in Retained(s) /\ s.jobs[j].status = "pending"
    <3>1. task' = [task EXCEPT ![t] = Started(c, b, "chain", j, "none")]
      BY <1>1, <2>3 DEF PostExisting
    <3>2. Replied("chain", j, "none") /\ "none" \in Answer
      BY <2>1, <3>1 DEF Answer, Settled
    <3> HIDE DEF Replied
    <3>3. QED
      BY <2>1, <3>2
  <2>4. CASE j \in Retained(s) /\ s.jobs[j].status # "pending"
    <3>1. task' = [task EXCEPT ![t] = Started(c, b, "done", j, s.jobs[j].status)]
      BY <1>1, <2>4 DEF PostExisting
    <3>2. s.jobs[j].status \in Settled
      BY <1>3, <2>4 DEF Status
    <3>3. s.jobs[j].status \in Answer /\ s.jobs[j].status # "none"
      BY <3>2 DEF Answer, Settled
    <3>4. Replied("done", j, s.jobs[j].status)
      BY <2>1, <2>4, <3>1, <3>3
    <3> HIDE DEF Replied
    <3>5. QED
      BY <2>1, <3>3, <3>4
  <2>5. QED
    BY <2>2, <2>3, <2>4
<1> HIDE DEF s, j
<1>6. own # NoJob => own = t \/ (task[own].pc # "idle" /\ task[own].cid = c /\ task[own].body = b)
  BY <1>1, <1>5
<1>7. /\ task' \in [Task -> Request]
      /\ HandlerShape'
      /\ OwnJob'
      /\ StoreInv(store, task', now)
      /\ \A x, y : BackedBy(task, tx, x, y) => BackedBy(task', tx', x, y)
      /\ \A u \in Task \ {t} : task'[u] = task[u]
      /\ task'[t] = Started(c, b, pc, own, a)
      /\ t \notin Retained(store)
  BY <1>4, <1>5, <1>6, PostLemma
<1>8. StoreInv(s, task', now)
  BY <1>7, ExpireLemma DEF Inv, RestType, s
<1>9. Cardinality(Retained(s)) <= HistoryLimit
  <2>1. IsFiniteSet(Retained(store)) /\ Retained(s) \in SUBSET Retained(store)
    BY <1>2, TaskAssumption, FS_Subset DEF Inv, StoreInv, StoreType
  <2>2. /\ Cardinality(Retained(s)) <= Cardinality(Retained(store))
        /\ Cardinality(Retained(s)) \in Nat
        /\ Cardinality(Retained(store)) \in Nat
    BY <2>1, FS_Subset, FS_CardinalityType
  <2>3. QED
    BY <2>2, ConfigAssumption DEF Inv, HistoryBounded
<1>10. AllBacked(store', task', tx')
  <2>1. \A k \in Retained(s) : BackedBy(task', tx', task'[k].body, s.jobs[k].status)
    <3>1. \A k \in Retained(s) : k \in Task \ {t}
      BY <1>2, <1>7 DEF Inv, StoreInv, StoreType
    <3>2. QED
      BY <1>2, <1>7, <3>1 DEF Inv, AllBacked
  <2>2. BackedBy(task', tx', b, a)
    <3>1. CASE a \in Settled
      <4>1. BackedBy(task, tx, task[j].body, store.jobs[j].status)
        BY <1>1 DEF Inv, AllBacked
      <4>2. QED
        BY <1>1, <1>2, <1>5, <1>7, <3>1, <4>1
    <3>2. CASE a \notin Settled
      BY <3>2 DEF BackedBy, Settled
    <3>3. QED
      BY <3>1, <3>2
  <2>3. \A u \in Task : BackedBy(task', tx', task'[u].body, task'[u].answer)
    BY <1>7, <2>2 DEF Inv, AllBacked, Started
  <2>4. QED
    BY <1>4, <2>1, <2>3 DEF AllBacked
<1>11. QED
  BY <1>4, <1>7, <1>8, <1>9, <1>10 DEF Inv, RestType, HistoryBounded

LEMMA PostNewLemma ==
    ASSUME Inv, NEW t \in Task, task[t].pc = "idle",
           NEW c \in ClientRequestId \cup {NoClientId}, NEW b \in Body,
           PostNew(t, c, b)
    PROVE  Inv'
<1> DEFINE job == [cid |-> c, status |-> "pending"]
           entry == [body |-> b, job |-> t]
           r == Remember(store, t, job, now)
<1>1. /\ store' = SetIndex(r, c, entry)
      /\ task' = [task EXCEPT ![t] = Started(c, b, "chain", t, "none")]
      /\ UNCHANGED <<now, tx, restarts>>
  BY DEF PostNew
<1>2. /\ task' \in [Task -> Request]
      /\ HandlerShape'
      /\ OwnJob'
      /\ StoreInv(store, task', now)
      /\ \A x, y : BackedBy(task, tx, x, y) => BackedBy(task', tx', x, y)
      /\ \A u \in Task \ {t} : task'[u] = task[u]
      /\ task'[t] = Started(c, b, "chain", t, "none")
      /\ t \notin Retained(store)
  BY <1>1, PostLemma DEF Answer
<1>3. task'[t].pc = "chain" /\ task'[t].cid = c /\ task'[t].body = b
  BY <1>2 DEF Started
<1>4. job \in Job /\ job.cid = c /\ job.status = "pending"
  BY DEF Job, Status
<1> HIDE DEF job, r
<1>5. /\ StoreInv(r, task', now)
      /\ Cardinality(Retained(r)) <= HistoryLimit
      /\ t \in Retained(r)
      /\ r.jobs[t] = job
      /\ \A k \in Retained(r) \ {t} : k \in Retained(store) /\ r.jobs[k] = store.jobs[k]
  BY <1>2, <1>3, <1>4, RememberLemma DEF Inv, RestType, HistoryBounded, r
<1>6. /\ StoreInv(store', task', now)
      /\ Retained(store') = Retained(r)
      /\ store'.jobs = r.jobs
  <2>1. CASE c = NoClientId
    BY <1>1, <1>5, <2>1 DEF SetIndex
  <2>2. CASE c # NoClientId
    <3>1. store' = [r EXCEPT !.index[c] = entry]
      BY <1>1, <2>2 DEF SetIndex
    <3>2. /\ store'.jobs = r.jobs
          /\ store'.updatedAt = r.updatedAt
          /\ store'.order = r.order
          /\ store'.seq = r.seq
          /\ store'.index = [r.index EXCEPT ![c] = entry]
      BY <1>5, <3>1 DEF StoreInv, StoreType
    <3>3. Retained(store') = Retained(r)
      BY <3>2 DEF Retained
    <3>4. entry \in Entry
      BY DEF Entry
    <3>5. StoreType(store')
      BY <1>5, <2>2, <3>1, <3>2, <3>3, <3>4 DEF StoreInv, StoreType
    <3>6. StoreAges(store', now)
      BY <1>5, <3>2, <3>3 DEF StoreInv, StoreAges
    <3>7. StoreSound(store', task')
      <4>1. \A d \in ClientRequestId : store'.index[d] = IF d = c THEN entry ELSE r.index[d]
        BY <1>5, <3>2 DEF StoreInv, StoreType
      <4>2. QED
        BY <1>3, <1>4, <1>5, <3>2, <3>3, <4>1 DEF StoreInv, StoreSound
    <3>8. QED
      BY <3>2, <3>3, <3>5, <3>6, <3>7 DEF StoreInv
  <2>3. QED
    BY <2>1, <2>2
<1>7. AllBacked(store', task', tx')
  <2>1. \A k \in Retained(r) : BackedBy(task', tx', task'[k].body, r.jobs[k].status)
    <3>1. ASSUME NEW k \in Retained(r), k # t
          PROVE  BackedBy(task', tx', task'[k].body, r.jobs[k].status)
      <4>1. k \in Retained(store) /\ r.jobs[k] = store.jobs[k] /\ task'[k] = task[k]
        BY <1>2, <1>5, <3>1 DEF StoreInv, StoreType
      <4>2. QED
        BY <1>2, <4>1 DEF Inv, AllBacked
    <3>2. BackedBy(task', tx', task'[t].body, r.jobs[t].status)
      BY <1>4, <1>5 DEF BackedBy
    <3>3. QED
      BY <3>1, <3>2
  <2>2. \A u \in Task : BackedBy(task', tx', task'[u].body, task'[u].answer)
    <3>1. BackedBy(task', tx', task'[t].body, task'[t].answer)
      BY <1>2 DEF BackedBy, Started
    <3>2. \A u \in Task \ {t} : BackedBy(task', tx', task'[u].body, task'[u].answer)
      BY <1>2 DEF Inv, AllBacked
    <3>3. QED
      BY <3>1, <3>2
  <2>3. QED
    BY <1>6, <2>1, <2>2 DEF AllBacked
<1>8. QED
  BY <1>1, <1>2, <1>5, <1>6, <1>7 DEF Inv, RestType, HistoryBounded

\* A handler that finishes with a status the chain backs.
LEMMA FinishLemma ==
    ASSUME Inv, NEW t \in Task, task[t].pc \in {"chain", "sending"},
           NEW status \in Settled, BackedBy(task, tx, task[t].body, status),
           Finish(t, status)
    PROVE  Inv'
<1> DEFINE j == task[t].job
           job == [cid |-> task[t].cid, status |-> status]
           r == Remember(store, j, job, now)
<1>1. /\ store' = r
      /\ task' = [task EXCEPT ![t].pc = "done", ![t].answer = status]
      /\ now' = now /\ tx' = tx /\ restarts' = restarts
  BY DEF Finish, Remember
<1>2. /\ j \in Task
      /\ task[j].pc # "idle" /\ task[j].cid = task[t].cid /\ task[j].body = task[t].body
  BY TaskAssumption DEF Inv, HandlerShape, OwnJob
<1>3. status \in Answer /\ status # "none"
  BY DEF Answer, Settled
<1>4. /\ task'[t].pc = "done" /\ task'[t].answer = status
      /\ task'[t].cid = task[t].cid /\ task'[t].body = task[t].body /\ task'[t].job = j
      /\ \A u \in Task \ {t} : task'[u] = task[u]
      /\ task' \in [Task -> Request]
  <2> DEFINE rec == [task[t] EXCEPT !.pc = "done", !.answer = status]
  <2>1. task[t] \in Request
    BY DEF Inv, RestType
  <2>2. /\ rec \in Request
        /\ rec.pc = "done" /\ rec.answer = status
        /\ rec.cid = task[t].cid /\ rec.body = task[t].body /\ rec.job = task[t].job
    BY <1>3, <2>1 DEF Request
  <2>3. task' = [task EXCEPT ![t] = rec]
    BY <1>1
  <2> HIDE DEF rec
  <2>4. QED
    BY <2>2, <2>3 DEF Inv, RestType
<1> HIDE DEF j, r
<1>5. \A u \in Task : /\ task[u].pc # "idle" => task'[u].pc # "idle"
                      /\ task'[u].cid = task[u].cid
                      /\ task'[u].body = task[u].body
                      /\ task'[u].job = task[u].job
  BY <1>4 DEF j
<1>6. HandlerShape'
  BY <1>1, <1>2, <1>3, <1>4 DEF Inv, HandlerShape
<1>7. OwnJob'
  BY <1>5 DEF Inv, OwnJob, RestType, Request
<1>8. \A x, y : BackedBy(task, tx, x, y) => BackedBy(task', tx', x, y)
  BY <1>1, <1>5, BackedLemma
<1>9. StoreInv(store, task', now)
  <2>1. \A k \in Retained(store) : k \in Task /\ task[k].pc # "idle"
    BY DEF Inv, StoreInv, StoreType, StoreSound
  <2>2. QED
    BY <1>5, <2>1, RequestsLemma DEF Inv, RestType
<1>10. job \in Job /\ job.cid = task'[j].cid /\ job.status = status /\ task'[j].pc # "idle"
  BY <1>2, <1>4, <1>5 DEF Job, Status, Inv, RestType, Request
<1> HIDE DEF job
<1>11. /\ StoreInv(r, task', now)
       /\ Cardinality(Retained(r)) <= HistoryLimit
       /\ r.jobs[j] = job
       /\ \A k \in Retained(r) \ {j} : k \in Retained(store) /\ r.jobs[k] = store.jobs[k]
  BY <1>2, <1>9, <1>10, RememberLemma DEF Inv, RestType, HistoryBounded, r
<1>12. AllBacked(r, task', tx')
  <2>1. ASSUME NEW k \in Retained(r)
        PROVE  BackedBy(task', tx', task'[k].body, r.jobs[k].status)
    <3>1. CASE k = j
      BY <1>2, <1>5, <1>8, <1>10, <1>11, <3>1
    <3>2. CASE k # j
      <4>1. k \in Retained(store) /\ r.jobs[k] = store.jobs[k] /\ k \in Task
        BY <1>11, <3>2 DEF Inv, StoreInv, StoreType
      <4>2. QED
        BY <1>5, <1>8, <4>1 DEF Inv, AllBacked
    <3>3. QED
      BY <3>1, <3>2
  <2>2. ASSUME NEW u \in Task
        PROVE  BackedBy(task', tx', task'[u].body, task'[u].answer)
    BY <1>4, <1>5, <1>8 DEF Inv, AllBacked
  <2>3. QED
    BY <2>1, <2>2 DEF AllBacked
<1>13. QED
  BY <1>1, <1>4, <1>6, <1>7, <1>11, <1>12 DEF Inv, RestType, HistoryBounded

\* Expiry on behalf of a GET.
LEMMA LookupLemma == Inv /\ Lookup => Inv'
<1> SUFFICES ASSUME Inv, Lookup PROVE Inv'
  OBVIOUS
<1> DEFINE s == Expire(store, now)
<1>1. store' = s /\ now' = now /\ task' = task /\ tx' = tx /\ restarts' = restarts
  BY DEF Lookup
<1>2. /\ StoreInv(s, task, now)
      /\ Retained(s) \subseteq Retained(store)
      /\ \A k \in Retained(s) : s.jobs[k] = store.jobs[k]
  BY ExpireLemma DEF Inv, RestType
<1> HIDE DEF s
<1>3. Cardinality(Retained(s)) <= HistoryLimit
  <2>1. IsFiniteSet(Retained(store)) /\ Retained(s) \in SUBSET Retained(store)
    BY <1>2, TaskAssumption, FS_Subset DEF Inv, StoreInv, StoreType
  <2>2. /\ Cardinality(Retained(s)) <= Cardinality(Retained(store))
        /\ Cardinality(Retained(s)) \in Nat
        /\ Cardinality(Retained(store)) \in Nat
    BY <2>1, FS_Subset, FS_CardinalityType
  <2>3. QED
    BY <2>2, ConfigAssumption DEF Inv, HistoryBounded
<1>4. AllBacked(s, task, tx)
  BY <1>2 DEF Inv, AllBacked
<1>5. QED
  BY <1>1, <1>2, <1>3, <1>4 DEF Inv, RestType, HistoryBounded, HandlerShape, OwnJob

\* The clock, the node and the chain.
LEMMA EnvironmentLemma ==
    ASSUME Inv,
           \/ Tick
           \/ \E t \in Task : EnsureChainId(t) \/ Broadcast(t) \/ Include(t)
    PROVE  Inv'
<1>1. CASE Tick
  <2>1. now' = now + 1 /\ store' = store /\ task' = task /\ tx' = tx /\ restarts' = restarts
    BY <1>1 DEF Tick
  <2>2. now \in Nat /\ now' \in Nat /\ StoreInv(store, task, now)
    BY <2>1 DEF Inv, RestType
  <2>3. StoreAges(store, now')
    BY <2>1, <2>2 DEF StoreInv, StoreAges, StoreType
  <2>4. QED
    BY <2>1, <2>2, <2>3 DEF Inv, RestType, StoreInv, HistoryBounded, HandlerShape, OwnJob
<1>2. ASSUME NEW t \in Task, EnsureChainId(t)
      PROVE  Inv'
  <2>1. /\ task[t].pc = "chain"
        /\ task' = [task EXCEPT ![t].pc = "sending"]
        /\ now' = now /\ store' = store /\ tx' = tx /\ restarts' = restarts
    BY <1>2 DEF EnsureChainId
  <2>2. /\ task' \in [Task -> Request]
        /\ task'[t].pc = "sending"
        /\ \A u \in Task : /\ u # t => task'[u] = task[u]
                           /\ task[u].pc # "idle" => task'[u].pc # "idle"
                           /\ task'[u].cid = task[u].cid
                           /\ task'[u].body = task[u].body
                           /\ task'[u].job = task[u].job
                           /\ task'[u].answer = task[u].answer
    BY <2>1 DEF Inv, RestType, Request
  <2>3. HandlerShape'
    BY <2>1, <2>2 DEF Inv, HandlerShape
  <2>4. OwnJob'
    BY <2>2 DEF Inv, OwnJob, RestType, Request
  <2>5. \A k \in Retained(store) : k \in Task /\ task[k].pc # "idle"
    BY DEF Inv, StoreInv, StoreType, StoreSound
  <2>6. StoreInv(store, task', now)
    BY <2>2, <2>5, RequestsLemma DEF Inv, RestType
  <2>7. \A x, y : BackedBy(task, tx, x, y) => BackedBy(task', tx', x, y)
    BY <2>1, <2>2, BackedLemma
  <2>8. AllBacked(store, task', tx')
    BY <2>2, <2>5, <2>7 DEF Inv, AllBacked
  <2>9. QED
    BY <2>1, <2>2, <2>3, <2>4, <2>6, <2>8 DEF Inv, RestType, HistoryBounded
<1>3. ASSUME NEW t \in Task, Broadcast(t) \/ Include(t)
      PROVE  Inv'
  <2>1. PICK fate \in {"mempool", "success", "failure"} :
           /\ tx' = [tx EXCEPT ![t] = fate]
           /\ tx[t] \in {"none", "mempool"}
           /\ tx[t] = "none" => task[t].pc = "sending"
    BY <1>3 DEF Broadcast, Include
  <2>2. now' = now /\ store' = store /\ task' = task /\ restarts' = restarts
    BY <1>3 DEF Broadcast, Include
  <2>3. tx' \in [Task -> {"none", "mempool", "success", "failure"}]
    BY <2>1 DEF Inv, RestType
  <2>4. HandlerShape'
    BY <2>1, <2>2 DEF Inv, HandlerShape, RestType
  <2>5. \A x, y : BackedBy(task, tx, x, y) => BackedBy(task', tx', x, y)
    <3>1. \A u \in Task : tx[u] # "none" => tx'[u] # "none"
      BY <2>1 DEF Inv, RestType
    <3>2. \A u \in Task : tx[u] = "success" => tx'[u] = "success"
      BY <2>1 DEF Inv, RestType
    <3>3. QED
      BY <2>2, <3>1, <3>2, BackedLemma
  <2>6. AllBacked(store, task, tx')
    BY <2>2, <2>5 DEF Inv, AllBacked, StoreInv, StoreType
  <2>7. QED
    BY <2>2, <2>3, <2>4, <2>6 DEF Inv, RestType, OwnJob, HistoryBounded
<1>4. QED
  BY <1>1, <1>2, <1>3

\* The process dies with its memory.
LEMMA RestartLemma == Inv /\ Restart => Inv'
<1> SUFFICES ASSUME Inv, Restart PROVE Inv'
  OBVIOUS
<1>1. /\ store' = EmptyStore /\ now' = now /\ tx' = tx
      /\ restarts' = restarts + 1
  BY DEF Restart
<1>2. ASSUME NEW u \in Task
      PROVE  /\ task'[u] \in Request
             /\ task'[u].cid = task[u].cid
             /\ task'[u].body = task[u].body
             /\ task'[u].job = task[u].job
             /\ task'[u].pc = IF task[u].pc \in {"chain", "sending"} THEN "done" ELSE task[u].pc
             /\ task'[u].answer = IF task[u].pc \in {"chain", "sending"} THEN "lost" ELSE task[u].answer
             /\ task[u].pc = "idle" => task'[u] = task[u]
  <2> DEFINE rec == [task[u] EXCEPT !.pc = "done", !.answer = "lost"]
  <2>1. task[u] \in Request
    BY DEF Inv, RestType
  <2>2. /\ rec \in Request
        /\ rec.pc = "done" /\ rec.answer = "lost"
        /\ rec.cid = task[u].cid /\ rec.body = task[u].body /\ rec.job = task[u].job
    BY <2>1 DEF Request, Answer
  <2>3. task'[u] = IF task[u].pc \in {"chain", "sending"} THEN rec ELSE task[u]
    BY DEF Restart
  <2> HIDE DEF rec
  <2>4. QED
    BY <2>1, <2>2, <2>3
<1>3. task' \in [Task -> Request]
  <2>1. \E f : task' = [u \in Task |-> f[u]]
    <3> DEFINE f == [u \in Task |->
                      IF task[u].pc \in {"chain", "sending"}
                      THEN [task[u] EXCEPT !.pc = "done", !.answer = "lost"]
                      ELSE task[u]]
    <3>1. task' = f
      BY DEF Restart
    <3>2. f = [u \in Task |-> f[u]]
      OBVIOUS
    <3> HIDE DEF f
    <3>3. QED
      BY <3>1, <3>2
  <2>2. QED
    BY <1>2, <2>1
<1>4. HandlerShape'
  BY <1>1, <1>2 DEF Inv, HandlerShape
<1>5. OwnJob'
  <2>1. ASSUME NEW u \in Task, task'[u].job # NoJob
        PROVE  /\ task'[task'[u].job].pc # "idle"
               /\ task'[task'[u].job].cid = task'[u].cid
               /\ task'[task'[u].job].body = task'[u].body
    <3>1. task[u].job \in Task /\ task'[u].job = task[u].job
      BY <1>2, <2>1 DEF Inv, RestType, Request
    <3>2. /\ task[task[u].job].pc # "idle"
          /\ task[task[u].job].cid = task[u].cid
          /\ task[task[u].job].body = task[u].body
      BY <2>1, <3>1 DEF Inv, OwnJob
    <3>3. QED
      BY <1>2, <3>1, <3>2
  <2>2. QED
    BY <2>1 DEF OwnJob
<1>6. Retained(EmptyStore) = {}
  BY DEF Retained, EmptyStore
<1>7. StoreInv(EmptyStore, task', now)
  <2>1. /\ EmptyStore.jobs \in [{} -> Job]
        /\ EmptyStore.updatedAt \in [{} -> Nat]
        /\ EmptyStore.order \in [{} -> Nat]
        /\ EmptyStore.seq \in Nat
        /\ EmptyStore.index = [c \in ClientRequestId |-> NoJob]
        /\ EmptyStore.index \in [ClientRequestId -> Entry \cup {NoJob}]
        /\ EmptyStore = [jobs |-> EmptyStore.jobs, updatedAt |-> EmptyStore.updatedAt,
                         order |-> EmptyStore.order, seq |-> EmptyStore.seq,
                         index |-> EmptyStore.index]
    BY DEF EmptyStore
  <2>2. StoreType(EmptyStore)
    BY ONLY <1>6, <2>1 DEF StoreType
  <2>3. QED
    BY <1>6, <2>1, <2>2 DEF StoreInv, StoreAges, StoreSound
<1>8. Cardinality(Retained(EmptyStore)) <= HistoryLimit
  BY <1>6, FS_EmptySet, ConfigAssumption
<1>9. AllBacked(EmptyStore, task', tx')
  <2>1. \A x, y : BackedBy(task, tx, x, y) => BackedBy(task', tx', x, y)
    BY <1>1, <1>2, BackedLemma
  <2>2. ASSUME NEW u \in Task
        PROVE  BackedBy(task', tx', task'[u].body, task'[u].answer)
    <3>1. CASE task[u].pc \in {"chain", "sending"}
      BY <1>2, <3>1 DEF BackedBy
    <3>2. CASE task[u].pc \notin {"chain", "sending"}
      BY <1>2, <2>1, <3>2 DEF Inv, AllBacked
    <3>3. QED
      BY <3>1, <3>2
  <2>3. QED
    BY <1>6, <2>2 DEF AllBacked
<1>10. QED
  BY <1>1, <1>3, <1>4, <1>5, <1>7, <1>8, <1>9 DEF Inv, RestType, HistoryBounded

\* What send_tx returns claims no more than the chain has seen.
LEMMA SubmissionLemma ==
    ASSUME Inv, NEW t \in Task, NEW status \in SubmissionStatus(tx[t])
    PROVE  status \in Settled /\ BackedBy(task, tx, task[t].body, status)
<1>1. tx[t] \in {"none", "mempool", "success", "failure"}
  BY DEF Inv, RestType
<1>2. CASE tx[t] = "none"
  BY <1>2 DEF SubmissionStatus, Settled, BackedBy
<1>3. CASE tx[t] = "mempool"
  BY <1>3 DEF SubmissionStatus, Settled, BackedBy
<1>4. CASE tx[t] = "success"
  BY <1>4 DEF SubmissionStatus, Settled, BackedBy
<1>5. CASE tx[t] = "failure"
  BY <1>5 DEF SubmissionStatus, Settled, BackedBy
<1>6. QED
  BY <1>1, <1>2, <1>3, <1>4, <1>5

\* Every step of the service, the node and the clock preserves the invariant.
LEMMA StepLemma == Inv /\ [Next]_vars => Inv'
<1> SUFFICES ASSUME Inv, [Next]_vars PROVE Inv'
  OBVIOUS
<1>1. ASSUME NEW t \in Task, Post(t)
      PROVE  Inv'
  BY <1>1, PostConflictLemma, PostExistingLemma, PostNewLemma DEF Post
<1>2. ASSUME NEW t \in Task, SubmitRaises(t)
      PROVE  Inv'
  <2>1. BackedBy(task, tx, task[t].body, "failed") /\ "failed" \in Settled
    BY DEF BackedBy, Settled
  <2>2. QED
    BY <1>2, <2>1, FinishLemma DEF SubmitRaises
<1>3. ASSUME NEW t \in Task, SendReturns(t)
      PROVE  Inv'
  BY <1>3, SubmissionLemma, FinishLemma DEF SendReturns
<1>4. CASE Lookup
  BY <1>4, LookupLemma
<1>5. CASE Restart
  BY <1>5, RestartLemma
<1>6. CASE Tick \/ \E t \in Task : EnsureChainId(t) \/ Broadcast(t) \/ Include(t)
  BY <1>6, EnvironmentLemma
<1>7. CASE UNCHANGED vars
  BY <1>7 DEF vars, Inv, RestType, HistoryBounded, HandlerShape, OwnJob
<1>8. QED
  BY <1>1, <1>2, <1>3, <1>4, <1>5, <1>6, <1>7 DEF Next, Handler

LEMMA Invariance == Spec => []Inv
BY InitLemma, StepLemma, PTL DEF Spec

--------------------------------------------------------------------------------
(* The properties the runs check, for every instance.                        *)

\* The job store is always well typed: _jobs and _job_updated_at have the same
\* keys, and the index maps client ids to jobs that some request created.
THEOREM TypeCorrect == Spec => []TypeOK
<1>1. Inv => TypeOK
  BY DEF Inv, RestType, StoreInv, StoreType, TypeOK, Request
<1>2. QED
  BY <1>1, Invariance, PTL

\* job_history_limit bounds the history, late finishes included.
THEOREM HistoryStaysBounded == Spec => []HistoryBounded
<1>1. Inv => HistoryBounded
  BY DEF Inv
<1>2. QED
  BY <1>1, Invariance, PTL

\* The client-request index never dangles and never crosses requests.
THEOREM IndexIsSound == Spec => []IndexSound
<1>1. Inv => IndexSound
  BY DEF Inv, StoreInv, StoreSound, IndexSound
<1>2. QED
  BY <1>1, Invariance, PTL

\* The history limit and the ttl evict from the same end.
THEOREM AgesAreOrdered == Spec => []AgeOrder
<1>1. Inv => AgeOrder
  BY DEF Inv, StoreInv, StoreAges, AgeOrder
<1>2. QED
  BY <1>1, Invariance, PTL

\* A client is only answered with a job of its own request.
THEOREM OwnRequestAnswered == Spec => []AnswersOwnRequest
<1>1. Inv => AnswersOwnRequest
  BY DEF Inv, OwnJob, AnswersOwnRequest
<1>2. QED
  BY <1>1, Invariance, PTL

\* No status told to a client or kept in the history claims more than the chain
\* has seen, through crashes, replays and shared jobs.
THEOREM AnswersAreBacked == Spec => []AnswersBacked
<1>1. Inv => AnswersBacked
  BY DEF Inv, AllBacked, BackedBy, AnswersBacked, Backed
<1>2. QED
  BY <1>1, Invariance, PTL

--------------------------------------------------------------------------------
(***************************************************************************)
(* What holds of the steps of ShieldedRelayer, from the invariant above:   *)
(* no settled job is seen pending again, and each step is a step of        *)
(* RelayLedger or none.                                                    *)
(***************************************************************************)

(* Settled jobs.                                                             *)

\* of the jobs that are retained before and after, none is taken back
StatusKept ==
    \A j \in Retained(store) \cap Retained(store') :
        store.jobs[j].status \in Settled => store'.jobs[j].status \in Settled

\* Expiry keeps the jobs it leaves as they are.
LEMMA ExpiryKeepsStatus == ASSUME Inv, store' = Expire(store, now) PROVE StatusKept
<1>1. \A k \in Retained(Expire(store, now)) : Expire(store, now).jobs[k] = store.jobs[k]
  BY ExpireLemma DEF Inv, RestType
<1>2. QED
  BY <1>1 DEF StatusKept

\* A new job is that of a request which has none yet.
LEMMA PostNewKeepsStatus ==
    ASSUME Inv, NEW t \in Task, task[t].pc = "idle",
           NEW c \in ClientRequestId \cup {NoClientId}, NEW b \in Body,
           PostNew(t, c, b)
    PROVE  StatusKept
<1> DEFINE job == [cid |-> c, status |-> "pending"]
           r == Remember(store, t, job, now)
           tk == [task EXCEPT ![t] = Started(c, b, "chain", t, "none")]
<1>1. store' = SetIndex(r, c, [body |-> b, job |-> t])
  BY DEF PostNew
<1>2. \A j \in Retained(store) : j \in Task /\ task[j].pc # "idle"
  BY DEF Inv, StoreInv, StoreType, StoreSound
<1>3. /\ tk[t].pc # "idle" /\ tk[t].cid = c
      /\ \A j \in Retained(store) : tk[j] = task[j]
  BY <1>2 DEF Inv, RestType, Started
<1>4. job \in Job /\ job.cid = c
  BY DEF Job, Status
<1> HIDE DEF tk, job
<1>5. StoreInv(store, tk, now)
  BY <1>2, <1>3, RequestsLemma DEF Inv, RestType
<1>6. \A k \in Retained(r) \ {t} : k \in Retained(store) /\ r.jobs[k] = store.jobs[k]
  BY <1>3, <1>4, <1>5, RememberLemma DEF Inv, RestType, HistoryBounded
<1> HIDE DEF r
<1>7. StoreInv(r, tk, now)
  BY <1>3, <1>4, <1>5, RememberLemma DEF Inv, RestType, HistoryBounded, r
<1>8. store'.jobs = r.jobs
  BY <1>1, <1>7 DEF SetIndex, StoreInv, StoreType
<1>9. QED
  BY <1>2, <1>6, <1>8 DEF StatusKept, Retained

\* A handler that ends writes a settled status into its job and into no other.
LEMMA FinishKeepsStatus ==
    ASSUME Inv, NEW t \in Task, task[t].pc \in {"chain", "sending"},
           NEW status \in Settled, Finish(t, status)
    PROVE  StatusKept
<1> DEFINE j == task[t].job
           job == [cid |-> task[t].cid, status |-> status]
           r == Remember(store, j, job, now)
<1>1. store' = r
  BY DEF Finish, Remember
<1>2. j \in Task /\ task[j].pc # "idle" /\ task[j].cid = task[t].cid
  BY TaskAssumption DEF Inv, HandlerShape, OwnJob
<1>3. job \in Job /\ job.cid = task[t].cid /\ job.status = status
  BY DEF Job, Status, Inv, RestType, Request
<1> HIDE DEF j, job
<1>4. /\ r.jobs[j] = job
      /\ \A k \in Retained(r) \ {j} : k \in Retained(store) /\ r.jobs[k] = store.jobs[k]
  BY <1>2, <1>3, RememberLemma DEF Inv, RestType, HistoryBounded
<1>5. QED
  BY <1>1, <1>3, <1>4 DEF StatusKept

LEMMA StepKeepsStatus == ASSUME Inv, Next PROVE StatusKept
<1>1. ASSUME store' = store PROVE StatusKept
  BY <1>1 DEF StatusKept
<1>2. ASSUME NEW t \in Task, Post(t) PROVE StatusKept
  <2>1. PICK c \in ClientRequestId \cup {NoClientId}, b \in Body :
          PostConflict(t, c, b) \/ PostExisting(t, c, b) \/ PostNew(t, c, b)
    BY <1>2 DEF Post
  <2>2. QED
    BY <1>1, <1>2, <2>1, ExpiryKeepsStatus, PostNewKeepsStatus
    DEF Post, PostConflict, PostExisting
<1>3. ASSUME NEW t \in Task, SubmitRaises(t) \/ SendReturns(t) PROVE StatusKept
  BY <1>3, SubmissionLemma, FinishKeepsStatus DEF SubmitRaises, SendReturns, Settled
<1>4. ASSUME NEW t \in Task, EnsureChainId(t) \/ Broadcast(t) \/ Include(t) PROVE StatusKept
  BY <1>1, <1>4 DEF EnsureChainId, Broadcast, Include
<1>5. CASE Restart
  BY <1>5 DEF Restart, StatusKept, Retained, EmptyStore
<1>6. CASE Lookup \/ Tick
  BY <1>1, <1>6, ExpiryKeepsStatus DEF Lookup, Tick
<1>7. QED
  BY <1>2, <1>3, <1>4, <1>5, <1>6 DEF Next, Handler

\* A retained job that has settled is never seen pending again, whichever of the
\* handlers that share it writes last.
THEOREM SettledJobsStaySettled == Spec => SettledStaysSettled
<1>1. Inv /\ [Next]_vars =>
        [\A j \in Retained(store) \cap Retained(store') :
            store.jobs[j].status \in Settled => store'.jobs[j].status \in Settled]_vars
  BY StepKeepsStatus DEF StatusKept
<1>2. QED
  BY <1>1, Invariance, PTL DEF Spec, SettledStaysSettled

--------------------------------------------------------------------------------
(* The ledger.                                                               *)

\* The mapping of the ledger at the initial state.
LEMMA LedgerInit == Init => Ledger!Init
BY DEF Init, Ledger!Init, Idle

\* What AllBacked says is what the ledger asks of an answer.
LEMMA LedgerBacked ==
    ASSUME NEW b, NEW a, BackedBy(task, tx, b, a) PROVE Ledger!Backed(b, a)
BY DEF BackedBy, Ledger!Backed, Ledger!Executed, Ledger!Sent

\* A POST that is answered at once, or not yet.
LEMMA LedgerPost ==
    ASSUME Inv, NEW t \in Task, task[t].pc = "idle", tx' = tx,
           NEW c, NEW b \in Body, NEW pc, NEW j, NEW a \in Answer,
           BackedBy(task, tx, b, a),
           task' = [task EXCEPT ![t] = Started(c, b, pc, j, a)]
    PROVE  Ledger!Post(t)
<1>1. task[t].body = NoJob
  BY DEF Inv, HandlerShape, Idle
<1>2. /\ DOMAIN task = Task
      /\ task'[t].body = b /\ task'[t].answer = a
      /\ \A u \in Task \ {t} : task'[u] = task[u]
  BY DEF Inv, RestType, Started
<1>3. [u \in Task |-> task'[u].body] = [[u \in Task |-> task[u].body] EXCEPT ![t] = b]
  BY <1>2
<1>4. [u \in Task |-> task'[u].answer] = [[u \in Task |-> task[u].answer] EXCEPT ![t] = a]
  BY <1>2
<1>5. QED
  BY <1>1, <1>3, <1>4, LedgerBacked DEF Ledger!Post

\* A handler that ends replies to its request.
LEMMA LedgerReply ==
    ASSUME Inv, NEW t \in Task, task[t].pc \in {"chain", "sending"},
           NEW status \in Settled, BackedBy(task, tx, task[t].body, status),
           Finish(t, status)
    PROVE  Ledger!Reply(t)
<1>1. /\ task[t].body \in Body /\ task[t].body # NoJob
      /\ task[t].answer = "none" /\ status \in Answer
  BY IdAssumption DEF Inv, HandlerShape, Answer
<1>2. /\ tx' = tx
      /\ task' = [task EXCEPT ![t].pc = "done", ![t].answer = status]
  BY DEF Finish
<1>3. \A u \in Task : /\ task'[u].body = task[u].body
                      /\ task'[u].answer = IF u = t THEN status ELSE task[u].answer
  BY <1>2 DEF Inv, RestType, Request
<1>4. [u \in Task |-> task'[u].body] = [u \in Task |-> task[u].body]
  BY <1>3
<1>5. [u \in Task |-> task'[u].answer] = [[u \in Task |-> task[u].answer] EXCEPT ![t] = status]
  BY <1>3
<1>6. QED
  BY <1>1, <1>2, <1>4, <1>5, LedgerBacked DEF Ledger!Reply

\* The node's steps are the ledger's.
LEMMA LedgerChain ==
    ASSUME Inv, NEW t \in Task, Broadcast(t) \/ Include(t)
    PROVE  Ledger!Send(t) \/ Ledger!Execute(t)
<1>1. CASE Broadcast(t)
  <2>1. task[t].body # NoJob /\ task[t].answer = "none"
    BY <1>1, IdAssumption DEF Broadcast, Inv, HandlerShape
  <2>2. QED
    BY <1>1, <2>1 DEF Broadcast, Ledger!Send
<1>2. CASE Include(t)
  BY <1>2 DEF Include, Ledger!Execute, Ledger!Executed
<1>3. QED
  BY <1>1, <1>2

\* A restart loses what is not answered.
LEMMA LedgerLose == ASSUME Inv, Restart PROVE Ledger!Lose
<1>1. ASSUME NEW u \in Task
      PROVE  /\ task'[u].body = task[u].body
             /\ task'[u].answer = IF task[u].body # NoJob /\ task[u].answer = "none"
                                  THEN "lost" ELSE task[u].answer
  <2>1. task'[u] = IF task[u].pc \in {"chain", "sending"}
                   THEN [task[u] EXCEPT !.pc = "done", !.answer = "lost"]
                   ELSE task[u]
    BY DEF Restart
  <2>2. task[u] \in Request
    BY DEF Inv, RestType
  <2>3. CASE task[u].pc \in {"chain", "sending"}
    <3>1. task[u].body # NoJob /\ task[u].answer = "none"
      BY <2>3, IdAssumption DEF Inv, HandlerShape
    <3>2. QED
      BY <2>1, <2>2, <2>3, <3>1 DEF Request
  <2>4. CASE task[u].pc = "idle"
    BY <2>1, <2>4 DEF Inv, HandlerShape, Idle
  <2>5. CASE task[u].pc = "done"
    BY <2>1, <2>5 DEF Inv, HandlerShape
  <2>6. QED
    BY <2>2, <2>3, <2>4, <2>5 DEF Request
<1>2. [u \in Task |-> task'[u].body] = [u \in Task |-> task[u].body]
  BY <1>1
<1>3. [u \in Task |-> task'[u].answer]
        = [u \in Task |-> IF task[u].body # NoJob /\ task[u].answer = "none"
                         THEN "lost" ELSE task[u].answer]
  BY <1>1
<1>4. QED
  BY <1>2, <1>3 DEF Ledger!Lose, Restart

\* What the store has of a job backs the answer to a repeated request.
LEMMA LedgerRepeat ==
    ASSUME Inv, NEW t \in Task, task[t].pc = "idle",
           NEW c \in ClientRequestId \cup {NoClientId}, NEW b \in Body,
           PostExisting(t, c, b)
    PROVE  Ledger!Post(t)
<1> DEFINE s == Expire(store, now)
           j == store.index[c].job
<1>1. /\ Existing(c) = store.index[c]
      /\ j \in Retained(store) /\ j \in Task /\ task[j].body = b
  BY DEF PostExisting, Existing, Inv, StoreInv, StoreSound, StoreType
<1>2. /\ Retained(s) \subseteq Retained(store)
      /\ \A k \in Retained(s) : s.jobs[k] = store.jobs[k]
  BY ExpireLemma DEF Inv, RestType
<1>3. tx' = tx
  BY DEF PostExisting
<1>4. /\ BackedBy(task, tx, b, "notfound") /\ BackedBy(task, tx, b, "none")
      /\ "notfound" \in Answer /\ "none" \in Answer
  BY DEF BackedBy, Answer, Refusal
<1>5. CASE j \notin Retained(s)
  <2>1. task' = [task EXCEPT ![t] = Started(c, b, "done", NoJob, "notfound")]
    BY <1>1, <1>5 DEF PostExisting
  <2>2. QED
    BY <1>3, <1>4, <2>1, LedgerPost
<1>6. CASE j \in Retained(s) /\ s.jobs[j].status = "pending"
  <2>1. task' = [task EXCEPT ![t] = Started(c, b, "chain", j, "none")]
    BY <1>1, <1>6 DEF PostExisting
  <2>2. QED
    BY <1>3, <1>4, <2>1, LedgerPost
<1>7. CASE j \in Retained(s) /\ s.jobs[j].status # "pending"
  <2>1. task' = [task EXCEPT ![t] = Started(c, b, "done", j, s.jobs[j].status)]
    BY <1>1, <1>7 DEF PostExisting
  <2>2. s.jobs[j] = store.jobs[j] /\ store.jobs[j] \in Job
    BY <1>1, <1>2, <1>7 DEF Inv, StoreInv, StoreType
  <2>3. s.jobs[j].status \in Answer
    BY <1>7, <2>2 DEF Job, Status, Answer
  <2>4. BackedBy(task, tx, b, s.jobs[j].status)
    BY <1>1, <2>2 DEF Inv, AllBacked
  <2> HIDE DEF s, j
  <2>5. QED
    BY <1>3, <2>1, <2>3, <2>4, LedgerPost
<1>8. QED
  BY <1>5, <1>6, <1>7

\* Every step of the service is a step of the ledger or none.
LEMMA LedgerStep == ASSUME Inv, [Next]_vars PROVE [Ledger!Next]_(Ledger!vars)
<1>1. ASSUME NEW t \in Task, Post(t) PROVE Ledger!Post(t)
  <2>1. PICK c \in ClientRequestId \cup {NoClientId}, b \in Body :
          PostConflict(t, c, b) \/ PostExisting(t, c, b) \/ PostNew(t, c, b)
    BY <1>1 DEF Post
  <2>2. task[t].pc = "idle"
    BY <1>1 DEF Post
  <2>3. /\ BackedBy(task, tx, b, "conflict") /\ BackedBy(task, tx, b, "none")
        /\ "conflict" \in Answer /\ "none" \in Answer
    BY DEF BackedBy, Answer, Refusal
  <2>4. CASE PostConflict(t, c, b)
    BY <2>2, <2>3, <2>4, LedgerPost DEF PostConflict
  <2>5. CASE PostExisting(t, c, b)
    BY <2>2, <2>5, LedgerRepeat
  <2>6. CASE PostNew(t, c, b)
    BY <2>2, <2>3, <2>6, LedgerPost DEF PostNew
  <2>7. QED
    BY <2>1, <2>4, <2>5, <2>6
<1>2. ASSUME NEW t \in Task, SubmitRaises(t) \/ SendReturns(t) PROVE Ledger!Reply(t)
  <2>1. PICK status \in Settled : /\ BackedBy(task, tx, task[t].body, status)
                                  /\ Finish(t, status)
    <3>1. CASE SubmitRaises(t)
      BY <3>1 DEF SubmitRaises, BackedBy, Settled
    <3>2. CASE SendReturns(t)
      BY <3>2, SubmissionLemma DEF SendReturns
    <3>3. QED
      BY <1>2, <3>1, <3>2
  <2>2. QED
    BY <1>2, <2>1, LedgerReply DEF SubmitRaises, SendReturns
<1>3. ASSUME NEW t \in Task, Broadcast(t) \/ Include(t) PROVE Ledger!Next
  BY <1>3, LedgerChain DEF Ledger!Next
<1>4. ASSUME NEW t \in Task, EnsureChainId(t) PROVE UNCHANGED Ledger!vars
  <2>1. \A u \in Task : task'[u].body = task[u].body /\ task'[u].answer = task[u].answer
    BY <1>4 DEF EnsureChainId, Inv, RestType, Request
  <2>2. /\ [u \in Task |-> task'[u].body] = [u \in Task |-> task[u].body]
        /\ [u \in Task |-> task'[u].answer] = [u \in Task |-> task[u].answer]
    BY <2>1
  <2>3. QED
    BY <1>4, <2>2 DEF EnsureChainId, Ledger!vars
<1>5. CASE Lookup \/ Tick \/ UNCHANGED vars
  BY <1>5 DEF Lookup, Tick, vars, Ledger!vars
<1>6. CASE Restart
  BY <1>6, LedgerLose DEF Ledger!Next
<1>7. QED
  BY <1>1, <1>2, <1>3, <1>4, <1>5, <1>6 DEF Next, Handler, Ledger!Next

\* With any number of requests, restarts and lost answers the service keeps the promise
\* of RelayLedger: history, index, expiry and shared jobs never show.
THEOREM LedgerImplemented == Spec => ImplementsLedger
<1>1. Inv /\ [Next]_vars => [Ledger!Next]_(Ledger!vars)
  BY LedgerStep
<1>2. QED
  BY <1>1, LedgerInit, Invariance, PTL DEF Spec, ImplementsLedger, Ledger!Spec
================================================================================
