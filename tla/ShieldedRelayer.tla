---------------------------- MODULE ShieldedRelayer ----------------------------
(***************************************************************************)
(* The job store of the shielded relayer (scripts/                         *)
(* shielded_relayer_service.py): POST handlers that share one asyncio      *)
(* event loop, one in-memory job history and one client-request index, and *)
(* that suspend while the node is asked for its chain id and while the     *)
(* transaction is sent.  A step of a handler between two awaits is one     *)
(* action.  The node and the chain are external and may answer late, fail  *)
(* or lose the answer of a transaction they have already taken.            *)
(***************************************************************************)
EXTENDS Integers, FiniteSets, Functions

CONSTANTS
    Task,             \* POST requests; a job carries the name of the task that created it
    ClientRequestId,  \* values of the optional field client_request_id
    Body,             \* the rest of the request body, up to its fingerprint
    NoClientId,       \* the field is absent
    NoJob,            \* no job, or no index entry
    HistoryLimit,     \* config.job_history_limit
    Ttl,              \* config.job_history_ttl_seconds, 0 switches expiry off
    MaxTime,          \* bound on the clock
    MaxRestarts       \* bound on the number of process restarts

ASSUME TaskAssumption == IsFiniteSet(Task) /\ NoJob \notin Task
\* NoJob is none of the records below
ASSUME EntryAssumption == NoJob \notin [body : Body, job : Task]
ASSUME IdAssumption == NoClientId \notin ClientRequestId /\ NoJob \notin Body
\* _validate_config refuses a limit <= 0 and a negative ttl
ASSUME ConfigAssumption == HistoryLimit \in Nat \ {0} /\ Ttl \in Nat

VARIABLES
    now,       \* self._now(): whole seconds, never going backwards
    store,     \* _jobs, _job_updated_at and _client_request_index
    task,      \* the handlers: where each is suspended and what it holds
    tx,        \* external: what became of the transaction each handler sent
    restarts

vars == <<now, store, task, tx, restarts>>

Settled == {"submitted", "accepted", "finalized", "failed"}
Status  == Settled \cup {"pending"}
Refusal == {"conflict", "notfound"}
Answer  == Settled \cup Refusal \cup {"none", "lost"}

Job  == [cid : ClientRequestId \cup {NoClientId}, status : Status]
\* _client_request_index[c] = (request fingerprint, job id)
Entry == [body : Body, job : Task]

--------------------------------------------------------------------------------
(* The store.  `order` gives the position of a job in the OrderedDict _jobs: *)
(* the value of the counter `seq` when the job was last moved to the end.    *)

EmptyStore == [jobs      |-> [j \in {} |-> NoJob],
               updatedAt |-> [j \in {} |-> 0],
               order     |-> [j \in {} |-> 0],
               seq       |-> 0,
               index     |-> [c \in ClientRequestId |-> NoJob]]

Retained(s) == DOMAIN s.jobs

\* Operators named ...Faulty are the operator they precede with one plausible
\* mistake; no specification uses them.  They show that a property notices it.

\* the time stamp of an evicted job is left behind
EvictFaulty1(s, ids) ==
    [s EXCEPT !.jobs = Restrict(s.jobs, Retained(s) \ ids),
              !.order = Restrict(s.order, Retained(s) \ ids)]

\* the index entry of an evicted job is left behind
EvictFaulty2(s, ids) ==
    LET kept == Retained(s) \ ids
    IN  [s EXCEPT !.jobs = Restrict(s.jobs, kept),
                  !.updatedAt = Restrict(s.updatedAt, kept),
                  !.order = Restrict(s.order, kept)]

\* _evict_job for every job of ids: the index entry of the job's
\* client_request_id goes with it, whatever job that entry names
Evict(s, ids) ==
    LET kept == Retained(s) \ ids
        cids == {s.jobs[j].cid : j \in ids}
    IN  [jobs      |-> Restrict(s.jobs, kept),
         updatedAt |-> Restrict(s.updatedAt, kept),
         order     |-> Restrict(s.order, kept),
         seq       |-> s.seq,
         index     |-> [c \in ClientRequestId |->
                            IF c \in cids THEN NoJob ELSE s.index[c]]]

\* _expire_jobs at time t
Expire(s, t) ==
    IF Ttl = 0
    THEN s
    ELSE Evict(s, {j \in Retained(s) : s.updatedAt[j] <= t - Ttl})

\* _jobs[j] = job, move_to_end and the time stamp
Insert(s, j, job, t) ==
    LET ids == Retained(s) \cup {j}
    IN  [jobs      |-> [k \in ids |-> IF k = j THEN job ELSE s.jobs[k]],
         updatedAt |-> [k \in ids |-> IF k = j THEN t ELSE s.updatedAt[k]],
         order     |-> [k \in ids |-> IF k = j THEN s.seq + 1 ELSE s.order[k]],
         seq       |-> s.seq + 1,
         index     |-> s.index]

\* popitem(last=False)
Oldest(s) == {j \in Retained(s) : \A k \in Retained(s) : s.order[j] <= s.order[k]}

\* one job too many
TrimFaulty(s) ==
    IF Cardinality(Retained(s)) > HistoryLimit + 1 THEN Evict(s, Oldest(s)) ELSE s

\* the while loop of _remember_job: Insert adds at most one job to a history
\* within its limit, so the loop body runs at most once (HistoryBounded)
Trim(s) ==
    IF Cardinality(Retained(s)) > HistoryLimit THEN Evict(s, Oldest(s)) ELSE s

Remember(s, j, job, t) == Trim(Insert(Expire(s, t), j, job, t))

SetIndex(s, c, entry) ==
    IF c = NoClientId THEN s ELSE [s EXCEPT !.index[c] = entry]

--------------------------------------------------------------------------------
Idle == [pc |-> "idle", cid |-> NoClientId, body |-> NoJob, job |-> NoJob,
         answer |-> "none"]

Init ==
    /\ now = 0
    /\ store = EmptyStore
    /\ task = [t \in Task |-> Idle]
    /\ tx = [t \in Task |-> "none"]
    /\ restarts = 0

Existing(c) == IF c = NoClientId THEN NoJob ELSE store.index[c]

Started(c, b, pc, j, a) == [pc |-> pc, cid |-> c, body |-> b, job |-> j, answer |-> a]

\* a client_request_id already used for another body: 409, before any expiry
PostConflict(t, c, b) ==
    /\ Existing(c) # NoJob
    /\ Existing(c).body # b
    /\ task' = [task EXCEPT ![t] = Started(c, b, "done", NoJob, "conflict")]
    /\ UNCHANGED <<now, store, tx, restarts>>

\* without the comparison of the fingerprints
PostExistingFaulty1(t, c, b) ==
    LET j == Existing(c).job
        s == Expire(store, now)
    IN  /\ Existing(c) # NoJob
        /\ store' = s
        /\ task' = [task EXCEPT ![t] =
               IF j \notin Retained(s) THEN Started(c, b, "done", NoJob, "notfound")
               ELSE IF s.jobs[j].status = "pending" THEN Started(c, b, "chain", j, "none")
               ELSE Started(c, b, "done", j, s.jobs[j].status)]
        /\ UNCHANGED <<now, tx, restarts>>

\* a job that failed is pending again when its request is repeated
PostExistingFaulty2(t, c, b) ==
    LET j == Existing(c).job
        s == Expire(store, now)
    IN  /\ Existing(c) # NoJob
        /\ Existing(c).body = b
        /\ j \in Retained(s)
        /\ store' = Remember(s, j, [cid |-> c, status |-> "pending"], now)
        /\ task' = [task EXCEPT ![t] = Started(c, b, "chain", j, "none")]
        /\ UNCHANGED <<now, tx, restarts>>

\* the index names a job: get_job expires the history and looks the job up.  A
\* job still pending is handed to this handler too, which goes on to submit it
PostExisting(t, c, b) ==
    LET j == Existing(c).job
        s == Expire(store, now)
    IN  /\ Existing(c) # NoJob
        /\ Existing(c).body = b
        /\ store' = s
        /\ task' = [task EXCEPT ![t] =
               IF j \notin Retained(s) THEN Started(c, b, "done", NoJob, "notfound")
               ELSE IF s.jobs[j].status = "pending" THEN Started(c, b, "chain", j, "none")
               ELSE Started(c, b, "done", j, s.jobs[j].status)]
        /\ UNCHANGED <<now, tx, restarts>>

\* no entry: a pending job is remembered and indexed
PostNew(t, c, b) ==
    LET job == [cid |-> c, status |-> "pending"]
    IN  /\ Existing(c) = NoJob
        /\ store' = SetIndex(Remember(store, t, job, now), c, [body |-> b, job |-> t])
        /\ task' = [task EXCEPT ![t] = Started(c, b, "chain", t, "none")]
        /\ UNCHANGED <<now, tx, restarts>>

Post(t) ==
    /\ task[t].pc = "idle"
    /\ \E c \in ClientRequestId \cup {NoClientId}, b \in Body :
           PostConflict(t, c, b) \/ PostExisting(t, c, b) \/ PostNew(t, c, b)

\* the finally clause is gone
FinishFaulty(t, status) ==
    /\ task' = [task EXCEPT ![t].pc = "done", ![t].answer = status]
    /\ UNCHANGED <<now, store, tx, restarts>>

\* the handler's own job dict gets its final status and is remembered again (Remember,
\* with each of its values computed once)
Finish(t, status) ==
    /\ LET job == [cid |-> task[t].cid, status |-> status]
       IN store' \in {Trim(s) : s \in {Insert(e, task[t].job, job, now) : e \in {Expire(store, now)}}}
    /\ task' = [task EXCEPT ![t].pc = "done", ![t].answer = status]
    /\ UNCHANGED <<now, tx, restarts>>

\* await self.ensure_chain_id() returns
EnsureChainId(t) ==
    /\ task[t].pc = "chain"
    /\ task' = [task EXCEPT ![t].pc = "sending"]
    /\ UNCHANGED <<now, store, tx, restarts>>

\* answered, but still trying in the background
SubmitRaisesFaulty1(t) ==
    /\ task[t].pc \in {"chain", "sending"}
    /\ task[t].answer = "none"
    /\ store' = Remember(store, task[t].job, [cid |-> task[t].cid, status |-> "failed"], now)
    /\ task' = [task EXCEPT ![t].answer = "failed"]
    /\ UNCHANGED <<now, tx, restarts>>

\* an exception is retried without limit
SubmitRaisesFaulty2(t) ==
    /\ task[t].pc = "sending"
    /\ task' = [task EXCEPT ![t].pc = "chain"]
    /\ UNCHANGED <<now, store, tx, restarts>>

\* ensure_chain_id or send_tx raises: the node is unreachable, the simulation
\* fails, or the wait for the receipt times out after the broadcast
SubmitRaises(t) ==
    /\ task[t].pc \in {"chain", "sending"}
    /\ Finish(t, "failed")

\* "finalized" is looked at before the success of the receipt
SubmissionStatusFaulty(fate) ==
    CASE fate = "none"    -> {"failed"}
      [] fate = "mempool" -> {"submitted", "accepted"}
      [] fate = "success" -> {"submitted", "accepted", "finalized"}
      [] fate = "failure" -> {"submitted", "accepted", "finalized"}

\* what _job_status makes of the submission that send_tx returns
SubmissionStatus(fate) ==
    CASE fate = "none"    -> {"failed"}
      [] fate = "mempool" -> {"submitted", "accepted"}
      [] fate = "success" -> {"submitted", "accepted", "finalized"}
      [] fate = "failure" -> {"submitted", "accepted", "failed"}

SendReturns(t) ==
    /\ task[t].pc = "sending"
    /\ \E status \in SubmissionStatus(tx[t]) : Finish(t, status)

\* GET /v1/jobs/{job_id} and /metrics: both drop what has expired
Lookup ==
    /\ store' = Expire(store, now)
    /\ UNCHANGED <<now, task, tx, restarts>>

--------------------------------------------------------------------------------
\* external: send_tx hands the transaction to the node
Broadcast(t) ==
    /\ task[t].pc = "sending"
    /\ tx[t] = "none"
    /\ tx' = [tx EXCEPT ![t] = "mempool"]
    /\ UNCHANGED <<now, store, task, restarts>>

\* external: a block executes it, and it may fail for reasons of its own; the
\* nullifiers of a body are spent only once
Include(t) ==
    LET spent == \E u \in Task : tx[u] = "success" /\ task[u].body = task[t].body
    IN  /\ tx[t] = "mempool"
        /\ \/ tx' = [tx EXCEPT ![t] = "failure"]
           \/ ~spent /\ tx' = [tx EXCEPT ![t] = "success"]
        /\ UNCHANGED <<now, store, task, restarts>>

Tick ==
    /\ now < MaxTime
    /\ now' = now + 1
    /\ UNCHANGED <<store, task, tx, restarts>>

\* the process dies with its memory; its clients never get an answer
Restart ==
    /\ restarts < MaxRestarts
    /\ restarts' = restarts + 1
    /\ store' = EmptyStore
    /\ task' = [t \in Task |->
           IF task[t].pc \in {"chain", "sending"}
           THEN [task[t] EXCEPT !.pc = "done", !.answer = "lost"]
           ELSE task[t]]
    /\ UNCHANGED <<now, tx>>

\* what the event loop runs for one request
Handler(t) ==
    Post(t) \/ EnsureChainId(t) \/ SubmitRaises(t) \/ SendReturns(t)

Next ==
    \/ \E t \in Task : Handler(t) \/ Broadcast(t) \/ Include(t)
    \/ Lookup
    \/ Tick
    \/ Restart

Spec == Init /\ [][Next]_vars

\* both awaits of a handler end: the client library bounds every node call and
\* the wait for a receipt with timeout_seconds
FairSpec ==
    /\ Spec
    /\ \A t \in Task : WF_vars(EnsureChainId(t) \/ SubmitRaises(t) \/ SendReturns(t))
--------------------------------------------------------------------------------
(* Properties.                                                               *)

\* Types of the variables.
TypeOK ==
    /\ now \in Nat
    /\ Retained(store) \subseteq Task
    /\ store \in [jobs      : [Retained(store) -> Job],
                  updatedAt : [Retained(store) -> Nat],
                  order     : [Retained(store) -> Nat],
                  seq       : Nat,
                  index     : [ClientRequestId -> Entry \cup {NoJob}]]
    /\ task \in [Task -> [pc     : {"idle", "chain", "sending", "done"},
                          cid    : ClientRequestId \cup {NoClientId},
                          body   : Body \cup {NoJob},
                          job    : Task \cup {NoJob},
                          answer : Answer]]
    /\ tx \in [Task -> {"none", "mempool", "success", "failure"}]
    /\ restarts \in Nat

\* The history never outgrows job_history_limit, although handlers whose job
\* was evicted while they were suspended put it back (_remember_job).
HistoryBounded == Cardinality(Retained(store)) <= HistoryLimit

\* Whatever was evicted, expired or put back meanwhile, an index entry names a
\* retained job of that client_request_id, created for that very body: the
\* lookup in _prepare_idempotent_job can neither dangle nor cross requests.
IndexSound ==
    \A c \in ClientRequestId :
        store.index[c] # NoJob =>
            /\ store.index[c].job \in Retained(store)
            /\ store.jobs[store.index[c].job].cid = c
            /\ task[store.index[c].job].cid = c
            /\ task[store.index[c].job].body = store.index[c].body

\* The history limit and the ttl agree on which job is the oldest: the order of
\* the OrderedDict is the order of _job_updated_at.
AgeOrder ==
    \A j, k \in Retained(store) :
        store.order[j] < store.order[k] => store.updatedAt[j] <= store.updatedAt[k]

\* A client is only ever answered with a job created for its own
\* client_request_id and body, even when another handler finished that job.
AnswersOwnRequest ==
    \A t \in Task :
        task[t].job # NoJob =>
            /\ task[task[t].job].cid = task[t].cid
            /\ task[task[t].job].body = task[t].body

\* The transactions sent for body b back the job status a: "finalized" needs one
\* that was executed, "submitted" and "accepted" one that was sent.
Backed(b, a) ==
    /\ a = "finalized" => \E u \in Task : task[u].body = b /\ tx[u] = "success"
    /\ a \in {"submitted", "accepted"} => \E u \in Task : task[u].body = b /\ tx[u] # "none"

\* What a client is told, by its own handler or by the replay of a stored job,
\* and what a GET of a retained job would tell, is backed by the chain.
AnswersBacked ==
    /\ \A t \in Task : Backed(task[t].body, task[t].answer)
    /\ \A j \in Retained(store) : Backed(task[j].body, store.jobs[j].status)

\* A retained job that has settled is never seen pending again, whichever of
\* the handlers that share it writes last.
SettledStaysSettled ==
    [][\A j \in Retained(store) \cap Retained(store') :
          store.jobs[j].status \in Settled => store'.jobs[j].status \in Settled]_vars

\* Every request that was posted is answered or lost with the process.
PostsAnswered == \A t \in Task : task[t].pc = "chain" ~> task[t].pc = "done"

\* No job is retained as pending for ever, so a retry is not told "pending"
\* for ever either.
PendingEnds ==
    \A j \in Task :
        (j \in Retained(store) /\ store.jobs[j].status = "pending")
            ~> ~(j \in Retained(store) /\ store.jobs[j].status = "pending")

--------------------------------------------------------------------------------
(* The promise of the service, without its store.                            *)

Ledger == INSTANCE RelayLedger WITH
    NoBody  <- NoJob,
    request <- [t \in Task |-> task[t].body],
    answer  <- [t \in Task |-> task[t].answer],
    tx      <- tx

\* The history, the index, their expiry and the handlers' interleaving never
\* show: every step of the service is a step of RelayLedger or none.
ImplementsLedger == Ledger!Spec

--------------------------------------------------------------------------------
(* What /v1/info advertises as idempotent_client_request_ids and             *)
(* tests/test_shielded_relayer_service.py asserts of a replayed request; the *)
(* code falls short of it.                                                   *)

\* One job sends one transaction, however often its request is posted.
OneSendPerJob ==
    \A t, u \in Task :
        t # u /\ tx[t] # "none" /\ tx[u] # "none" => task[t].job # task[u].job
================================================================================
