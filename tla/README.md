# TLA+ models of xian-stack

xian-stack runs Xian nodes: it builds and starts the containers, offers the local
services next to a node (a shielded relayer, a DEX automation), tests whole local
networks, and releases the packages of the Xian workspace. This directory holds
TLA+ models of those parts of it that carry state across steps of more than one
actor, the TLC runs that check them on small instances, and proofs of the results
that should hold for every instance.

Contents: [the system](#the-system), [the modules](#the-modules),
[the runs](#the-runs), [bounds](#bounds), [fairness](#fairness),
[the proofs](#the-proofs), [what the code falls short of](#what-the-code-falls-short-of),
[what is not modelled](#what-is-not-modelled), [the plan](#the-plan),
[running it](#running-it).

## The system

| Component | State | Operations | Interacts with |
|---|---|---|---|
| Shielded relayer service: job store (`scripts/shielded_relayer_service.py`) | `_jobs`, `_job_updated_at`, `_client_request_index`, all in memory | POST of a shielded transaction or command, GET of a job | the node, through the client library; an operator's restarts |
| Shielded relayer service: rate limiter (same file) | `_rate_limit_buckets` | admit or refuse a request | the wall clock |
| Detached service launchers (`scripts/shielded_relayer_backend.py`, `scripts/dex_automation_backend.py`) | a pid file, a process group | start, stop, status, each a process of its own | the capture process, the service's health endpoint |
| Bounded log capture (`scripts/log_capture.py`) | the log directory, a lock | drain output, rotate, prune, check periodically, own the service's process group | the service, the launchers |
| DEX workload (`workloads/dex_mixed/`) | pairs, shares, allowances, known balances; tokens | pair and router functions | users' transactions in any order |
| Release orchestrator (`scripts/release_orchestrator.py`) | nine clones, their tags, GitHub's branches | plan, apply | other people's pushes, GitHub's checks, later runs |
| Backend commands (`scripts/backend.py`) | none of its own | start, stop, status, health, endpoints, localnet-* | make, docker, the launchers above |
| Localnet workloads (`scripts/localnet-workload.py`) | a nonce per wallet, the node a wallet stays with, records of broadcast transactions | reserve a nonce, broadcast with failover, wait for a receipt, rebroadcast, poll, drain, compare states | several nodes |
| Localnet end-to-end suite (`scripts/localnet-e2e.py`, `localnet_*_checks.py`, `localnet_contract_suite.py`) | the phase it is in; what it has stopped, cut off, changed | send, read, wait, vote, stop, start, partition, crash, restart, compare | five nodes of the xian-abci repository, an indexer, the relayer |
| Safety drills (`scripts/localnet-protocol-safety.py`), vote helpers (`scripts/governance_vote_helpers.py`) | the same, and the validators' powers | votes on policies, members, patches; delegation, jail, evidence, leave | the same nodes and their governance contracts |
| Set-up, images, monitoring, CI, documents | files | generate, validate, build | docker, GitHub |

What is hard in each of them, and what makes it correct:

* **Job store.** Handlers share one event loop and suspend twice, before and during
  the transaction; while one is suspended others evict, expire and reuse what it
  holds. It is correct when the index never names a job of another request, the
  history stays within its limit, no job that is settled is seen pending again, and
  no answer claims more than the chain has seen, also across a restart and when the
  node's answer is lost.
* **Rate limiter.** A bucket is refilled from a wall clock that may be set back. It
  is correct when no period admits more than the burst and its refill, and when a
  client that obeys `Retry-After` is admitted.
* **Launchers.** Commands are processes that are not kept apart; a command may be
  killed half way; the service may die at any time. They are correct when a service
  that lives can be found and a stop leaves none alive.
* **Log capture.** Rotation, age, budget and number of archives interact, and a kill
  between a rename and the pruning leaves a state the next start must accept. It is
  correct when the directory never exceeds its total, nothing recent is dropped and
  nothing old is kept.
* **DEX.** Deposit and credit are two calls of possibly two users, all pairs share
  one account, and every division rounds. It is correct when the account covers all
  pairs, no share loses value and a seeded pair stays seeded.
* **Releases.** A run may end at any git call, others push meanwhile, and the next
  run starts from what was left. It is correct when a tag is on main, has the version
  it names and was seen green, and when the stack pins the releases it follows.

* **Workloads.** Requests fail with the transaction taken or not, nodes restart and
  forget what they had admitted, nonces are counted locally. They are correct when
  nothing is executed twice, a run that reports success has executed what it says and
  compared the states it says, and a wallet's transactions are not refused for their
  order.
* **End-to-end suite, checks and drills.** What one node has executed another may
  execute a moment later, so that a script that writes through one and reads through
  another, or reads a nonce there, may fail on a network that is right; and a test of
  a refusal may be passed by the wrong refusal. They are correct when they raise no
  false alarm, pass nothing untested, wait for nothing that they have themselves made
  impossible, and leave the network as the next phase expects it.

`PROJECT.json` lists the hazards line by line (`hazards`), the definitions with the
lines they stand for (`map`), and, for each property, a plausible mistake in the code
that breaks it (`mutants`). The mistakes are the operators named `...Faulty` in the
modules; no specification uses them.

## The modules

### ShieldedRelayer, with RelayLedger above it

`store` is the service's three dictionaries, with the order of the `OrderedDict` as a
counter per job. `task` is one POST handler each: where it is suspended, the request,
the job it shares, its answer. What runs between two awaits is one action:

| Action | Code |
|---|---|
| `Post` | `_submit_job` up to `ensure_chain_id`: expiry, lookup in the index, conflict, replay of a settled job, a new job |
| `EnsureChainId` | the first await |
| `Broadcast`, `Include` | external: the node takes the transaction, the chain executes or rejects it |
| `SubmitRaises`, `SendReturns` | the second await ends, with an error or with a receipt; the job is settled and put back into the history (`Finish`) |
| `Lookup` | `get_job`, which expires the history too |
| `Restart`, `Tick` | the process and its memory are lost; time passes |

`RelayLedger` is what a client may rely on: posted requests, answers and transactions,
without history, index or awaits. `ImplementsLedger` says that every step of the
service is one of its steps, under the mapping at the end of `ShieldedRelayer`.

Abstractions: the clock of the store does not go back (the rate limiter's does); the
kind of the endpoint is part of the body; a handler is cancelled only with the
process; the lock around the chain id is one await; a request has already passed
authentication, policy and validation, none of which keeps state. A job that is evicted while its
handler is suspended loses its index entry and is put back without it, so that a
later retry sends again; the model does as the code.

### RateLimiter

`enforce_rate_limit`: `Admit`, `Refuse`, and the passing and setting back of the
clock. A request is 60 units, so that a second refills `RatePerMinute` of them and
levels are exact where the code has floats. `since` and `promise` are history: what
each client was admitted since each moment, and when it may expect to be admitted.

### DexPairs, DexRouter

A contract function is an operator from a state to the set of its outcomes, empty
when an assertion fails, so that a transaction that fails rolls back. `DexPairs` has
the tokens and every exported function of `con_pairs.py`; `DexRouter` extends it with
the functions of `con_dex.py`, each a composition of the former. `DexSpec` is a
world in which either everyone calls the pairs directly or everyone uses the router.

Abstractions: amounts are whole units of `MINIMUM_LIQUIDITY`, and division and square
root round down; the re-entrancy lock is left out because the tokens of the workload
never call back; `deadline` only refuses a call; the check that a swap is not paid to
a token's own account is dropped, since accounts and tokens are different things
here. `addLiquidity` sorts the names of the two tokens but not the two amounts, and
so does the model.

### DetachedRuntime

`cmd` is one backend process each, running start, stop or status one system call at a
time; `pidFile` is the file between them, `group` the state of every process group a
start has spawned. Every start and stop begins with the status of the service, as in
the code, which is where two commands meet: `StatusUnlink` removes the file whatever
it holds by then. `Killed` ends a command anywhere. `Boot`, `ServiceReady`,
`ServiceExits` and `GroupEnds` are the wrapper and the service.

Abstractions: process ids are not reused; a group that was sent SIGKILL is gone at
once; the wrapper does not die without its group. `overlap` is history: whether two
commands have been under way at once.

### LogCapture

`files` is the log directory as the code sees it: the archives in the order of their
names, the active file, and how long ago it was opened. `Write`, `Check`, `Finish`,
`Start`, and `Tick` for the time; `Crash` and `CrashAtStart` end the process
between any two of the file operations of a step. Times are ages that stop growing at
`MaxAge`. The clock does not go back, so that names and ages agree.

### ReleaseApply

`main` is every repository's branch on GitHub, a sequence of commits of which only
what a release looks at is kept: the units it touches, the version of each, the pins
of the stack's manifest. `clone` is what the operator has: HEAD, origin/main, an
unpushed commit, whether it is dirty. `Apply` is the plan and the checks of the
clones, `CheckGreen` the answer of GitHub, and then `SyncFiles`, `Commit`, `Push`,
`Tag`, `PushTag` for one unit after the other. `PushRejected` and `Abort` end a run
anywhere. `Develop` is others' work on main, `Pull` what the operator does to get a
clone back into a state that `apply` accepts.

Abstractions: versions are naturals and a bump adds one; a branch other than main
counts as dirty; every unit has been released once; a file changed and changed back
counts as changed; `--force-all` and the prerelease channels are left out; whether
the checks of a ref are green is decided anew by every run.

### Localnet, Workload

`Localnet` is what a script can tell of the nodes: the chain, how far each node has
executed it, what each has admitted and not executed, and the answer of `CheckTx` to a
transaction it may know already. Nodes pass transactions on, execute, fall behind and
restart without their mempool. `Workload` is a run of `localnet-workload.py`: batches
of transactions of one of the five scenarios, each record with the place of its
coroutine. What runs between two awaits is one action:

| Action | Code |
|---|---|
| `ReserveStream`, `Prepare`, `ReadFails` | `reserve_nonces`, under its lock: the greatest nonce of the healthy nodes, once, then a local counter |
| `Send`, `SendFails` | `broadcast_tx`: one attempt, with the node a wallet stays with, or the next one after a failure |
| `BatchSent` | `require_all_admitted` |
| `Found`, `TimedOut`, `Rejected` | `_resolve_record`, `wait_for_tx_receipt` |
| `Rebroadcast`, `NotFound` | `rebroadcast_and_wait_for_receipt`: one offset |
| `PollNode`, `Polled`, `Drained`, `WaitFails`, `Observe` | the waits of a scenario and the observer's record |
| `Sample`, `Compare`, `CompareAgain` | `compare_state`: statuses first, values later |

Every action that asks nodes chooses the ones that answer; those that do not count as
faults, of which there are `MaxFaults` in all. Left out: the transaction that is sent
to flush the mempool (the nodes of the model always execute what they have), the
comparison of app hashes (the nodes agree on their chain), funding, measurements.

### Steps, ScriptedNet

A phase of the end-to-end suite is a long function with little control and no state
but where it is: it sends, reads, waits, stops and starts. It is therefore written as
a sequence of steps, each of them one of some thirty operations. `Steps` has the
operations, `ScriptedNet` what they do to five nodes and what the nodes do meanwhile.

A key stands for the state that a step writes or reads, a wallet for its sequence of
nonces. `lag` is how many blocks a node still has to execute, `age` how many blocks
ago a key was written; a node knows a write when its lag is not greater than the age.
That is all that a false alarm depends on, and it keeps heights out of the state. The
validators' powers are kept with the blocks until they decide (`sets`), since a quorum
is counted with the powers of the block before, and a node answers with the powers of
the block that it has. `ballot` is the last proposal: the contract decides, after any
number of votes, that it is accepted.

| Steps | Actions | Code |
|---|---|---|
| send, refused, over, topup | `SendTx`, `Refuse`, `SendOver`, `SkipTopUp` | a transaction of a client, of `send_tx_with_broadcast_failover`, of `fund_wallets` |
| read, readall, readany, pick | `ReadOne`, `ReadAllNodes`, `ReadAnyNode`, `PickNode` | a value that is compared at once |
| until, agree, hashes | `AwaitOne`, `AgreeAll`, `CompareHashes` | a value that is awaited |
| settle, mark, due, marker, reach, recover | `Snapshot`, `Settled`, `MarkHeight`, `ReachMark` | heights |
| indexed, indexedmark, backlog | `AwaitIndexed` | the indexer |
| stop, start, restart, partition, heal, halted | `StopNodes`, `StartNodes`, `Restart`, `CutOff`, `Rejoin`, `NoProgress` | the containers and their network |
| take, putback | `TakeAway`, `GiveBack` | a database, a relayer, a log configuration, a hook |
| propose, vote, approved, elect, validators, counted | `ProposeVote`, `CastVote`, `AwaitApproved`, `ElectValidators`, `CountValidators` | `cast_votes_until_status`, the members contract, `/validators` |

`GiveUp` is a request that fails or a wait that runs into its timeout: it may happen
at every step, and runs the phase's finally clauses (`Leave`). A check that fails sets
`status` to "alarm"; the nodes of the model are right, so that every alarm is a false
one.

Assumed of the nodes, from how the scripts use them: a node's reported height,
receipts and state agree; every phase begins with nodes that agree (`run` stabilises
them before each); no node that runs is more than `Lag` blocks behind; new powers
decide from the second block on. Abstracted: the nonce is read in the step that sends
(one node, one moment); a partition is in force at once, which the code's pause of
three seconds for commits under way is for; a state patch takes effect with the vote
that decides on it, and its height is awaited; the commands of the finally clauses
succeed; an observer and the replaying containers are outside.

### ScriptRules

What is known of the nodes before each step of a script, as far as it can be read off the
steps (`Outset`, `After`), and the rules by which every check of a script is sure to hold
(`Careful`, `Tidy`). It has no variables and takes no steps: it is to a script what a type
checker is to a program. A new phase can be checked against it without exploring a state:
`RulesAssumption` fails at once if a value or a nonce is read at a node that need not
have it. [The proofs](#the-proofs) show that the rules are enough.

### E2EPhases, E2EShielded, E2EChecks, Drills

The scripts themselves, one operator per phase, each composed of operators for its
parts: the phases of `localnet-e2e.py`; those of the shielded pool, with commands,
notes, scheduled calls and the relayer; the checks of the `localnet_*_checks.py`
modules, which the suite runs as phases too; and the seven drills of
`localnet-protocol-safety.py`. A step stands for the call in the source that it is
named for, in the source's order, with the node that the source names. Repeated
checks of one kind are kept as one or two of them where the others differ in their
arguments only: one key of each kind for the seven of the shielded phase, two
deployments for its six, two wallets for the ten of a load.

## The runs

| Run | Question | States |
|---|---|---|
| `relayer` | do the store's indexes survive interleaved POSTs with eviction, expiry, late finishes and a restart, does the service keep `RelayLedger`'s promise, and does every request end? | 107 k |
| `rate_limit` | is the rate bounded over every period, and `Retry-After` honoured, with a clock that is set back? | 277 k |
| `dex_shares` | do shares add up and keep their value, with the fee switched on and off? | 231 k |
| `dex_router` | does the one account cover two pairs whatever the order of deposits and credits, and does a transaction of the router leave anything behind for others? | 140 k |
| `detached` | is a service ever lost sight of, is it gone after a stop, and does every command end? | 272 k |
| `log_capture` | are size, total, number, age and order bounded, and is nothing recent dropped? | 245 k |
| `release` | what is a tag worth after runs that failed anywhere and were repeated? | 104 k |
| `workload` | is anything executed twice, is a reported success true, are transactions sent in an order that nodes take? | 303 k |
| `scripts` | does any of 41 phases, checks and drills fail on a network that is right, pass untested, wait for ever, or leave something behind? | 223 k |
| `relayer_duplicate_send`, `release_checks`, `scripts_policy` | see [below](#what-the-code-falls-short-of) | |

What each property says is written above it in its module. The ones that took most
thought: `IndexSound`, `AnswersBacked` and `ImplementsLedger`; `RetryHonoured`;
`ShareValueKept` with the exception for the fee, and `GrowthKept`; `StoppedMeansStopped`;
`AgeBounded` (a part of `LimitsKept`), which needs the check interval twice;
`TaggedIsGreen`; `VerdictTrue` and `RebroadcastInOrder`; `NoFalseAlarm` and `ScriptEnds`,
which found the steps of the scripts that have to be read together.

`CHECK_DEADLOCK FALSE` is set where a bound ends the world (all requests posted, all
commands run, nothing left to trade, no more pushes). `LogCapture`, `RateLimiter`, `Workload` and
`ScriptedNet` are checked for deadlock; the latter two only stutter once a run or a phase has ended.

## Bounds

* **relayer**: two POSTs, one client request id or none, two bodies, a history of one
  job, a time to live and a clock of one, one restart: enough for a suspended
  handler's job to be evicted or expired, its id to be reused, and the handler to put
  the job back. No symmetry, because the run checks liveness and refinement. The
  invariants are proved for any number of POSTs.
* **rate_limit**: burst 2 and 35 a minute, so that a refill is neither a whole request
  nor a divisor of one; five seconds, one of which the clock may go back.
* **dex_shares**: one pair with reserves of up to 45 units, large enough for the
  protocol's sixth of the growth to be a whole share.
* **dex_router**: two pairs that share a token, amounts of up to five. One account is
  enough: nobody but the owner has rights of its own, and a second account would do
  what the first can do; holders other than it are the contracts and `DEAD`.
* **detached**: two commands at once, three in all, one of which may be killed: a
  service that was started, a second that meets it, and a third that finds what the
  two have left.
* **log_capture**: a file of two writes, a total of three files, three archives,
  retention and hour of two ticks, checks every tick and up to one late: all four
  limits are reached, in every order.
* **release**: a library repository of two units (one of whose release commit touches
  the other's files), one unit that is triggered by it, and the stack that pins it;
  one push of others into each and two runs that get past the plan, the second of
  which resumes the first.
* **workload**: two nodes, one of which may begin a block behind, two wallets, three
  or four transactions of each scenario, one fault (a request without an answer, a
  node that does not answer, or a restart), one receipt worker. A fault is what it
  takes for a transaction to be sent twice or to be lost; one more receipt worker would
  resolve two wallets' transactions at once, which share nothing. Two nodes are the
  least that `compare_state` compares and what a run samples by default; `dex_mixed`
  alone with three was checked by hand (1.04 million states, no error).
* **scripts**: the five nodes that the source has. The phases in `InLockstep` are
  checked with nodes that execute a block at once, since with a lag they fail, as the
  code does (see below); `chaos` and `validators` with nodes that are at most one block
  behind, since with two they fail as well; `shielded`, the longest, also with one: with
  two it was checked by hand (3.14 million states, no error). All others are checked
  with two; they were checked by hand with three as well. Two blocks are enough for a
  node to lack both of two writes that a script reads together.

## Fairness

Three specifications have any.

* `ShieldedRelayer!FairSpec`: each handler's awaits end, because the client library
  bounds every call to the node and the wait for a receipt by `timeout_seconds`;
  nothing is assumed of the chain or of clients.
* `DetachedRuntime!FairSpec`: a command takes its next step (it is a running process
  whose waits have deadlines), a wrapper gets to its lock, and a group that was told
  to end does so (`_stop_group` kills it after its deadline); nothing says that a
  service becomes ready or exits.
* `ScriptedNet!Spec`: as long as the nodes or the script have a step to take, one is
  taken. It is one weak fairness over all of them, so that it lets the nodes run for
  ever while the script waits only if they could; they cannot, since every block they
  execute brings them nearer to the chain, and the chain grows by the script's steps,
  and by empty blocks only up to what a step waits for. Every wait of the scripts has a deadline, which is `GiveUp`; `ScriptEnds`
  is stated so that a phase may not come to rely on it.

## The proofs

| Module | About | Shows |
|---|---|---|
| `RateLimiterProofs` | RateLimiter | types, `RateBounded`, `RetryHonoured` |
| `ShieldedRelayerProofs` | ShieldedRelayer, RelayLedger | types, history, index, answers, `SettledStaysSettled`, `ImplementsLedger` |
| `DexProofs` | DexPairs, DexRouter | types, `SharesAddUp`, `StaysSeeded`, `ShareValueKept`, `GrowthKept`; `Solvent`, `ReservesCovered`, `NothingLeftOver` |
| `DetachedRuntimeProofs` | DetachedRuntime | types, `NoOrphans`, `StoppedMeansStopped` |
| `LogCaptureProofs` | LogCapture | `LimitsKept`, `InOrder`, `NothingLost` |
| `WorkloadProofs` | Workload, Localnet | `ExecutedOnce`, no nonce executed twice, `VerdictTrue`, `StreamAdmitted`, `RebroadcastInOrder` |
| `ReleaseApplyProofs` | ReleaseApply | the four properties of the `release` run |
| `ScriptedNetProofs` | ScriptedNet, ScriptRules | types, `NoFalseAlarm`, `NoHollowPass`, `LeftAsFound` |

Every invariant and every action property of the passing runs is stated by a theorem, and
so is the refinement; what is left to TLC are the liveness properties. The theorems are
listed in `PROJECT.json`. They assume nothing beyond the named assumptions on the
constants, which TLC evaluates on every run.

**RateLimiterProofs.** `RateBounded` is not inductive: it counts requests and says
nothing of the level that pays for the next. `Charged` does: for every moment since,
what was admitted since then and what the bucket holds now are together at most the
burst and the refill of the period. `Awaited` says the same for a client that was
refused: at the time it was promised its bucket holds a request, whatever it asks
before. `Future` keeps the history empty ahead of the clock.

**ShieldedRelayerProofs.** The store is rewritten by compositions of `Expire`,
`Insert`, `Trim` and `SetIndex`. One lemma per operator says what it keeps of
`StoreInv`: types, ages in the order of the positions, and index entries that name
retained jobs of their request and body. The lemmas on `Post`, `Finish` and `Lookup`
compose them, and the step proof has one case per action. `HistoryBounded` rests on
`Trim` dropping the oldest job when there is one too many, which needs the
finiteness of `Task`. `HandlerShape` and `OwnJob` say how far a handler determines what
it holds; `AllBacked` that the transactions of a request's body back every status and
answer, and what a transaction has become is never undone.

The refinement follows from the same invariant. `StatusKept` holds of every step: of the jobs retained before and after, none that has settled is taken back,
because `Finish` writes settled statuses only and a new job is always that of a
request that has none. For the ledger, each action is matched with one of its actions
or a stutter (`LedgerPost`, `LedgerReply`, `LedgerChain`, `LedgerLose`,
`LedgerRepeat`); what the ledger asks of an answer is `AllBacked` under the mapping.

**DexProofs: the pairs.** The invariant is `Good`: the pairs are those that were created, each
of two different tokens (`Listed`); the account covers what its pairs believe to hold
(`Covered`, which is `Solvent`); and every pair is `Worthy`: its reserves are backed by
balances (`Backed`), its supply is the sum of its holders' shares (`Shared`), and with
`T` shares and a product `k` of reserves, `T * T <= k` (`Seeded`) and, while the fee is
on, `T * T <= kLast <= k` (`Charged`). The last two are what `StaysSeeded`, `ShareValueKept`
and `GrowthKept` rest on: by `Seeded` a burn cannot empty a reserve, since one share
is locked for ever and shares are worth a unit of each side at least in the mean;
`Charged` keeps the fee a part of the growth. `Better(old, feeOn, new)` is what one
call may do to a pair, and every exported function is shown to give `Good` states in
which every pair is `Better`. The arithmetic (rounding of shares, the square roots
of the fee, the product after a swap) is in lemmas about natural numbers. Two tokens of
different pairs share one account, so that `Solvent` is about a sum over all pairs: the
library's `SumFunctionOnSet` is a fold, and that it changes by what one term changes is an
induction over finite sets, done by a least counterexample of the cardinality.

**DexProofs: the router.** Between transactions of the router nothing is left over (`Neat`);
within one, tokens have arrived that no pair knows of, or one pair of the path has a
surplus, and nothing else is out of place (`Midway`). `Passing` follows a path of any
length: after `n` hops all pairs but the next are even. `Hops` and `Route` are functions of
the number of hops, defined where they are used; that such a function exists
(`IteratesExist`) and has its range (`IteratesTyped`) is shown first, since without it
TLAPS knows nothing of its values. `Tidy` adds the direct calls, which keep `Good` only.

**LogCaptureProofs.** `Sane` holds of the files whenever a process may be killed: sizes
within their limits, ages within the range of the time since they were opened, order,
and a total within `MaxTotal`. `Live` holds while the service runs and counts down with
the time to the next check, so that `LimitsKept` follows at every moment between two
checks. The loop of `maintain`, a recursive function of the number of archives looked
at, has the invariant `Counted` (the running total is that of the archives not yet
dropped), `Fits` (what is kept fits), `Taken` (what is kept is of the archives, in order)
and `Spared` (what is worth keeping is kept). `Total` is a sum over a sequence, written in
the same way.

**DetachedRuntimeProofs.** `NoOrphans` is not inductive: it says nothing of what the
command under way believes. `Known` does, step by step: a command about to spawn or to
unlink knows that no group lives, one that writes the pid file knows that only its child
may, one that signals holds the pid the file names. `InTurn` adds that one command at most
is under way and that, outside of a write, only the group the file names may live;
`OneWriter` (the lock) and `Flow` (which command may reach which step) hold with overlaps
and kills too. `NothingIsLost` and `StopIsFinal` follow, the latter because a killed
command stays counted and the last step of a command spawns nothing.

**WorkloadProofs.** That an operation is not executed twice, however often it was sent,
rests on its transaction being one and the same each time and on the nodes taking a
nonce once. `Genuine` is the first: whatever is in a pool or on the chain is the
transaction of an operation that has its nonce, and an operation that has a nonce keeps
it (`RecKept`). `Counted` is the second: the nonces of a sender on the chain are below
the number of its transactions there, and a block only takes the one that has the
nonce the chain has come to; hence `Apart`, that no two places of the chain hold one
nonce of one sender. `ExecutedOnce` follows from `Apart` and `Genuine`.

`VerdictTrue` speaks of the end of a run; `VInv` of the way there.
`Placed`: a record that is done is on the chain where its receipt says. `BatchesDone`: a
run past its batches has all its records done. `Sampled`, `Agreed`: a comparison has as
many nodes as `compare_state` asks for, and one that has succeeded has left behind a
set of nodes that have one state.

`StreamAdmitted` needs to know what each node has of each wallet. While no request has
failed and no node has restarted, `SInv` says of a wallet of a stream that it has not
come to its turn (`Untouched`), or that its lane is `Reserved`: the operations of the
lane have the nonces that follow on the chain's, in the order of their ids (`Dealt`);
those that were sent are the first of the lane; and the node that the wallet stays with
knows of exactly these, each as executed or as pooled (`Knows`). Its expected nonce is
then the one of the next operation. Two things keep `Knows`. A node that catches up
drops the pooled transactions which the block has made stale, and must lose none that
it has not executed: the nonces of a sender ascend on the chain without a gap
(`Ordered`), so that what is dropped is what is executed. And nothing of a wallet is in
any pool before it is sent (`Unsent`), so that the nodes at the top of the chain, which
are the ones `reserve_nonces` asks, all answer the same. That no other batch sends for
the wallets of a stream is read off the scripts (`StreamsApart`).

`RebroadcastInOrder` is a property of a step that sends again: whatever of the wallet has
a lower nonce is executed. `OInv` relates nonces to where they were given. Only a batch that
was reached has any (`Reached`), the next nonce of a wallet is above all it gave
(`Counting`), and outside of streams nonces ascend in the order of the plans
(`Ascending`). A lower nonce is then of an earlier batch, which is done, or of the batch
at hand and before in the order in which receipts are waited for, hence done as well;
what is done is on the chain (`Placed`). That the order of the plans is well defined, an
operation being once in a script of up to three batches, is `PositionIs`. No fault
matters here, unlike in `StreamAdmitted`: a wallet's nonces are counted locally once one
was given, whatever the node answered that was asked first.

**ReleaseApplyProofs.** The four properties relate a tag to the chain of commits and to
what was checked, over runs that end anywhere. `StoreInv` is what survives the end of
a run: types, heads that are on the main they were fetched from or one commit ahead,
`TagsReleasable` and `VersionsAscend`. `RunInv` is what the run under way has
established: its planned repositories are as they were fetched (`UpToDate`), their
versions are higher than every tag (`Newer`), what will be tagged was seen green
(`Green`), and the commit at hand is right for the step at hand (`AtPush`, `AtTag`,
`AtPushTag`). `VersionsAscend` is needed for itself and for planning: by it the latest
tag of a unit has its highest version, so that what is planned is new. `plan_releases`
is a loop over the units, written as a recursive function of the number of turns. That
it establishes `RunInv` is an induction over that number; it is shown by a least
counterexample, from the theorem that `<` is well-founded on the naturals.

**ScriptedNetProofs.** The theorems are about every script that keeps the rules of
`ScriptRules`, however long it is and however far its nodes may lag behind one another.
The argument is that of an annotated program. `Course` gives, for each step of each
phase, a record of what is known there:

* which nodes run, which are cut off, what is taken (`Placed`);
* by key, sets of nodes of each of which some node has executed the key's last write
  (`Known`): the node that gave the receipt, one that has answered with the value, those
  that have reached a height remembered after it;
* which keys were written no earlier than which (`Ordered`), so that a node that knows
  the one knows the other; which nodes lack nothing that is older than the lag (`Nearby`);
* which keys a node knows once it is at the height remembered (`Reached`), and how far
  from there the powers given last decide (`Risen`, `Settling`, `Empowered`);
* of a ballot that is decided, that nothing is younger than the approval and that
  some of those who will be asked know of it (`Polled`).

Two things then have to be shown, and they are kept apart. That the records are enough for
the steps does not mention the nodes: `Careful` asks of every step that the record before it
has what the step's check needs, and `Tidy` that the finally clauses name all that is taken
and that the last record has nothing taken, stopped or cut off. `RulesAssumption` says
so, of finitely many steps, and TLC evaluates it. That the records are true of the nodes
is the proof: `SInv` says that `Facts` holds of the record of the place where the run is
(`Now`, which may be in the middle of a step), that every variable is of its kind
(`Kinds`, from which `TypeOK` follows) and that no check has failed (`RunsWell`). It is
inductive. What nodes and indexer do by themselves keeps every fact (`EmptyBlockFacts`,
`CatchUpFacts`); a step that passes leads from one record to the next, as `After` computes
it (`OneMoreBlock`, `PerhapsBlock`, `LearnsFacts`, `ArrivesFacts`, `RememberFacts`, and the lemmas named
`...Inv`); and a step that would raise the alarm is one whose rule is broken.

`NoFalseAlarm` by itself is far from inductive: it says nothing of heights, and a step
fails because of what another step, long before, has left unknown. `Course` is a constant
only so that TLC computes it once: `CourseAssumption` has one solution, `Outset` followed by
what `After` gives for each step. Neither it nor the rules weaken with the lag. `MCLag`
gives the lag of the run; evaluated with a lag of seven, all scripts keep the rules
but those of `InLockstep`, which keep them with none, and of `OneBehind`, which keep them with
one. These are the scripts whose failures are listed
[below](#what-the-code-falls-short-of). So for the others the theorems hold far beyond the
lag that can be explored state by state, `shielded` included.

The rules are sufficient and not necessary: a script that breaks one may still be right.
None of the 41 is such a script. The facts were checked in every state of the `scripts`
run before they were proved.

**Model-checked only.** Liveness and `ENABLED`, which TLAPS does not handle:
`PostsAnswered`, `PendingEnds`, `CommandsEnd`, `ScriptEnds`. That the scripts keep their
rules is evaluated by TLC and not proved: it is a computation on given data. No module
here declares a RECURSIVE operator.

Proofs that failed told what was wrong with the models, which no run had shown.
`NothingLost` was false with four archives: the size that stood for "no active file"
was one less than nothing and let one unit too much count as worth keeping; the run
has three archives, where no state tells the difference. The conditions of
`Balanced` (`DexRouter`) and of a mempool's answer (`CheckTx` in `Localnet`) overlapped in a
`CASE`, of which TLC takes the first and a proof may not. `SUBSET Node \ {{}}` in
`Workload` was two sets to the two tools, one of which has the empty set; it is
parenthesised now.

## What the code falls short of

Three runs are expected to find a violation:

* `relayer_duplicate_send` (`OneSendPerJob`): a POST that repeats the
  `client_request_id` of one that is still suspended gets the same job and sends a
  second transaction.
* `release_checks` (`UsedRefsChecked`): the stack pins refs of components that are not
  released in this run, and their checks are not asked for.
* `scripts_policy` (`NoFalseAlarm`): the policy phase waits until any reader has its
  vote approved and reads the policy at node 0 at once (`localnet-e2e.py:6761`), which
  may not have executed that block; a comment of the same function (6467-6468) says
  of another vote that this has to be awaited.

Seen in the models while they were written, without a run of their own:

* More phases fail on a right network when a node is a block or two behind, all for a
  value or a nonce read at another node than the one that was waited for: `service`,
  `governed`, `conflict`, `soak`, `secondary`, `call_drill`, `members` (the manual
  drill, `localnet-protocol-safety.py:1945`) and `delegation`. They are checked with
  nodes that execute a block at once (`InLockstep` in `MCScriptedNet`), which keeps all
  else that is asked of them.
* Two phases fail only when a node is two blocks behind (`OneBehind`). `chaos` has more
  transactions than wallets: it uses a wallet through one node and, one transaction
  later, through another, which need not know the wallet's last nonce
  (`localnet-e2e.py:10462-10490`). `validators` removes a member, waits until node 0 is
  two blocks further than it was and counts the validators there once; a node that was
  two blocks behind when it was asked for its height has then only just executed the
  decision, which takes effect later.
* A stream that is resolved by one worker may be rebroadcast out of its order, since
  the records are shuffled before (`localnet-workload.py:501`; the comment at 523-525
  gives the order for lanes). `RebroadcastInOrder` is stated of the others.
* A comparison of `dex_mixed` or `parallel_probe` may succeed on two nodes that are
  equally behind; `VerdictTrue` asks a complete state only of the scenarios that know
  the sums.
* Two detached commands that overlap: a status that has read a dead pid removes the
  pid file a start has just written, and a later stop finds none and reports success
  while the service runs on. `NoOrphans` and `StoppedMeansStopped` are stated for
  commands that do not overlap (`overlap`).
* `docs/RUNTIME_LIMITS.md` counts the check interval once in the greatest age of a
  log; the code may take it twice (`AgeBounded`, a part of `LimitsKept`, states what
  holds).
* A tag whose push failed after it was made locally is never pushed by a later run
  (`release_orchestrator.py:1352`).

## What is not modelled

`PROJECT.json` names every part with its reason. In short:

* Functions without state: authentication, policy and validation of relayer requests,
  backend request parsing, manifest validation and reproducibility.
* Configuration and files: images, compose files, monitoring, CI, shell wrappers,
  logging settings, the generation of a network's keys and files.
* `backend.py`: start, stop, status and health are sequences of make targets and of the
  commands of the two detached services, each of which ends at its first failure. They
  keep nothing between two calls; what they leave half started is what docker and
  the launchers keep, of which the latter are modelled.
* Of the workloads: the transaction that flushes the mempool, app hashes, funding,
  reports. `contract_suite_cases.py` is a table of calls and values.
* Of the end-to-end suite: the phases `burst`, `dex`, `throughput`, `simulator` and
  `bootstrap` (measurements and fixed sequences through one node), resuming a suite
  from its report, and the checks of the indexer's schema and queries. Of the drills:
  bootstrap, the encoding of evidence, reports.
* Of the orchestrator: `--force-all` and the prerelease channels.
* The nodes, their consensus and their contracts, which are other repositories' and are
  modelled as far as the scripts rely on them.

Hazards that were seen and that no property is about, because nothing of what is
modelled would notice: a bucket of the rate limiter is never removed
(`shielded_relayer_service.py:421`); the fingerprint of a body leaves out the endpoint
(:749); `addLiquidity` orders names and not amounts (`con_dex.py:74`); a pid file may
name another process after a reboot (`shielded_relayer_backend.py:75`); a process that
has left the group of its wrapper is not ended with it (`log_capture.py:117`); the one
flush transaction of a drain may fail (`localnet-workload.py:1313`).

## The plan

1. *(done)* ShieldedRelayer with RelayLedger; RateLimiter; DexPairs and DexRouter;
   DetachedRuntime; LogCapture; ReleaseApply.
2. *(done)* Localnet and Workload; Steps, ScriptedNet and the phases, checks and drills
   as its scripts.
3. *(done)* Proofs of the safety properties of RateLimiter, ShieldedRelayer,
   DetachedRuntime, DexPairs, DexRouter, LogCapture, Workload and ReleaseApply, and
   that ShieldedRelayer implements RelayLedger.
4. *(done)* Proofs of the invariants of ScriptedNet for every script that keeps the rules
   of ScriptRules.
5. The prerelease channels of the orchestrator; `backend_start` and `backend_stop` over
   the services of DetachedRuntime and the containers; resuming end-to-end phases.

The runs stay few enough to be run on every change: a new module's run replaces a
weaker one rather than adding to them.

## Running it

    tlc -config MCShieldedRelayer.cfg MCShieldedRelayer      # any MC*.cfg with its module
    tlapm ShieldedRelayerProofs.tla

Every run ends within five minutes with two workers.
