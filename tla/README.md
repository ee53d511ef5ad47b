# A verification project for bolt-registry

bolt-registry keeps track of the operators and validators that offer proposer
commitments.  It has two halves: **contracts** (Solidity), where operators
register through the restaking protocols they use, and a **registry server**
(Rust), which keeps the validators' registrations, follows the beacon chain and
answers queries.  The two meet only in the data: the function that would read
the contracts' events (`sync_contract_events`) is empty at this commit.

This directory holds TLA+ models of both halves, the TLC runs that check them,
and theorems about both halves proved with TLAPS.  `PROJECT.json` lists the components, runs, mutants (plausible bugs that each property finds), findings,
hazards, theorems, and the lines each definition models.

## 1. Inventory

### Contracts (`contracts/src/contracts`)

| component | state | operations | hard parts |
|---|---|---|---|
| `OperatorsRegistryV1` | `_operatorAddresses` (pauseable set), `operators` mapping, two middleware slots, `START_TIMESTAMP`, `EPOCH_DURATION` | register, pause, unpause, update RPC, deregister (middlewares only), `cleanup` (anyone), `updateRestakingMiddleware` (owner), views | time rounded to epochs and offsets of one second; a loop that removes from the array it iterates; array, status map and mapping changed by separate statements |
| `PauseableEnumerableSet` (library, submodule) | `order` array, `enabled`/`disabled` time of each element | register, pause, unpause, unregister (swap with the last), `wasActiveAt`, `checkUnregister` | boundaries of the comparisons |
| `SymbioticMiddlewareV1` | `_vaultWhitelist` | operators' entry points; whitelist, pause, unpause, remove vaults; stake views | two views with different comparisons; order-dependent stake; history of stake |
| `EigenLayerMiddlewareV3` | `_strategyWhitelist`, `ALLOCATION_MANAGER` | AVS-directory entry points, AllocationManager callbacks, replacement of the AllocationManager, strategies, stake views | a callback whose revert EigenLayer ignores; an entry of the registry shared with Symbiotic |
| V1 and V2 of the EigenLayer middleware | as V3 | as V3; they differ in the contract's name, the reinitializer and the parameter of `getRestakeableStrategies` | superseded by V3 |
| deployment scripts | | | one-off |

A transaction calls middleware, then registry, and is atomic: everything or nothing.

### Server (`registry/src`)

| component | state | operations | hard parts |
|---|---|---|---|
| API (`api/`) | handlers in flight, channel of 256 actions | one handler per route: send an action (2 s), wait for the answer; timeout layer (30 s) | timeouts race with execution; a full channel |
| Registry actor (`registry.rs`) | the action it executes | one action at a time: beacon checks, wait for sync, database call, answer | check of the sync state before an await; head-of-line blocking |
| Syncer (`sync/mod.rs`) | `last_epoch`, watch channel `Syncing`/`Synced`, open transaction | on each epoch transition: begin, for each epoch query duties, source and summaries, insert, commit | partial failure, order of commit and bookkeeping, end of the task |
| Epoch transition stream (`sync/chain.rs`) | `epoch`, `proposal_slot` | de-duplicate events, detect transitions | duplicate, late and missing events |
| Database (`db/`) | registrations, operators, index map, sync state | reads and writes; a sync transaction | atomicity differs: write-through (memory), Postgres transaction (SQL) |
| Process (`main.rs`) | how far the start came | API, then database, then syncer and actor | requests are accepted before there is an actor |
| Beacon client, keys API, chainio, CLI | none that matters | queries, retried or not | unbounded retries; duties that change until their epoch begins |

Actor and syncer are two tasks that share the database and the watch channel.
Handlers and actor share the action channel.

What makes each component correct is stated by the properties of section 3;
`hazards` in `PROJECT.json` gives the lines where each can go wrong.

## 2. Modules

```
PauseableSet ── OperatorsRegistry ─┬─ SymbioticMiddleware ──┐
                        │          └─ EigenLayerMiddleware ─┴─ Restaking ── MCRestaking
                        ├─ MCOperatorsRegistry
                        └· OperatorLifecycle   (refined by OperatorsRegistry, by Restaking)

RegistryDb ── Syncer ─┬─ RegistryService ── MCRegistryService
                      │        └· AtomicRegistry   (refined on the SQL backend)
                      └─ MCSyncer

PauseableSetProofs ── OperatorsRegistryProofs ─┬─ OperatorLifecycleProofs ── RestakingProofs
                                               └─ CleanupProofs
SyncerProofs ── RegistryServiceProofs ── AcknowledgedProofs
```

A line is EXTENDS, a dotted one `INSTANCE ... WITH`.

- **PauseableSet** (external).  The library's sources are not in the repository;
  its operations are modelled as operators on `[order, status]` from how the
  contracts use it: `wasActiveAt` is strict at the enable time and inclusive
  at the disable time, `unpause` and `unregister` need the immutable period to
  have passed, `unregister` swaps the last element in.  A `Can...` operator is
  what the library requires, else it reverts.
- **OperatorsRegistry**.  One action per external function, `sender` being
  `msg.sender`.  A reverting transaction changes nothing, so a revert is a
  disabled action.  `cleanup()` is `CleanupBegin`, one `CleanupIteration` per loop
  index and `CleanupEnd`; while `sweep.running` nothing else moves, since a
  transaction is atomic.  `Tick` is the next block's time.  RPC endpoints are
  model values; `signer` and `extraData` of the struct are left out.  `pausedAt`
  and `sweep.expired` are history variables: no guard reads them.
- **OperatorLifecycle** (abstract).  What readers of the registry are promised:
  an operator is absent, joining, active or paused, and time is a number of epochs.
  It joins, counts from the next epoch on, stops counting in the very epoch of
  its pause, and leaves or returns in a later one only.  `Lifecycle` in
  `OperatorsRegistry` is the refinement mapping, written with the contract's
  own views (`isOperator`, `isActiveOperator`).  `OneWaySpec` is the same without `Return`.
- **SymbioticMiddleware**, **EigenLayerMiddleware** extend the registry with
  their whitelists, their entry points (which call the registry's actions with
  the middleware as sender) and their stake views.  Vaults, strategies and what
  an operator has in each at each time (`VaultStake`, `StrategyStake`) are constants.
  A delegator is asked two questions, as in the code: `stakeAt` for a past time, by
  `getOperatorStakeAt` (SymbioticMiddlewareV1.sol:213), and `stake` for the present, by
  `getOperatorCollaterals` (239).  EigenLayer's own record of who is registered is kept
  as far as its calls depend on it.  A callback comes from one of several
  AllocationManagers; only the one the owner set last is let in, and a manager
  ignores that its deregistration callback reverts.
- **Restaking** composes all three contracts as deployed.  No middleware calls
  `unpauseOperator` or `deregisterOperator`, so those actions never happen there:
  the deployment refines `OneWaySpec`.
- **RegistryDb**.  Both backends as operators on a stored state `DbState` and
  an open transaction `TxState`.  A registration keeps its operator and
  its writer, API or syncer.  A validator stands for its key and its index.
  `Outcome(ok, mustFail)` says how a statement or commit may end: on the memory backend
  well, on SQL not well if it cannot, and either way if `FaultsAllowed`.  `TakesEffect`
  says whether it did anything: one that fails for a reason of PostgreSQL's does not,
  one whose connection breaks may have, its answer being what was lost.  (An effect
  that comes later than the error is not modelled.)  A commit
  upserts its row of `sync_state` by block number: `SavedStates` lets it add a row or
  replace one, and a restart reads any row.
- **AtomicRegistry** (abstract).  What the database promises: each sync appears
  at once, with the operator of every validator it brings, overwriting
  nobody, and so does each call of the API.
- **Syncer**.  One action per stretch of the task between two awaits; `pc` says
  at which await it is.  Calls that are retried for ever are actions that wait
  for an answer.  The duties of an epoch that has not begun
  may be answered as one of its `Drafts` instead of what they turn out to be.
  Where a transition lies before `last_epoch`, `OnTransition` has both outcomes of the
  subtraction at sync/mod.rs:138: it wraps, or, in a build with overflow checks, it
  ends the task.  Block numbers, and with them the same subtraction of blocks at 139, are not
  modelled.
  `visited` and `covered` are history.  `CrashRestart` keeps
  what the SQL backend committed and nothing of the memory backend.
- **RegistryService**.  Handlers (`client`), channel (`queue`), actor
  (`at`, `current`) and the syncer.  `Boot` is what `main` does after it has
  started the API: until then requests are accepted, and if it fails the process ends
  with them on the channel.  `DbWrite` and `DbRead` run after the
  `WaitForSync` that let them in, with any steps of the syncer in between.
  `applied`, `served`, `acked` are history.

### The SQL backend and its schema

The model follows the statements of `db/sql.rs`, any of which may fail, over
tables for which they can succeed at all.  `db/sql/pg_ddl.sql` is not such a
schema at this commit: line 47 ends the last column of `sync_state` with a comma,
a syntax error that fails `SQLDb::new`; `gas_limit` (37) is `NOT NULL` and no
INSERT gives it; `signature` (35) is `NOT NULL` and the syncer has none; `operator`
(38) references a row of `operators` that is inserted after it; `expiry` (36)
is a number bound as text.  As it stands the server does not start on
PostgreSQL, which needs no model.  Failures that the code itself forces are
kept: a second INSERT of a primary key, which aborts the transaction it is in
(`AbortedTx`: PostgreSQL refuses whatever follows, and its COMMIT rolls back),
an INSERT of a key that an open transaction has inserted, which waits for it
(`WaitsForSync`), a row without an operator's RPC
endpoint, and `list_registrations`, whose query lacks the `rpc` column that its
row type requires.

## 3. Runs

The largest run, `registry_memory`, has 2.5 million states and takes about three
minutes on two workers; the others take less than that.

| run | expects | question |
|---|---|---|
| `operators_registry` | pass | is the registry consistent, do pauses hold, under any calls in any order, and does it implement `OperatorLifecycle`? |
| `cleanup_skips` | violation | does `cleanup()` remove every expired operator? |
| `restaking` | pass | do both middlewares, their whitelists and stake views agree with the registry, and is the deployment one-way? |
| `syncer_memory` | pass | is every epoch synced, is the state `Synced` exactly when it should be, does syncing end? |
| `lost_epochs` | violation | are all epochs synced on SQL, when the database itself never fails? |
| `index_missing` | violation | does a query by index find what was synced? |
| `registry_memory` | pass | what do clients see, with concurrent requests, timeouts and a running sync? |
| `registry_live` | pass | is every accepted action executed and answered? |
| `registry_sql` | pass | what survives failing starts, statements and commits, and crashes; is the database an `AtomicRegistry`? |
| `toctou` | violation | are database calls blocked during a sync? |
| `dead_syncer` | violation | does the process fail with its syncer? |
| `too_early` | violation | is a lookahead of a far epoch answered? |

### What they show

*Contracts.*  An operator has a mapping entry exactly while it is enumerated,
once, and leaves no timestamps (`RegistryConsistent`), in the middle of a
cleanup too.  A pause is dated to the last second of the previous epoch
(`PauseRecordsPreviousEpoch`), takes effect at once (`PausedIsInactive`), and
nobody leaves or is reactivated before the next epoch (`LeavesOnlyAfterPause`), which
is less than the comments promise (see below).
Time alone deactivates nobody (`TimeNeverDeactivates`).  `cleanup()` may skip an
operator per removal, against its comment (`cleanup_skips`), and still removes
at least half of what had expired (`CleanupHalvesExpired`).  All in all the
registry is the simple machine of `OperatorLifecycle`, in the middle of a
cleanup too (`ImplementsLifecycle`).  Behind the
middlewares: a paused operator comes back only by leaving and joining again
(`PausedComesBackOnlyByLeaving`), and leaves by `cleanup()` alone, although a
comment of the callback sends it to `deregisterOperator`; whoever leaves EigenLayer is inactive, even when the callback's
revert is ignored (`LeavingEigenLayerDeactivates`), unless the owner has replaced the
AllocationManager it leaves: the callbacks of the old one are refused, and its
operators stay active until they leave another way; paused vaults and
strategies count in no view (`PausedEntriesAreInactive`); removing one changes
no collaterals (`RemovalKeepsCollaterals`); pausing does not rewrite past stake
(`PastStakeIsFixed`).  The stake one view reports for a token is not always within the collaterals the
other adds up: the first is what one vault held when the epoch began, the second
what all hold at present, so that a withdrawal or a slash within the epoch makes the
stake the larger.  Nothing else does (`ExcessStakeWasLost`).  Which vault counts is a
matter of the whitelist's order, which a removal changes; the stake changes by
that only where several enabled vaults hold the token (`RemovalKeepsStake`).

*Where the contracts' comments promise something else.*  Two properties of the registry
say what the code does although comments beside it say otherwise; no run refutes the
comments, and the properties are not evidence for them.

- *The wait after a pause.*  OperatorsRegistryV1.sol:136 and 160 say that operators "need
  to be paused and wait for EPOCH_DURATION() before they can be deregistered", 230 that
  `cleanup()` removes those for whom "paused + EPOCH_DURATION has passed"
  (IOperatorsRegistryV1.sol:102: "paused + IMMUTABLE_PERIOD"), EigenLayerMiddlewareV3.sol:417 the same of
  strategies, and the tests that "Clean up is only possible EPOCH_DURATION after
  deregistation" (test/mainnet/SymbioticMiddleware.t.sol:233, 200-205).  The code
  dates the pause one second before the epoch it happens in, and compares with the start of the
  present epoch, so the wait ends when the next epoch begins.  It
  is EPOCH_DURATION after a pause in the first second of an epoch, which is where the tests pause,
  since they skip whole epochs from the registry's start, and one second after a pause in the last.
  `LeavesOnlyAfterPause`, `Released` of OperatorLifecycle, and with it `ImplementsLifecycle` and
  `PausedComesBackOnlyByLeaving`, say "a later epoch", which the code keeps; a property that asked for
  EPOCH_DURATION would be violated.
- *Activation.*  OperatorsRegistryV1.sol:93 says "Register, and become active immediately", and 97 "Unpause,
  and become active again".  The enable time is the start of the present epoch, at
  which `wasActiveAt` does not count it yet, so an operator is inactive until the next epoch begins; the
  tests wait for it ("Activation requires a second to have passed",
  test/mainnet/SymbioticMiddleware.t.sol:169, where the time skipped is an epoch).  The phase `joining` of
  OperatorLifecycle stands for that wait.  That `wasActiveAt` is strict is a
  fact of the library, whose sources are not here, and is taken from these tests.

*Syncer.*  On the memory backend no saved epoch is unsynced
(`NoEpochSkipped`), readers are let in exactly when no sync is halfway and every
synced validator has its operator (`SyncedMeansSettled`, `IdleMeansSynced`), the sync
state ascends, and every sync ends (`SyncingEnds`).  What is declared synced is all
there, whatever drafts of the duties came first, since each epoch is asked for again
when it has begun (`SyncedWasRegistered`).  On SQL, `NoEpochSkipped`
fails: `last_epoch` moves before the commit (`lost_epochs`).  It takes no
fault of the database: each epoch's duties are queried twice, as the next and as the
current epoch, so a sync over several epochs inserts the same keys twice, which aborts
its transaction.

*Service.*  A call refused for a full channel or a failed check is never
executed (`RefusedIsNotApplied`); reads agree with every acknowledged write that
no other write contends with (`ReadsSeeAcknowledgedWrites`); every accepted
action is served, its client gone or not (`AcceptedIsServed`).  No action that a
handler waits for gets lost, through timeouts, failing starts, crashes and restarts
(`WaitingIsOnItsWay`, in `registry_sql`).  On the memory backend the actor never waits for a
syncer that has ended (`NoWaitIsAbandoned`): the panic of `wait_for_sync` is out of
reach.  On SQL it is not: a sync whose begin or commit fails leaves the state at
`Syncing`, and if the event stream closes next, the actor's wait panics.  On SQL the database is an
`AtomicRegistry` through failures, crashes and restarts (`ImplementsAtomicRegistry`):
no part of a sync that did not commit is ever visible, and no part of one that
did is missing; what a commit declares synced is all there
(`SyncedWasRegistered`).

The six violations are the six `findings`, each a comment that the code
does not keep.

### Bounds, and why they are enough

- *Registry*: three signers and the zero address, two middlewares, epochs of two
  seconds, `MaxTime` 6 from `START_TIMESTAMP` 2: two epochs and the first
  second of a third.  A skipped element needs two expired operators;
  a third makes "half" differ from "one".  Two seconds make rounding visible,
  and pausing, waiting, leaving and registering again fit.
- *Restaking*: one operator, two epochs, three vaults of one token (a removal reorders
  the others only when there are three), one strategy, two AllocationManagers.
  In one vault the operator's stake grows, in another it drops within an epoch and
  grows in the next.  `MCOneAtATime` explores the replacement of the manager only while no vault is
  whitelisted, and the third vault only while no operator is registered, no strategy whitelisted
  and no middleware set: no vault action reads them, nor the reverse.
- *Syncer*: epochs 0 to 6 of two slots (0 to 3 in the two violations), a
  validator that proposes in several, one without an operator, an epoch whose draft leaves a
  proposer out: transitions of one and of several epochs, duplicate and
  late events, several syncs in a row.
- *Service*: two or three requests, one place on the channel (so that it is
  full), two or three epochs of one slot.  `registry_memory` has nine shapes of
  request: batches that are complete, with a missing signature, with
  an inactive validator, with a key twice, a deregistration and four reads; the
  others have fewer and larger remaining parts.  Empty key lists are left out
  (what a beacon node answers to one is its own affair).  Drafts are left to the syncer's
  run, faults and crashes to `registry_sql`.
- `MaxTime` and `MaxEpoch` bound the clock and the chain; nothing else is
  bounded.  Signers, middlewares and, in the safety runs, requests are symmetric.

`CHECK_DEADLOCK FALSE` everywhere: the clock and the chain end at their bound,
and clients may have nothing more to ask.

### Fairness

Liveness is checked under weak fairness of four things, and no more:
`SyncerStep` once `main` has spawned the task (`SyncerRuns`: tokio runs it whenever
what it awaits has answered; the beacon and keys clients retry until they do), the
`Actor`, the `Boot` of the process, and each
`Handler` (its send completes or times out).  Nothing makes the
beacon node send events, clients send requests, or handlers time out.  The
actor's wait for `Synced` needs only weak fairness because the chain is
bounded: after its last epoch the syncer leaves `Synced` no more.  On an unbounded
chain a sync could begin before every check; the watch channel wakes the actor at
each change, and a sync takes a small part of the minutes between transitions.

## 4. Proofs

Every property of a passing run is also a theorem, for every value of the
constants, with the exceptions named at the end.  The assumptions are the
named ASSUMEs of the modules (a positive epoch, a start time above 1, sentinels
that are not addresses, a channel with room for one action) and:

- `EPOCH_DURATION > 1` for `LeavesOnlyAfterItsPause` and for both refinements of
  `OperatorLifecycle` (`RegistryImplementsLifecycle`, `DeploymentIsOneWay`), and
  for nothing else: with epochs of one second an operator could be paused and removed in the
  same epoch, because the pause is dated one second back and the period is
  compared with the present.  The deployments use one day;
- `Backend = "memory"` for `MemorySkipsNoEpoch`, `MemoryIdlesSynced`,
  `MemorySyncStateAscends` and what the service makes of them (`ServiceKeepsEpochs`,
  `MemoryAbandonsNoWait`).  On SQL `lost_epochs` refutes the first; a begin
  or commit that fails leaves an idle syncer at `Syncing`; and a process that
  restarts with a saved epoch ahead of its beacon node's events moves `last_epoch` back;
- `Backend = "sql"` for `DatabaseIsAtomic`, as the memory backend's transaction writes
  through, and for `DeclaredSyncIsCompleteDespiteApi`: on the memory backend a
  client may deregister a validator between a sync's write of it and its commit.

The arguments, by module:

- `PauseableSetProofs`: what each library operation preserves and changes, over
  any set of addresses.
- `OperatorsRegistryProofs`: `IInv` is `TypeOK /\ RegistryConsistent /\
  PauseRecordsPreviousEpoch`.  They need each other: that a swap with the
  last element removes an element, and one only, needs the array to be free of
  duplicates (`SwapPopFacts`), and the dates of pauses need the status map to
  be cleared on removal.  Each action has one lemma.
- `CleanupProofs`: `SweepInv` says of the running loop that each expired operator is
  gone, ahead of the index or behind it, and that those behind it (`Skipped`) are at
  most as many as those gone (`Removed`).  A removal moves at most one under the
  index, and adds one to the gone.
- `OperatorLifecycleProofs`: `IInv` with `EnabledInPast`, that nobody is enabled
  later than the present epoch; then each action is one step of the abstract
  machine, and `Tick` is a stutter or the turn of one epoch.  `EnabledStep`, which
  keeps `EnabledInPast`, holds for epochs of any length.
- `RestakingProofs`: a step of the deployment is a step of the registry or
  leaves it alone (`DeploymentImplementsRegistry`), which carries over all that is
  proved of the registry.  `RInv` adds that both whitelists are sound sets
  whose times are not in the future.  `StakeExceedsOnlyByLoss` compares the
  stake in one vault, at the start of the epoch, with a sum over vaults, at present.  `SumIsFold` unfolds that sum to the
  recursive function of the community modules' fold, `SumsExist` shows that such a function
  exists on the subsets of a finite set, and `SumBoundsTerms` that it is no less than any
  of its terms.  The library's induction theorems are unusable here (their parameter is
  an operator), so both go by the least cardinality of a counterexample (`LeastExists`).
  `RemovalKeepsSoleStake` needs no sum: where one enabled vault at most holds the token, it is the
  first wherever it stands (`SoleHolderDecides`), and the removed one is not enabled at
  times after its pause, so that the swap loses none that is (`RemovalKeepsEnabled`).
- `SyncerProofs`: `SyncerInv` says what the task holds at each await, that every
  validator it registered has its operator registered or about to be, and what an
  open or aborted transaction contains.  `EpochInv` (memory) ties `last_epoch` to
  the epochs looped over; `LookedOver` ties the final proposers of those epochs
  to what is stored, open or in hand.  `EverySyncStepAdvances` is a ranking:
  each step of a sync reaches a later epoch within the transition, or a later phase, or
  leaves fewer operators to register.  With fairness, that is why
  `SyncingEnds`.
- `RegistryServiceProofs`: `ServiceInv` is `SyncerInv`, which the API's writes
  preserve, with `OnceInv`: a request is in one place (handler, channel, actor) and
  executed at most once.  The refinement of `AtomicRegistry` follows action by action.
  The API's writes change none of the syncer's own variables, so that `EpochInv`
  survives them on memory; on SQL they touch nothing of an open transaction
  and remove no operator, so that `LookedOver` does.  `EndsSynced` says that on memory the task
  ends only where it had let readers in.
- `AcknowledgedProofs`: `AckInv` says that nothing is held known of a validator that
  a write is under way to (`NoneUnderWay`), that what is known is so in the
  database (`KnownIsTrue`), and that an open sync registers only what the
  source has an operator for (`TxHasSource`).

Only model-checked: the liveness properties `SyncingEnds` and
`AcceptedIsServed`, since TLAPS does not reason about fairness and ENABLED.  Their safety
halves are proved: `EverySyncStepAdvances`, and `NoActionIsLost`.

## 5. Not modelled

- Upgrades, reinitializers and ownership of the contracts; deployment scripts;
  interfaces and tests.
- Operator sets of V3.  They live in the AllocationManager, and the middleware
  checks their strategies against its whitelist only when sets are created or
  extended; a strategy removed later stays in them.  No view of the middleware reads
  them.
- The other `update*Address` setters and metadata of V3, which set an address whose answers
  are constants here, or forward.  (A new `OPERATORS_REGISTRY` would begin another behaviour of
  the registry.)
- Signatures, digests and their verification (the server never verifies them);
  JSON, routes, OpenAPI; option parsing; HTTP of the keys API and of the beacon
  client; `chainio`; beacon queries without a caller (RANDAO, withdrawals,
  block roots, new heads).
- The locks of the memory database.  Its operations take the locks they need one
  after the other, always registrations before operators before the index, and
  hold them to their end; each write of a sync takes one.  So a listing that
  meets a sync answers as it would at the moment it took its last lock, and each
  operation is one step here.
- Malformed keys: sync/mod.rs:226 expects a public key of the beacon node to parse and
  ends the task, in the middle of a sync, if one does not.  The node's keys are taken to be well-formed;
  `NoWaitIsAbandoned` rests on it.
- What the keys API answers beyond an operator for each validator asked for:
  it is taken to name no validator twice and none that was not asked for.
- `uint48` overflow of timestamps: `block.timestamp` is far below 2^48.
- Gas, and reentrancy through the middlewares' calls to restaking protocols.

## 6. Plan

Done: the components of both halves, their abstract specifications, and the theorems above.

Left:
1. An abstract specification of what the memory backend promises of a sync that
   API writes meet halfway: each write is applied at once, but a sync is not.
2. The order of the channel: actions are executed in the order in which they
   were accepted, as a theorem.
3. The operator sets of V3, if a view of the middleware ever reads them.
