# A TLA+ model of the KarmaSakshi effect engine

KarmaSakshi (the Chitragupta protocol) executes the consequential actions of software agents.
An action is written down as an *effect manifest*, sealed, authorized by a signed *grant*,
committed through an *adapter* to an outside provider, verified, and recorded in a hash-chained
journal. The claim that matters is that an effect happens at most once, only while it is
authorized, and that the records tell the truth about it, while threads and processes race,
stores fail, answers get lost and processes die.

This directory holds the TLA+ modules that model the code under `src/karmasakshi/`, the TLC
configurations that check them on small instances, and the TLAPS proofs that hold for every
instance. `PROJECT.json` lists the components, the runs, the mutants, the lines each definition
models, the hazards and the theorems.

## 1. Inventory

| Component | State it keeps | Operations | What makes it correct | Module |
|---|---|---|---|---|
| Engine (`engine/core.py`) | lifecycle records and saga runs in memory | prepare, seal, authorize and its variants, delegate, commit, verify, revoke, recover, compensation and saga wrappers | an effect is claimed once, invoked once, never after a revocation | `CommitEngine`, `Authority`, `ControlPlane` |
| Lifecycle (`state_machine/`) | one state per manifest | transition along a table | durable moves follow the table | `Lifecycle` |
| Stores (`stores/`) | grant slots, idempotency ledger, lineage, lifecycle states | reserve, commit, release, revoke, compare-and-set | a reservation is exclusive; uses stay in the limit | `CommitEngine`, `Authority` |
| Outbox (`outbox/`) | one entry per idempotency key | record, confirm, abandon | the intent precedes the effect | `CommitEngine` |
| Budget (`budget/`) | reserved and consumed amounts | reserve, commit, release | never overdrawn, charged once per effect, no leak | `CommitEngine` |
| Grants, delegation (`grants/`, `delegation/`) | signed grants, lineage rows | issue, attenuate, walk ancestors | a child has no more than its parent; a revoked ancestor stops it | `Grants`, `Authority` |
| Quorum, duties, witnesses, evidence (`approval/`, `duty/`, `witness/`, `evidence/`) | signed statements | evaluate | distinct, unexpired, independent people | `Consent`, `Authority` |
| Envelopes, plans (`envelope/`) | signed bounds | fit, narrow, substitute | a narrower envelope lets nothing more through | `Envelopes`, `Authority` |
| Policy, keys, tenants, registry (`policy/`, `crypto/`, `tenant/`, `adapters/registry.py`) | keyring, bundles, trusted adapters | verify, register, revoke | what lost its trust is not acted on | `Trust`, `Authority` |
| Effect intelligence (`intelligence/`) | none | assess | worse facts never soften the answer | `Intelligence`, `Authority` |
| Row adapter (`adapters/sqlite_db.py`) | a table with versions | prepare, validate, commit, verify, compensate | an effect is applied to the row it was prepared on | `LedgerRow` |
| Compensation (`compensation/`) | states of the original and of the compensation | prepare, authorize, commit, report | undone by what is bound to it, never claimed without it | `ControlPlane` |
| Passports (`passports/`) | none | derive an outcome | it agrees with what happened | `ControlPlane` |
| HTTP API, console (`api/`, `web/console.py`) | dictionaries in memory, the kill switch | one handler per route | grants stay bound; the switch stops what comes after it | `ControlPlane`, `Service` |
| Gateway front door, SDK (`gateway/api.py`, `store.py`, `sessions.py`, `sdk/`) | organizations, users, sessions, inventory, tokens | bootstrap, login, requests | only members act for an organization | `GatewayAccess`, `Service` |
| Refund gateway (`gateway/refunds.py`, `refund_state.py`) | refund dictionaries in memory and in rows | propose, approve, deny, execute, verify, recover, compensate | paid once, behind a quorum; decisions survive a restart | `RefundGateway` |
| Command line (`cli/`) | files and databases of a workspace | one process per command | states are restored and never made up; applied once | `CommandLine` |
| Saga (`saga/`) | a run: step statuses and cursors | authorize, commit, verify, recover a step; record a compensation | plan order, reverse compensation, no effect forgotten | `Saga` |
| Causal graph (`causal/`) | a signed DAG | validate, order, ancestors | accepts exactly DAGs; one plan per graph | `CausalOrder` |
| Journal, evidence packs (`audit/`, `portable/`) | the chain of events | record, verify chain, build and verify a pack | chain intact under racing writers, append-only | `AuditJournal` |

How they interact: a call of the engine runs in the caller's thread. It asks the grant store, the
lifecycle store, the budget ledger and the outbox, each atomic by itself (a lock, one SQL
statement or transaction, one Lua script), and the adapter, and writes the journal at each
lifecycle move. Nothing makes the sequence atomic. The engine's own records are plain
dictionaries in the memory of one process; several processes share only the durable stores. The
saga wrappers read a run from a dictionary, make an engine call and store the run they computed.
The API and the refund gateway keep what they know in dictionaries too; the gateway writes the
same items through to its database, the API does not. A command of the command line is a process
with an engine of its own, which seeds its lifecycle record from the files.

What is hard here: two commits of one grant; a revocation racing a commit or the walk over the
ancestors; an in-memory record outdated by another process; a store that fails halfway, on the
way forward or while undoing; a crash between the effect and its record, or between a decision and
its row; a lost answer; a retried pipeline with the same idempotency key; a saga driven by two
callers; votes that arrive late, twice or change their mind; a key, an adapter, a bundle or an
organization that loses its trust between the decision and the effect; an artifact replaced under
the same id; a compensation of a row that others changed; a journal written by several processes.
`PROJECT.json` lists each of these at its line, with the properties aimed at it.

## 2. Modules

`Lifecycle` is the transition table of `state_machine/states.py`.

`CommitEngine` is the commit path. A call is a sequence of steps, one per operation on a store, a
ledger, the in-memory record or the outside world; `pc[w]` names the operation worker `w` performs
next, and other calls run in between. The variables are grouped by who loses them: `mem`,
`reserved`, `consumed` belong to a process and vanish in a `Crash`; `stored`, `uses`, `revoked`,
`inflight`, `outcome`, `outbox`, `bound` are durable; `world` and `invoked` are the provider;
`held` and `issued` are what callers were given. `_transition` is two steps, `Move` (check the
table on the record in memory and advance it) and `Persist` (compare-and-set the durable state),
with `PersistRefused` and `AuditRefused` as its failures. `commit` is `Commit`, `ReserveBudget`,
`ReserveGrant`, the move to COMMITTING, `RecordPending`, `Lookup`, `ValidatePreconditions`,
`AdapterCommit`, then `SettleBudget`, `ConfirmOutbox`, `Finalize` and the move to COMMITTED, or the
undo chain `ReleaseGrant`, `ReleaseBudget`, `AbandonOutbox` and the move to FAILED. Recovery is
`Probe`, `Backfill`, `RecoverGet`, `RecoverConfirm`, `RecoverState`. Any store or journal
operation may raise when `StoresFail`.

`EffectOnce` is the abstract promise: a manifest is claimed at most once, executed at most once
and only when claimed, voided only when unclaimed, and an outcome is recorded only for a settled
effect. `CommitEngine` implements it (`ImplementsEffectOnce`), with the phase of a manifest
computed from its durable state and the number of invocations.

`Saga` is the coordinator. The functions of `saga/machine.py` are operators from runs to runs; a
wrapper is three steps, the reading and checking of the run (`AuthorizeSagaStep`,
`CommitSagaStep`, `VerifySagaStep`, `RecoverSagaStep`), the engine call (`Engine...`, with every
result, lifecycle state and provider state that `CommitEngine` allows) and `Finish`, which stores
the run computed from the copy that was read. Runs live in memory: after `Restart` the client
begins a new run over manifests that keep their lifecycle states.

`CausalOrder` is the validator of causal graphs, the ordering of a plan and `ancestors_of`, as
loops over a multigraph that may be any. Their reference definitions have no queue and no counter:
the set of all topological orders and the paths of each length.

`AuditJournal` is `AuditJournal.record` over the three backends: lock, read and build, append. The
hash of an event is the content it binds, so that no two contents share one. On top of it are the
verifiers of a whole journal and of a slice, and the portable evidence packs of `portable/`. An event
may be about no manifest (`None`: that of a delegation or of a new graph), and the verifier of a pack lets such
events pass; a sealed manifest and a grant carry a signature, a passport only an unkeyed hash of what
it says, which whoever edits it can compute again.

The engine's decisions, as pure operators and one state machine over them:

- `Trust` (keyring, policy bundles, tenants, the adapter registry), `Grants` (validity,
  attenuation, the walk over the recorded lineage), `Consent` (approval and witness quorums,
  separation of duties, evidence), `Envelopes` (constraints, fitting, narrowing, substitution,
  plans) and `Intelligence` (signals, score, recommendation) translate the packages of these names.
  A signature is the key that made it; a hash is the object; an optional value is a set with at most
  one element; times are ticks.
- `Authority` is the engine around them: `Prepare`, `AssessEffect`, `SealManifest`, the four
  authorize functions, `Delegate`, `Revoke`, and a commit in three steps, its gates
  (`BeginCommit`), the walk over the ancestors (`CheckAncestors`) and the reservation (`Execute`),
  with the clock, the keyring, the registry and revocations moving in between. What a commit does
  after its reservation is in `CommitEngine`. The parties that a quorum leaves out (proposer and
  subject, actor and subject) are arguments of the call in the code, and so they are here: any two of
  `Parties`, whatever the manifest says (section 5).

The programs around the engine:

- `LedgerRow` is the SQLite row adapter as functions of the row it finds.
- `ControlPlane` is the HTTP API over it: the handlers of row effects, grants, artifacts,
  compensations, passports and the kill switch. The handlers that reach an adapter are several
  steps of a thread; the others touch one dictionary or one store and are one step.
- `GatewayAccess` is the front door of the gateway and the SDK client: bootstrap in three calls,
  sessions, suspension, requests admitted in one step and carried out in a later one, lost answers.
- `Service` composes the two as `create_app` mounts them, with one restart for both.
- `RefundGateway` is the refund journey: handlers in threads, over a dictionary and the rows written
  one by one behind it, the engine's lifecycle, the payment simulator and a restart. `scored` and
  `torn` are history: the policy that assessed each refund, and the refunds whose proposal a restart
  cut off between its rows; a grant remembers the policy its approver asked for.
- `CommandLine` is a workspace with racing processes. Each command reads the state of its
  manifest, writes it back (`Seed`), and moves on by compare-and-set from what it seeded; a process
  may be killed between any two steps.

`MC*` modules and the `.cfg` files instantiate these for TLC. `*_proofs` modules hold the theorems.

## 3. Runs

Passing runs. Every race named above is between two calls, so two workers, threads, callers or
processes are enough to meet it:

- `CommitThreads` (100 thousand states): one process, two manifests with one idempotency key, a
  budget smaller than the sum of their costs, the outbox, no store failures (so that the exact
  accounting of `NoLeak` can be stated). Checks `NoLeak`, `OutboxOwnsInvocation`,
  `BudgetNotOverdrawn`, `DurableMovesLegal` and, under fairness, `CallsReturn`: every engine call
  returns.
- `CommitProcesses` (720 thousand): two processes, one manifest, two grants, failing stores and a
  crash. Checks `AtMostOneInvocation`, `RevokedNeverExecuted`, `ClaimsAreTrue`,
  `SettledNeverAbandoned`, and that the engine implements `EffectOnce`.
- `CommitReplay`: a retried pipeline without the outbox; `ChargedPerInvocation`, the budget is
  charged per invocation and not per manifest.
- `SagaRun` (1.5 million): a plan of three steps, one restart, every engine answer, driven by one
  caller or by two with stale copies of the run (`team`, chosen in the initial state). Checks
  `EffectsInPlanOrder` and `CompensationInReverse` for both, and `EffectsAccountedFor` for a single
  caller (section 5 says why).
- `OrderGraphs` (90 thousand): every graph of four nodes, cyclic ones, a self-link and parallel
  links included, with the limit on nodes at four; `AcceptsExactlyDags`, `PlanIsLeastOrder`,
  `AncestorsAreTransitive`.
- `Journal` (33 thousand): four writers in one process or two in each of two, over the list in memory, the
  SQLite table and the Redis list, with events about a manifest and about none, failures, lost
  answers and crashes. Checks `ChainVerifies`, `ReturnedIsStored`, `EditsAreDetected` and, for the
  evidence packs built at any moment and every single edit of one that is then hashed again,
  `PacksTellTheTruth`.
- `Authority` (410 thousand): one payment, every kind of authorization, delegations up to three grants, a clock of
  three ticks, a key that is removed, an adapter that is distrusted and registered again.
  `RevocationReachesDescendants` and `CommitWithinChain` are about commits, `JudgedByOthers` about
  every batch of up to three of ten approval and six witness statements with either party named in
  either place, `EnvelopesOnlyNarrow`
  about every pair of 300 envelopes and 60 candidate manifests, `RiskIsMonotone` about every profile
  of the facts and classifications at the edges of the score.
- `RefundGateway` (2.3 million): one refund, two server threads, two approvers, two policy
  activations (so that the policy changes from one to another), payments of other refunds from the
  account and a restart at any step. A payment before the first proposal would only be a smaller
  account, and waits for it. Checks `PaidBehindQuorum`,
  `PaidAtMostOnce`, `StatusIsHonest`, `NoSilentRebinding`, `DecisionsAreDurable`.
- `Service`: two threads, two row effects, a compensation manifest, two bundle ids, two
  organizations, two SDK clients, a restart. A request that was admitted is carried out even when its
  organization is suspended or its session ends meanwhile, as in the code; `OnlyMembersAct` is about
  membership. Checks `UpdatesBuildOnWhatTheyRead`,
  `CompensationIsHonest`, `GrantsStayBound`, `PassportsAreHonest`, `KillSwitchDrains`,
  `OnlyMembersAct`.
- `CommandLine` (1.8 million): two processes, one manifest, two grants, four commands that seed a
  state, two of which may put an old one back. Checks `NeverFabricated`, `AppliedOncePerRow` and
  `InLineUnlessRewound`.

Bounds. The sets of workers, manifests, grants, keys, callers, writers, threads and processes;
`Length`, `N`, `MaxCrashes`, `MaxRestarts`, `MaxCalls`, `MaxDepth`, `BudgetLimit`, `MaxTime`,
`MaxGrants`, `MaxBatch`, `MaxActivations`, `MaxMinted`, `MaxLogins`, `MaxCommands`, `MaxRewinds`,
all constants. One crash or restart is enough to lose every piece of memory state at every step of
every call. One call of each of four writers gives journals of four events, in which an event has a
predecessor, a successor and a rival. Three grants are a root, a child and a grandchild, so that
the walk takes more than one turn; three ticks are before, at and after every expiry. Two rewinds
let a state that was put back be put back again. The proofs remove the bounds for what they cover.
Some bounds are conditions of the next-state relation, named where they stand:

- `Authority`: grants change hands while some manifest is `Authorized` and, after the first, while
  the registry is `Trusting`; the world moves while a manifest is `Alive`; effects are judged in
  the histories with one grant (`Alone`), since the judgement reads no grant; the pure functions
  are asked once, at the start (`Undisturbed`), since they read no state. The run is for an engine
  with a registry, without a tenant and without leeway.
- `Service`: a behaviour sends its requests to one part (`traffic`: "rows", "switch", "desk" or
  "gateway"), because the parts share the process and nothing else; only "rows" has a second
  effect, and it has no restart; one organization is suspended at a time; clients create members
  and not owners.
- `CommandLine`: `issuing` chooses between a fresh workspace in which approvers work and one that
  starts from an authorized manifest; `revoke --manifest-id` names the manifest of the grant.

Processes, grants, callers, threads and the like are interchangeable, hence the symmetry sets; no
run that checks liveness has one. The type invariants of the modules that have one (`TypeOK`) hold in these
runs when added to their configurations; `CommitEngine`'s and `Saga`'s are proved.

Deadlock. The models with a bound on what clients may ask (a planned graph, a journal whose writers
have made their calls, `Authority`, `RefundGateway`, `Service`, `CommandLine`) may stop; their
configurations do not check for deadlock. In `CommitEngine` a caller may always prepare or probe
again and in `Saga` a caller may always try a step again, and deadlock is checked.

Fairness. `FairSpec` lets each worker inside a call continue: no step of a call waits for another
call (the grant store answers "in flight" at once, a lost compare-and-set raises), so the thread
scheduler alone justifies weak fairness of each worker's steps. Nothing obliges a caller to begin
a call. The handlers of the API, the gateway and the command line wait for nobody either, and only
their safety is checked.

Each property of a passing run has a mutant: a definition with a plausible mistake (a dropped
guard, a blind write in place of the compare-and-set, a missing release, a swapped answer) under
which TLC finds the property violated. They stand next to the definition, marked `mutant`.

## 4. Proofs

Theorems hold for all sizes of the sets and all values of the bounds and the switches: any number
of engines, workers, callers, writers, threads, processes, manifests, grants, refunds, approvers,
crashes and restarts, plans, journals and graphs of any length. They rest on the named assumptions
of the modules and on nothing else:

- the types of the constants, positive uses, costs and quorums (`ConstantsAssumption`,
  `RefundAssumption`, `CommandLineAssumption`, `ControlPlaneAssumption`, `OrderAssumption`), and
  `None` and its likes being none of the values they stand beside;
- finitely many workers and manifests (`ConstantsAssumption`, for the sums) and callers
  (`SagaAssumption`);
- a backend in memory for one process only (`JournalAssumption`);
- an owner for every organization (`AccessAssumption`);
- what the validators of the domain classes let through: statements with a number and a time, and
  finitely many (`JudgesAssumption`), at most one parent and whole-numbered windows
  (`GrantsAssumption`), valid envelopes with numbers where they compare numbers
  (`EnvelopesAssumption`), profiles that can be assessed (`ProfilesAssumption`).

Each inductive invariant was checked by TLC on a small instance before it was proved. Of the runs'
properties, all but the liveness property `CallsReturn` are proved.

`Sums_proofs` holds what the others need in place of an induction. The library's induction theorems
take an operator, which the provers cannot instantiate, but that a non-empty set of numbers has a
least element, and a non-empty family of subsets of a finite set a minimal one, are facts about
sets: a claim about every number or every finite set is proved by the absurdity of its least
counterexample. The sum `SumFunctionOnSet` of the community modules, a fold, is treated this way
(one element more adds its value, equal terms give equal sums), and so are the recursive functions
of the models.

`CommitEngine_proofs` proves `TypeOK`. It is not inductive: the code reads `man[w]` and `gr[w]` as
a manifest and a grant, which only calls at certain steps have. `CallShape` says which, and
`Shaped` (`TypeOK` and `CallShape`) is inductive.

It proves the safety invariants along these strengthenings:

- `ClaimInv`: what a call at a given step holds (its grant's slot, an amount in its process'
  ledger, the durable COMMITTING claim of its manifest), and that no two calls hold the same.
  From it: exclusive reservations, the budget, at most one invocation, no execution after
  revocation and legal durable moves; also that a grant's uses stay within `max_uses`
  (`UsesWithinLimit`) and that a revoked grant is not reserved again (`RevokedStaysUnused`), which
  are proved and need no run of their own.
- `GrantedInv`: an authorize call that has moved the durable state is the only one that can
  return a grant. From it: at most one grant.
- `TruthInv`: which of outcome, outbox entry, lifecycle state and world a call may already rely
  on at its step. From it: the stores claim only effects that happened.
- `IntentInv`: a call between `RecordPending` and the adapter owns its key's entry. From it: one
  manifest per key reaches the adapter.
- `FateInv`: a call that gave up abandons its entry only two steps later. Until then its manifest
  stays claimed, nobody else executes it, and the entry keeps the other manifests of the key away
  from the adapter, so that nothing settles meanwhile. From it: `SettledNeverAbandoned`. The proof
  showed that the lifecycle store is needed: without one, a failed audit write lets two processes
  each carry a record of one manifest, and TLC finds the one that found the state stale abandon the
  entry under which the other settles the effect. The property says so now.

- `ChargeInv`: what a process' ledger consumed, with what its calls at `SettleBudget` are about to
  add, is at most the cost of the invocations. From it: `ChargedPerInvocation`.
- `LedgerInv` and `SlotInv`, for stores that do not fail and processes that do not crash:
  what is reserved is the sum of the shares of the calls in flight, and every slot in flight is held
  by a call. The slots need to know why an undo or a settlement always finds its own reservation:
  one call per manifest has won its record (`WinnerInv`), without a durable store a manifest lives in
  the process that prepared it (`HomeInv`), and the outbox entry of a call beyond `RecordPending` is
  its own (`Entry`). From them: `NoLeak`.

With a durable lifecycle store the engine implements `EffectOnce`
(`EngineImplementsEffectOnce`): `Persist` to COMMITTING is the claim, to REVOKED the voiding,
`AdapterCommit` the execution, `Finalize` and `Backfill` the recording, and everything else stutters.

`AuditJournal_proofs` proves that the journal verifies, loses no returned event, only grows, that
the threads of a single process never conflict, and that `verify_chain` finds out a changed, a
missing or two exchanged events. The argument is `Prepared`: an event built from an outdated tip
still continues a prefix of the journal, so a backend that takes only an unused sequence number can
only append a continuation of the whole.
`PacksTellTheTruth` follows for journals of any length: `events_for_manifest` returns the events of
the manifest in the order of their numbers (`KeptInOrder`), numbers that grow from each event to the
next grow throughout (`Ascends`), an event whose hash fits after an edit is one of the journal's
(`EditedEvents`), a signature that still verifies is over what was signed (`SealStays`), and a passport
that kept its hash says what it said (`PassportStays`). So whatever edit is made, the pack is refused or
it still tells what `StillTells` lists (`Tells`); section 5 says what that leaves to the editor.

`Saga_proofs` proves `TypeOK`, `EffectsInPlanOrder`, `CompensationInReverse` and
`EffectsAccountedFor`. `OrderInv` says of the stored run and of every copy a caller holds what
`saga/machine.py` keeps true of a run (`RunShape`: nothing after the cursor has begun, and a run that
goes backwards has a failed step at its cursor), and that every step before the cursor was performed
and verified (`Progress`): a stale copy can put the stored run back, but no copy is ahead of what
happened. `AloneInv` adds, for a single caller, that its
copy is the stored run. That the last step to compensate exists for every length is proved by the
minimality of one of the finitely many tails of the plan, in place of an induction.

It also proves the planner that gives a saga its order, for every number of nodes and every value of
the limits that lets a saga have as many steps as a graph has nodes (256 in the code, both), from
`PlannerInv`. While nodes are peeled off, every counter is the number of links from nodes that are
left, parallel links included, and the waiting nodes are exactly those whose parents are gone
(`PeelInv`); the nodes peeled off so far have an order (`Sorts`), each depth is the length of a path
and grows along every link from a visited node (`DepthInv`). So a peeling that ends early leaves
nodes of which each has a parent among them, and no order can exist; one that ends with all nodes has
found an order and the longest path (`AcceptsDags`). No order of the nodes has begun better than the
plan so far (`LeastSoFar`), hence `PlansAreLeast`; the nodes walked over have a path to the one asked
about and no parent outside the work list (`WalkInv`), hence `AncestorsAreFound`.

`RefundGateway_proofs` proves the five invariants of the refund gateway from `GatewayInv`: what the
memory and the database each say (`StoreSays`), what a handler knows of its refund between two of
its steps and has still to write (`TaskSays`, `RowsSay`), that two handlers never both register a
grant or pay for one refund (`Apart`), the account (`Money`), and that what is not in the database
is in the hands of a handler (`RowsAreCurrent`, `NothingForgotten`). `NoSilentRebinding` rests on
`Frozen`: the memory has the policy that assessed a refund from its proposal on, unless a restart tore
the proposal. At a restart the memory becomes the rows, and the row of that policy is there or still
in the hands of the handler that the restart cuts off, which is what makes the refund `torn`.

`CommandLine_proofs` proves the three invariants of the command line from `CommandLineInv`:
`FilesInv` (files and processes exist only behind a stored state), `RowInv` (a statement that took
effect left a row version its manifest does not accept) and `LineInv` (until a seed rewinds it, a
manifest has one executing and one undoing process, and its state counts its calls).
`AppliedOncePerRow` follows from `RowInv` alone: it is the `WHERE` clause on the version that
protects the row, not the slot, the outbox or the lifecycle state, which a seed can all pass by.

`Service_proofs` proves the six properties of the HTTP service, the two action properties
`KillSwitchDrains` and `OnlyMembersAct` among them, from `PlaneInv` and `AccessInv`. Besides types,
`PlaneInv` says what a row's version tells a manifest (`RowInv`), what a thread has learnt by each
step and which threads exclude each other (`JobsInv`), that a compensation that called the adapter
cannot call it again (`OnceInv`), that states, results and proofs have their effect behind them
(`ToldInv`), that the approvers behind a grant stay (`BoundInv`) and that a thread at work under the
engaged switch was at work before (`CaughtInv`). `AccessInv` says that an admitted request is one
of a member of the organization it is about.

`Authority_proofs` proves the five properties of the engine's decisions:

- `RevocationReachesDescendants` and `CommitWithinChain` from `CommitInv`: grants are numbered in
  order, and a delegated one is `Derived` from one that exists (`GrantsInv`); a call that passed the
  gates was permitted at the time it looked (`CallInv`), and one that has walked its ancestors has
  found a set of unrevoked grants that contains its parent and is closed under parents (`Cleared`).
  An effect keeps both (`EffectsInv`). That the walk, a recursive function along the lineage, finds
  such a set or refuses, and that every link of a chain narrows the window, the effects and the
  audience, is shown on the least counterexample.
- `JudgedByOthers` for batches of statements of any size: a finite set of statements has a last one,
  so each principal that is counted has a last word, and the gates before the count leave out agents
  and the two parties the caller named, whoever they are; the witnesses likewise. The proof depends on the statements being
  grouped by the principal's id, as the code does (`approval/quorum.py:71`, `witness/quorum.py:64`);
  an earlier form of the model grouped them by the whole principal.
- `EnvelopesOnlyNarrow` for any pair of valid envelopes and any candidate manifest, constraint by
  constraint.
- `RiskIsMonotone` for every profile the validators let through, under the default policy:
  worse facts are `Harsher`, harsher facts raise signals that dominate the former ones, dominating
  signals have no smaller sum, and the thresholds keep the order.

Only model-checked:

- `CallsReturn`, and everything about fairness: liveness and `ENABLED` are out of the prover's reach.
- The type invariants of the modules other than `CommitEngine` and `Saga`; the types the proofs need
  are part of their inductive invariants.

Out of reach by their form are library theorems with an operator as a parameter, `SelectSeq`, and
operators declared `RECURSIVE`. The models that are proved about use neither of the last two; the
recursion of the code is written as recursive functions.

## 5. Where the code and its documents disagree

Two runs end in a counterexample, on purpose. Each checks one sentence of the repository.

- `SagaRecoveryStuck`: after a recovery with evidence the lifecycle is terminal, and the step that
  the run now calls committed can never be verified.
- `CompensateUnverified`: `commit_compensation` calls the adapter for an original that is not
  VERIFIED, and meets the illegal transition to COMPENSATED after the effect
  (`state_machine/states.py:4`).

Other disagreements met while modelling. The models contain them, and properties are stated so that
they hold in spite of them; no run singles them out.

Commit, outbox and sagas:

- An adapter that reports a lost answer as `success=False` (the payment adapter does) gets its entry
  abandoned although the effect settled (`engine/core.py:1606`); `docs/transactional-outbox.md:13`
  says abandoned entries failed before the adapter. `SettledNeverAbandoned` is about adapters that
  raise, and so does not show this; it is about engines with a durable lifecycle store (section 4).
- With an outbox, the replay of a recorded outcome for a second manifest
  (`docs/crash-recovery.md:24`) is refused by `record_pending` before the outcome is looked up. The
  row adapter's default key names only the row, so that a second effect on a row needs a key of its
  own.
- `commit` confirms the outbox entry before `grant_store.commit` stores the outcome; a crash in
  between leaves a confirmed entry that is not finalized (`docs/transactional-outbox.md:12`).
- The rollback of the in-memory record after a failed write (`engine/core.py:244`) restores the
  state this call saw, and undoes another call's transition too.
- `authorize_saga_step` authorizes a later manifest before it refuses the call, against
  "cursor-gated" in `docs/saga-orchestration.md:28`; the manifest cannot be authorized again when
  its turn comes.
- A first step whose answer is lost ends the run as `aborted`, "Stopped before any external
  commit" (`docs/saga-orchestration.md:23`), although its effect may have settled.
- The saga wrappers store the run computed from the copy they read: with two callers a stale copy
  can reopen a run that has ended and hide an effect from compensation. This is why
  `EffectsAccountedFor` is stated for one caller.

Authority:

- A root grant gets no lineage row, and three of the four authorize functions record none at all,
  against `docs/delegation.md:84`. The walk reads a missing row as uncertain: a delegated grant
  cannot be committed until somebody calls `record_lineage` for its root.
- `delegate()` keeps neither the policy, the envelope, the plan nor the approval its parent is bound
  to, and looks at neither the parent's signature and window nor its revocation;
  `authorize(parent_grant_id=...)` accepts any parent without attenuation. The grant's scope is
  attenuated, but commit never checks it. `CommitWithinChain` is stated for chains made by
  `delegate`.
- A narrower envelope may name a parameter its parent does not (and the parent, when strict,
  forbids), and an exact 1 accepts `True`. `EnvelopesOnlyNarrow` leaves both out.
- The proposer and the subject of `authorize_with_quorum`, and the actor and the subject of
  `evaluate_witnesses`, are whomever the caller names (`engine/core.py:936`, `engine/core.py:1740`;
  the API and the command line pass on their request's, `api/routes.py:835`, `api/routes.py:910`,
  `cli/grant_cmd.py:252`); nothing compares them with the manifest's actor or principal, and
  the separation of duties takes its base roles from the same two. So "the proposer of a manifest and
  the subject/executor of a grant can never satisfy that grant's approval quorum"
  (`docs/extreme-v2-build-status.md:358`) holds of the parties named, not of the manifest's: in the
  model, too, its actor is counted whenever the caller names others. A named party's dissent is not
  counted either. `JudgedByOthers` says just what holds; the refund gateway names the manifest's actor
  in both places (`gateway/refunds.py:644`).
- A dissent that has expired revives the earlier approval of the same person.
- Registering an adapter again clears its revocation; revoking a child grant moves the manifest to
  REVOKED for every other grant; a BLOCK recommendation is advisory.

Rows, compensations and passports:

- A row that was deleted and inserted again starts at version 0: an update prepared on the old row
  is accepted on the new one (`docs/security-model.md:23`, item 14). This is why
  `UpdatesBuildOnWhatTheyRead` compares generations.
- A compensation restores the recorded balance over whatever the row holds now, and the
  compensation of a failed insert deletes a row somebody else inserted. Two compensation manifests
  of one original can both be carried out.
- The registry refuses to verify a compensation manifest, which `docs/compensation-manifests.md:12`
  offers; so its passport never says verified. A compensation that was attempted and failed is
  reported as refused; an original whose compensation could not begin stays COMPENSATING.
- A passport says `compensation_verified` on the adapter's word alone, `revoked` for an effect
  that was committed before the revocation, and `failed` when the adapter raised after its
  statement. `PassportsAreHonest` is about the claims of success.

Evidence packs:

- The verifier compares the pack's manifest id with its events, and the sealed manifest with the
  passport and the grant, but not the one group with the other: a pack all of whose events are about
  no manifest, or that has none, verifies under another manifest id.
- The hashes of the pack and of its passport are unkeyed (`passports/v2.py:180`), and the verifier
  compares the passport only by its manifest hash: a passport with another outcome verifies once both
  hashes are computed again. What is signed is the manifest and the grant.
- Events about no manifest, which the journal does hold (`engine/core.py:1168`, `api/routes.py:285`),
  pass the verifier (`portable/verify.py:108`) although the builder never embeds them, and a grant or
  events can be left out; of the latter `portable/verify.py:10` warns.
- `PacksTellTheTruth` states what is left, for one edit at a time, of a pack verified with the keys it
  was built with: a pack is no better than the keys it embeds, as `portable/verify.py:14` says.

Refund gateway:

- An approval in flight when a denial is recorded still becomes a grant, although a denied refund
  "can never be approved by this refund API" (`gateway/refunds.py:684`).
- Two approvals in flight write their rows in either order: after a restart a statement may be
  missing. Policy bundles, the active policy and outcome proofs have the same race.
  `DecisionsAreDurable` leaves these out, and it is about requests that were answered: what a request
  that a restart cuts off had decided in memory is gone.
- "The active bundle is bound into every subsequent refund's grant" (`gateway/refunds.py:390`), "this
  exact bundle rather than whatever happens to be active at approval time" (`gateway/refunds.py:518`):
  the row of that bundle is the last one a proposal writes (`gateway/refunds.py:550`). A restart just
  before it leaves a refund that can be approved and whose grant is bound to no policy
  (`gateway/refunds.py:600`). `NoSilentRebinding` allows no policy in this case, and where none was
  active at the proposal, and in no other.
- The kill switch is lost at a restart, and the refund handlers never look at it.

Command line:

- A slow command writes back the lifecycle state it read (`cli/workspace.py:353`,
  `engine/core.py:151`): `revoke` can read AUTHORIZED, `execute` perform the effect, and `revoke`
  then put AUTHORIZED back, move to REVOKED and answer that it stopped at a safe point
  (`docs/state-machine.md:55`; `docs/cli.md:17`, "keeping a consistent lifecycle state"). This is
  why `InLineUnlessRewound` excludes such manifests, while `AppliedOncePerRow` does not.
- For a workspace without `lifecycle.db`, the state is taken from the last event, blocked
  transitions included (`cli/workspace.py:356`), against "never to fabricate a state that didn't
  actually happen" (`engine/core.py:160`). The model is of workspaces that have it.
- A crash between the lifecycle move and the file leaves a manifest that no command can continue;
  an outbox conflict leaves it COMMITTING; an adapter that raises in `compensate`, COMPENSATING.

## 6. Limits of the model

The stateless gates of `commit` only refuse a call before it changes anything: in `CommitEngine` a
refused call is a call that is not begun, and the authorize variants share one action; `Authority`
has the gates and the variants. A transition of an in-memory record is one step, although two
threads can both pass its check; with a durable store the compare-and-set decides, without one this
race is not shown. The SQLite outbox marks an entry by a read and a conditional UPDATE; the model
takes them as one step, so that a racing double confirmation returns where the code may raise a
conflict. Cryptography is ideal. EXPIRED is a state of the table that no engine call sets.
`ControlPlane` has the commit path in four steps, with an idempotency key per request and no
outbox; `RefundGateway` has one organization. `CommandLine` has the commands of policies,
envelopes, graphs, witnesses and compensation manifests only as far as the API exposes the same
engine calls.

Not modelled, and why: the conformance suite, the acceptance script and the exhaustive explorer of
`state_machine/model_check.py` (test harnesses); the demonstrations, pages and renderers (output);
schemas, migrations, settings, metrics and serialization (data without decisions); request size
limits and the rate limiter (middleware in front of every handler, which refuses a request before
it is one); domain classes and exceptions.

## 7. Plan

Done: all the modules of section 2, the runs of section 3 and the proofs of section 4.

Possible extensions: a model of the rate limiter, and an abstract specification of one refund that
`RefundGateway` implements.
