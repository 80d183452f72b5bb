# A TLA+ development of trade_risk_engine

`trade_risk_engine` answers one question for a trading desk: may this trade
proceed?  This directory holds TLA+ models of the library (the sources are under
`src/src/trade_risk_engine/`; paths below are relative to that directory), the
TLC configurations that check them, and TLAPS proofs about them.

## The system

| part | state | operations | who calls it |
| --- | --- | --- | --- |
| `KillSwitch` (gates.py) | `tripped`, `tripped_at` | `trip`, `reset`, `check`, `to_state`, `from_state` | operators; `RiskAuthority`; the `on_trip` callback |
| `TimedCircuitBreaker` (gates.py) | `loss_streak`, `tripped`, `tripped_at` | `record`, `check` (which also clears), `reset`, `to_state`, `from_state` | `RiskAuthority`; operators |
| `ConsecutiveLossGate` (gates.py) | `history` | `record`, `check`, `reset`, `to_state`, `from_state` | `RiskAuthority`; operators |
| `RiskAuthority` (engine.py) | the three gates, `_last_trip_reason` | `evaluate_with_state`, `record_resolved_trade`, `snapshot_state`, `from_state`, `_maybe_fire_trip` | the host's order router; `RiskProvider` |
| stateless gates (gates.py, engine.py) | none | EV, drawdown, consecutive losses, concentration, cluster cap, latency budget | `RiskAuthority`, `RiskProvider` |
| `RiskState` and its parts (state.py) | the JSON snapshot | `to_json`, `from_json`, `__post_init__` checks | the host, on crash recovery |
| `RiskProvider` (provider.py, provider_receipts.py) | none of its own | the checks of a request, `evaluate`, the per-gate report, the receipt | a Verdict runtime |
| `load_risk_config` (config.py), `RiskContext` (state.py) | the file of desk controls, the policy in force | load, and build a context from the result | the host, at start or when operators edit the file |
| `kelly_fraction` (kelly.py) | none | the stake of a bet | the host's strategies |
| `WebhookEmitter` (webhook.py) | none between calls | `emit` with retries | the host, usually after an alert |
| `PaperExecutionAdapter` (execution.py), benchmark.py | none | a stub and a report | the host |

Calls go one way: host -> `RiskProvider` -> `RiskAuthority` -> gates; the only
call back is `on_trip`, from the middle of an evaluation.  The library has no
threads of its own; `emit` is a coroutine, of which several may be under way.
What is hard about it is

* **time given by callers**: the breaker measures its cooldown between the
  datetime of a loss and the datetime of an evaluation, either of which may lag,
  be missing or be in another zone mode;
* **order**: the gates are asked in a fixed order and the first that stops a
  trade returns, so one halt hides another, and the breaker clears itself only
  when it is asked;
* **crash and restore**: a snapshot holds the gates but neither the settled
  trades they were fed with nor the last alert;
* **alerts**: one remembered reason decides whether `on_trip` is called, and the
  callback holds the authority that calls it and the decision it will return;
* **stale inputs**: the pure gates judge copies of the book, of the day's PnL and
  of the settled outcomes, and several routers copy, evaluate and fill in turn;
* **reports out of order**: the consecutive-loss scan sees a list in which
  reports are late, tied, dated ahead or in mixed zone modes;
* **malformed floats**: comparisons with NaN are false, so each gate, the
  boundary of the provider, the loader and the context have to look for it before
  they compare;
* **answers that are lost**: a receipt may be refused after the evaluation has
  changed the gates and called `on_trip`, and the caller asks again;
* **delivery**: a post that timed out may be accepted later, or again, while
  other events are under way.

What makes each part correct: an approval is within the limits of the policy
(chain), also when the book it was judged on was stale by the orders in flight
(desk); the scan blocks exactly the runs of recent losses (consecutive losses);
`True` means delivered and an `emit` returns when its responses do (webhook); a
gate's state is a function of what was settled since it was cleared (breaker,
window); no trade is approved while a halt is in force (authority); a halt lasts its
cooldown, and ends (breaker); every halt a trade meets has been announced (alerts);
a snapshot is accepted when it is needed and restores what was saved (snapshots);
the report beside a decision accounts for it, and asking again is safe (provider);
the policy in force is in range and a stake is the optimal one scaled down
(configuration).

## Modules

| module | models | how |
| --- | --- | --- |
| `RiskValues` | PnL figures, datetimes, reason codes | a PnL is its sign and whether it is a Python float; a datetime is a zone mode and an instant; a reason is its `ERR_` name and the number formatted into it |
| `KillSwitch`, `TimedCircuitBreaker`, `ConsecutiveLossGate` | the classes of the same names | one operator per method: state changes as actions, the answer of `check()` as `Blocks` and `Reason` |
| `RiskAuthority` | `RiskAuthority` with the three gates, its host and its clock | one action per method; the gates are instances of the three modules above |
| `DeskHalt` | what a `RiskAuthority` promises, with no streaks, windows or clocks | abstract specification over the set of causes in force |
| `RiskAuthorityHalts` | the mapping from `RiskAuthority` to `DeskHalt` | `ImplementsDeskHalt` |
| `RiskAuthorityAudit` | `RiskAuthority` beside the records an auditor would keep | history variables only; no action is restricted but by `MaxTrades` |
| `RiskAuthorityClaims` | statements of comments that the code contradicts | one refuted property per run |
| `StatelessGates` | the pure gates of gates.py and `_evaluate_stateless` | one operator per gate, from its inputs to a reason; `Verdicts` is their order, `FirstReason` the early returns, `Answers` what `evaluate_trade` may return or raise |
| `LossReports` | a caller's list of outcomes, asked of `evaluate_consecutive_losses` | `Report`, `Forget` and `Tick` build every list that can arise; properties compare verdicts |
| `OrderRouting` | a desk that routes orders through `evaluate_trade` | `EvaluateTrade` is the library; `Ask`, `Fill`, `Drop`, `Resolve` and `Tick` are its callers |
| `WebhookEmitter` | `emit` and `_post_once`, a coroutine per event | `Emit`, `Success`, `GiveUp`, `Retry`, `Sleep`, `Wake` and `Cancel` are what happens between two awaits; `Accept`, `Refuse` and `Respond` are the endpoint |
| `EventDelivery` | what a `WebhookEmitter` promises, with no attempts, delays or timeouts | abstract specification: `Start`, `Deliver` at most so many times and as late as the network likes, one `Answer` |
| `WebhookDelivery` | the mapping from `WebhookEmitter` to `EventDelivery` | an event is "pending" until its `emit` returns; the log keeps the event of each post (`ImplementsDelivery`) |
| `RiskProvider` | `RiskProviderRequest`, `RiskProvider.evaluate` and the receipt | extends `RiskAuthority` and instantiates `StatelessGates`, so that the verdict the one leaves open is decided by the other: `Refuse` is a request that is not built, `Evaluate` is `evaluate()` |
| `RiskConfig` | `load_risk_config`, the checks of `RiskContext`, `kelly_fraction` | `Edit`, `Delete`, `BreakSection` and `BreakFile` are the operators at the file; `Start` loads it and builds a context |
| `RiskAuthority_proofs`, `RiskAuthorityHalts_proofs`, `RiskAuthorityAudit_proofs`, `LossReports_proofs`, `OrderRouting_proofs`, `WebhookEmitter_proofs`, `RiskProvider_proofs`, `RiskConfig_proofs` | the theorems | see Proofs |
| `MCAudit`, `MCClaims`, `MCReports`, `MCRouting`, `MCWebhook`, `MCProvider`, `MCConfig` | gate sets, zone modes, strategies, requests and scalars for the runs | constants only |

Each method is one atomic action: the library is synchronous and holds no locks, and
its documentation offers one authority per session object.  `evaluate_with_state` is
`EvaluateWithState(now)`: `AskBreaker` is the state change of `timed_breaker.check`,
the four disjuncts are its four returns, and `MaybeFireTrip` is part of the three
rejecting ones.  `OnTrip` is the callback: it returns, or raises (the code logs and
goes on, which is the same to the state), or pulls the kill switch.  That it does no
more is an assumption: it is handed the decision, a mutable object, that is returned
afterwards, and could reset gates, settle trades or evaluate again.  An evaluation
of a size that is not finite raises at engine.py:129, before a gate is asked; it
changes nothing and is no action.  `Restart` is a crash followed by
`RiskAuthority.from_state(RiskState.from_json(...))` of the last snapshot, or by a
fresh authority when there is none.  In a snapshot a gate that is not configured
keeps its initial value, which stands for `None`; constructor parameters of the
gates are constants and so are not stored in a snapshot.

The chain is one atomic step in `OrderRouting`, because it works on copies: what
matters is what happens between `Ask`, which copies, and `Fill`.  What is copied is
the list: a `Position` is a mutable object (state.py:58), so a market that resolves
is resolved in the requests that still wait for an answer (`Resolve`). The account
is asked for the PnL and the equity of a request, and may report what cannot be
right instead (`Garbled`: a NaN, or an equity that is not positive). The variable
`late` counts, per router, the fills since a cause bars new trades; it restricts no
action.  In the pure gates money is a whole number or `Nan`, a percentage is whole,
and the division of the drawdown gate is multiplied out; the latency budget
(`MayBeSlow`) is a choice, since it depends on the machine.  The stateful authority
reaches the same chain through its action `EvaluateStateless`, which is a choice of
verdict there; `RiskProvider` joins the two, and takes of that choice what the chain
answers.

The scan of `evaluate_consecutive_losses` sorts and then walks the list;
`StatelessGates` says which outcomes it reaches (`Reached`: it counted everything
newer) and which of them it counts (`CountedRun`), which is the same and can be
proved about.

A draft in `RiskProvider` is what a caller passes to the constructor of
`RiskProviderRequest`; the first field that is not accepted is the one of the
error.  Of positions and outcomes only the type is looked at, and since both are
mutable their figures may be NaN by then, although neither can be built so.  An
evaluation whose advisory the receipt refuses (a reserved key in it, or keys that
`json.dumps` cannot sort) has an answer that is lost: `answer.kind` is "raised", and
all it did to the gates stays done.

In `RiskConfig` a scalar has a YAML type and a value in units of 1 / `One`.  The
window of the loss gate stays in seconds, since a factor of 60 changes no check.
`Start` takes the keys that are fields of `RiskContext`, as the docstring of
config.py tells callers to; an exception of the loader or of the context leaves
the desk as it was.  A stake is a fraction `n / d`, so that nothing is rounded.

In `WebhookEmitter` a task is "posting" until its response begins to arrive
(`Respond`), and "reading" until all of it has.  A failed attempt is any way in
which `_post_once` or `raise_for_status` may raise, and says nothing of what becomes
of the post: a post may be accepted after the emitter gave up on it, even after
`emit` returned. `Cancel` is the host cancelling the task; `CancelledError` passes
the `except Exception`.

Operators whose comment begins with "Fault" are slips that a change to the code
could make; nothing in the specifications uses them.  Each is a definition to put
in the place of the one named after it in `PROJECT.json` ("mutants"), to see the
property of that entry fail.

## Runs

| run | question | bounds | distinct states |
| --- | --- | --- | --- |
| `desk` | approvals, alerts, window and snapshots against the records | 3 gates with a callback, threshold 2, cooldown 1, window of 2, clock 0..1, 3 trades | 2,658,637 |
| `breaker` | does the breaker agree with its log, does a halt last, and does trading resume? | breaker alone, threshold 2, cooldown 2, clock 0..5, lag 1, two zone modes, missing datetimes, 5 trades | 321,166 |
| `reports` | does the scan block exactly the runs of recent losses, in whatever order they are reported? | limit 2, window 2, clock 0..3, skew 1, two zone modes, 4 reports | 265,628 |
| `routing` | what do stale copies of the book let through? | 2 routers (symmetric), cost 1, exposure limit 2, drawdown limit 10% of 20, losses of 1 and 3, loss limit 2, window 1, clock 0..2, 4 fills | 2,057,890 |
| `policy` | is an approval within the limits on expected value, drawdown, runs of losses, exposure and clusters? | 1 router, 11 kinds of orders, clusters and NaN figures among them, accounts that report a NaN or an equity of 0 or less, loss limit 2, window 1, slow evaluations, 3 fills | 671,579 |
| `webhook` | what do True and False mean, how often and in which order do events arrive, does `emit` return when its responses do, does the whole implement `EventDelivery`? | 2 concurrent events, one with delayed retries, 3 attempts | 369,220 |
| `provider` | does the report or a halt account for the decision, does the boundary hold, is a lost answer safe to ask for again, does the whole implement `DeskHalt`? | 3 gates with a callback, threshold 1, window of 2, clock 0..1, 18 drafts that meet each gate, each check, a NaN behind the boundary and each way a receipt fails | 271,124 |
| `config` | is the policy in force in range, and the stake optimal? | 7 fields, 9 scalars of each type and range, 2 fields or broken sections at a time, probabilities and prices in tenths | 449,293 |
| `int_losses`, `alerts`, `late_loss`, `nan_cluster` | a statement of a comment or document each | refuted | |

The bounds are `MaxTime` (the horizon of the clock, a guard of `Tick`), `MaxTrades`
(the length of the auditor's logs, a guard of `Settle`), `MaxReports` (the length of
the list of outcomes, a guard of `Report`), `MaxFills` (the length of the book, a
guard of `Fill`), `MaxKeys` (the fields and broken sections in the file, a guard of
`Edit` and `BreakSection`) and `MaxEvents`; `MaxLag` and `MaxSkew` say how far the
datetimes of callers and of reports may be off.  No check of `load_risk_config`
looks at two fields, so that two at a time meet every case of it.  A breaker can
trip, outlast its cooldown, lapse and trip again within the horizon and the five
trades of `breaker`; a window of two is filled and trimmed by the three trades of
`desk` (`WindowCorrect` proves it for every length); `desk` reaches every order of
trip, snapshot, crash and restore of three gates.  The four reports of `reports` are
enough for a run of losses, an interruption of it and a late report; the fills of
`routing` pass the exposure limit, and go on after a breach or a run of losses,
which ages out within the horizon; two events with retries are enough for every
order of two deliveries and their answers.  The proofs below hold for any value of
these bounds.  Deadlock is not checked in `webhook`, where the system stops when
every `emit` has returned and no post is under way.

Fairness is assumed in `breaker`: time passes, and in each time zone mode that
callers use the desk keeps proposing trades dated with the wall clock.  The code
gives no more: it has no timer, so a breaker nobody asks never clears, and one
that is only asked in another zone mode than that of its trip answers
`ERR_INVALID_TIMEZONE_MIXED` for ever.  `TradingResumes` is about a trip that was
dated, and excuses a breaker behind a tripped kill switch, which is not asked.

In `webhook` it is weak fairness of each coroutine that is not reading a response:
an `await` that the endpoint leaves unanswered ends at `timeout_seconds`, a delay
ends, and the event loop runs the task again.  While a response arrives nothing is
assumed, because `timeout=` of httpx (webhook.py:105, 112) bounds each connect,
write and read and not the post: an endpoint of which a piece arrives within every
`timeout_seconds` holds `emit` for as long as it likes.  `EmitReturns` therefore has
the premise that its task is not reading for ever.

### What the refuted runs show

* `int_losses`: `_is_finite` (gates.py:501) demands a `float`, so `record(-5)` is
  ignored by the breaker and the window, while the docstring of `record` excepts
  only NaN and infinities.
* `alerts`: `_maybe_fire_trip` (engine.py:216) compares with the last reason
  only; two causes that alternate are announced again and again, where the
  constructor promises once per unique reason.
* `late_loss`: a loss settled after the cooldown but before the next evaluation
  is dropped (gates.py:359), since only `check()` clears the breaker.
* `nan_cluster`: `evaluate_cluster_cap` (gates.py:234) is the one gate that
  compares without looking for NaN first, and so lets a cluster of unknown
  exposure through, where SECURITY.md asks for NaN to be handled explicitly.

Other divergences have no run of their own.

* The latency budget (engine.py:311) makes the answer depend on the machine, where
  the README of the repository has "Same inputs -> same outputs, always".
* A breaker tripped by a loss without a datetime never lapses (gates.py:377), where
  its class says that trading resumes; hence the premise of `TradingResumes`.
* `load_risk_config` checks `concentration.max_cluster_usd` with `value <= 0.0`
  (config.py:119), which NaN passes, where its docstring has a `ValueError` for a
  value out of range.  For the other fields that are checked so, `RiskContext`
  refuses the NaN (`ContextInRange`); the cap of a cluster goes elsewhere.
* `kelly_fraction` raises on a NaN or infinite `conservative_fraction`
  (kelly.py:31), where its docstring returns 0.0 "whenever [...] any input is
  NaN/infinite".

## Proofs

All theorems hold for every value of the constants that the constructors accept (the
`ASSUME`s of the modules), for any horizon and any length of a log, a list or a
book.  The assumptions about callers are `DraftsHaveFields` (a draft has the fields
of `RiskProviderRequest`, no more), `GarbledAssumption` (what the account reports
instead of its figures is a NaN or an equity of 0 or less), that `on_trip` does no
more than pull the kill switch, `LimitAssumption` (the consecutive-loss gate is
switched on), and the hypotheses of `ExposureLimited`, which the theorem itself
states.

* `RiskAuthority_proofs`: `TypeCorrect`.  `TypeOK` is inductive by itself; its
  one hard conjunct is that the window never outgrows `window_trades`, which rests
  on the lemmas about `LastTrades`.
* `RiskAuthorityHalts_proofs`: `Implements`, i.e. `Spec => ImplementsDeskHalt`.
  The invariant `HaltInv` adds to `TypeOK` that a gate which is not configured is
  clear, also in the snapshot; without it a `Judge` of the abstract specification
  could leave a cause behind.
* `RiskAuthorityAudit_proofs`: `BreakerCorrect`, `WindowCorrect`,
  `SnapshotCorrect`, `CooldownCorrect`, `ApprovalCorrect`.  The inductive invariant
  `AuditInv` is the types, `GatesAgree` (each gate agrees with its log, and the
  trip is dated no more than `MaxLag` before the clock read when it happened) and
  `SnapshotAgrees` (the same of the snapshot and the archived records).  The second
  half is needed because a restart brings the archived values back; the date of the
  trip is needed because `HaltLastsCooldown` is about a clock the gate never sees.
  `AuditTypeCorrect` is a part of it.  `AlertCorrect` needs `RememberedHeard`: the
  remembered reason was announced in the life of this process, because a restart
  forgets both.
* `LossReports_proofs`: `RunsBlocked`, `PruningIsSafe`, `OrderIrrelevant`,
  `OmittingIsStricter`, `LossesOnlyAdd`.  The invariant is only the type of the
  list; what is hard is the scan.  `RunIsNewest` and `RunIsRecentRun` say that what
  it counts is the newest end of the list and, once it is long enough, a run of
  recent losses; `RunSame` and `ScanSame` that two lists with a map between their
  positions that keeps which of two outcomes is newer, and leaves out only outcomes
  older than the window, are counted alike, from which
  pruning and swapping follow; `RunGrows` that a further loss takes nothing away;
  `RunByLatest` that the newest outcome counts no fewer than the clock does.
* `OrderRouting_proofs`: `PolicyEnforced` rests on `ApprovalNeedsEveryGate` (the
  chain answers "OK" only when each gate does), on `DeskInv`, which types what a
  router holds, and on `LossRunIsRefused`: a list that ends in a run of recent
  losses is counted to the limit, which needs `OutcomesInv` (outcomes settle in the
  order of the clock).  The limits it speaks of are those of the policy on expected
  value, drawdown, runs of losses, exposure and clusters; of a cluster whose
  exposure is NaN it says nothing (`nan_cluster`), and a blown latency budget is no
  limit.  `DrawdownEnforced` needs `LateInv`: while the limit is breached a router
  that has filled since holds no approved order, because what it asks for then
  carries the breached PnL and is refused.  `LossRunEnforced` follows from the same
  invariant, by `LossRunIsRefused`.
* `OrderRouting_proofs` also has `ExposureLimited`: the routers exceed the exposure
  limit of a family by at most one order of each other router.  It supposes
  finitely many routers and proposals and, since the code accepts any finite cost,
  that no proposal costs less than nothing: a position of negative cost would raise
  the exposure when it resolves.  `ExposureInv` is `BookInv` (what was copied from
  the book is still there, in its order, and only resolves), `CopyInv` (the book
  holds no more than an order in flight has seen and what was filled since) and
  `RoutedInv`: for each family there is a length `k` of the book, that of the
  youngest copy an order was filled from, such that the positions after `k` bound
  what exceeds the limit, and that these and the orders still in flight that were
  judged on a copy no longer than `k` are of different routers.  The last part is
  why a router never counts twice, and must be said of every length from `k` on to
  survive a fill, which moves `k`.  The sum over a book is a fold over a finite set;
  that a step adds to it or takes away what it should (`FillStep`, `TotalEmpty`) is
  proved from a smallest counterexample, since the induction rules of the library
  cannot be instantiated here.
* `WebhookEmitter_proofs`: `DeliveryCorrect`, `ExhaustionCorrect` and
  `OrderCorrect`.  The inductive invariant `EmitInv` adds `AttemptsSent` (the loop
  variable counts posts that were sent), `PostsRecorded` (what was accepted is in
  the log of the endpoint, and nothing is that was not emitted) and `KnownStays`
  (what was known to be acknowledged when an emit started still is): the last two
  together keep an acknowledged event from being overtaken.  `TypeCorrect` is part of
  it.  `DuplicatesCorrect` adds `NothingAhead` (no attempt beyond the loop variable
  was posted) and `AcceptedOnce` (each accepted post is in the log once), and maps
  the log of an event into its attempts.  `DeliveryImplemented`, i.e.
  `Spec => ImplementsDelivery`, goes through the steps: an `Emit` starts, a return
  answers, an `Accept` delivers, and the rest of the loop is not seen.  That there
  is room for the delivery follows from `DuplicatesBounded` after the step.
* `RiskProvider_proofs`: `ReportCorrect` and `BoundaryCorrect` need no
  strengthening, because an answer is judged in the step that gives it.
  `StoppedIsHalted` says that a halt that stopped a request is in force after the
  evaluation (a breaker that blocks does not clear itself, and the callback only
  pulls) and is the reason of the answer, `PassedIsNotHalted` that otherwise no halt
  is: what the chain decided was not decided during one. `ReportAccounts` that the
  chain's answer is the first rejection in the report, since a request of the
  provider never has a cluster. `RetryCorrect` (`ProviderSpec => RetryIsSafe`)
  compares two evaluations, and so needs `LostInv`, which says what the first has
  left in the gates: as long as an answer is lost, the gate that stopped it would
  stop it again for the same reason, which `on_trip` has heard, unless the callback
  has pulled the kill switch since; or nothing stopped it and the reason is one the
  chain may give again. `PassedLeaves` and `StoppedLeaves` are the two ways to get
  there. `ProviderImplements` carries the refinement of `DeskHalt` over to the
  provider: a step of it is a step of the authority, or touches no gate.
* `RiskConfig_proofs`: `PolicyInRange` and `StakeCorrect`.  `ConfigInv` adds to
  `ContextInRange` what the file holds and that a loaded fraction is in (0, 1];
  `StakeOptimal` is the algebra of the stake, for every `One`.

Every invariant, action property and refinement of the passing runs is a theorem.
Only model-checked are `TradingResumes` and `EmitReturns` (liveness under fairness,
out of the prover's reach) and the refuted statements (a counterexample needs no
proof).  No proof needs what a recursive definition computes: the one sum, of an
exposure, is a fold of the community modules, and what is needed of it is proved
as said above.

## Not modelled

Tracing (`_maybe_span`, `_set_attrs`) has no effect on a decision.  The text of
reasons and of JSON, the schema version and the key checks of `from_json` are
left out: a snapshot is only read back by the code that wrote it.  Constructor
checks are the `ASSUME`s; a cooldown that is NaN or infinite, which the
constructor lets through, is outside them.  An infinity behaves as NaN does in
all gates but the cluster cap, and is left out of them; the loader and
`kelly_fraction` have both.  The binary rounding of floats is not modelled.  Of the
loader, what raises before a field is read (a missing file, a YAML syntax error)
and the warning about unknown keys are left out; of a receipt, its hashes.
`PaperExecutionAdapter` is two methods without state, of which one always raises,
and the benchmark measures percentiles: neither is part of a decision.

## Plan

The parts of the library that decide, record or deliver are modelled: the
stateful core, the chain and the desk around it, the reports, the emitter, the
provider and the configuration.  What could be added:

1. The steps under the liveness properties that are within reach of a proof: that a
   check after the cooldown clears the breaker, and a variant of the retry loop.
2. The keys of `from_json` and a snapshot of an older schema, should the library
   come to read snapshots that another version wrote.
