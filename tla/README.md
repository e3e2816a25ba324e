# Verification of infra-lab

TLA+ models of the programs in this repository, the TLC configurations that
check them, and TLAPS proofs about them.

infra-lab is an AWS landing zone described in Terraform, with a handful of
programs that run in it. The Terraform is static; the programs are where
something can happen in an order nobody planned, so the models are of the
programs: the paper trading runner, the desktop provisioner, the life of the
shared MemPalace stack, the scripts that copy its contents, and the validator
that gates work on the foundation.

Run `tlc -config <cfg> <module>` and `tlapm <module>_proofs.tla` in this
directory. `PROJECT.json` lists the runs, the source lines behind every
definition, the hazards and the mutants that show each property can fail.

## 1. The system

| Part | State | Operations | Talks to | What is hard | Correct when |
|---|---|---|---|---|---|
| Run lock (`alpaca_trader/store.py`) | one S3 object with a holder and an expiry | acquire (put, read, delete, put), release (read, delete) | S3; called by `handler._run` | requests of several runs interleave; runs are killed; requests are repeated by the client | one run works at a time; a dead run's lock is taken after its expiry; a run deletes only its own lock |
| Trading day (`tools.py`, `store.py`, `alpaca_api.py`, `handler._flatten`) | the day's journal in S3, orders and positions at the broker | place a bracket, move a stop, close, flatten | S3, the broker, the lock | journal by read-modify-write, several reads judged together, answers lost or unreadable, cancels refused or pending, the broker acts by itself | limits per run and day and on positions hold, or what exceeds them can be told from the journal; what was done is announced first; flat means flat |
| Guardrails (`guardrails.py`) | none | load limits, size and judge an entry, judge a stop | called by the tools | floats; judged first, rounded after | risk and size stay in budget, stops only tighten |
| Agent loop (`agent.py`) | the conversation | turns, tool calls, caps, cache points | Bedrock | long sequences of turns | requests are well formed and caps hold |
| Run lifecycle (`handler.py`, `notify.py`) | one invocation | checks, lock, work, report, alert, release | all of the above | which failure is told to whom; deliveries that fail or are not confirmed | a report arrives; failures alert, as far as the code goes; the lock goes back |
| Desktop provisioner (`desktop_provisioner.py`) | records in DynamoDB, EC2 instances and volumes, a security group | launch, start, resume | AWS; the idle check stops desktops (`idle_check.sh`) | many calls, any of which can fail, and nothing is undone; users who do not wait for the answer | a record leads to a whole desktop of its user; a desktop too many has a failure or an overlap behind it |
| MemPalace stack (`mempalace-toggle.yml`, `mempalace-idle-teardown.yml`, the wake and trigger Lambdas) | ALB, web ACL, two services, the Terraform state and its lock, queued workflow runs | wake, check, up, down | GitHub, CloudWatch | verdicts executed later than judged; a queue that keeps one waiting run; Terraform runs that stop half way or leave the state locked | up in the protected window, down when unused |
| RDS auto-stop (`rds_auto_stop.py`) | an SSM flag, the clusters | stop | RDS | a stop refused is never asked again | enabled: no cluster stays up |
| Wing backup and migration (`scripts/mempalace_*.py`) | two files, a remote palace, another palace | list, fetch, write, replay | an MCP server, through `_rpc` and its retries | paging by offset while drawers change; answers lost, errors answered as results; a pair of files | what was there is copied or named in a warning; the files agree; the listing ends |
| Foundation validator (`scripts/validate_foundation.py`) | a list of results | one `check_` function after the other | the repository, AWS, terraform and pre-commit | checks that depend on the answers of earlier ones, early returns, severities | exit 0 leaves no control unjudged, exit 1 has a cause |
| Job queues and state machine (`orchestration.tf`) | queues | none in this repository | workers elsewhere | redelivery | - |
| Operator scripts, CI, Terraform modules, documentation site | none | read-only or declarative | - | - | - |

The trading parts form one system. EventBridge invokes `handler.handler` six
times a day (slots 1 to 6). `_run` checks that the day is one to trade, loads
the limits (Guardrails), takes the run lock, and either flattens (slot 5) or
runs the agent loop, whose tools judge each order against the limits and write
the journal around every call to the broker. The desktop provisioner, the
MemPalace stack, its scripts and the validator are separate systems that share
nothing with it and, but for the palace the scripts read, nothing with each
other.

## 2. The modules

| Module | Models | Relation to the others |
|---|---|---|
| `Mutex` | what a run lock promises | the abstract specification |
| `RunLock` | `acquire_lock`, `release_lock`, request by request | implements `Mutex` (run `runlock_safe`, theorem `Refinement`) |
| `RunLock_proofs` | proofs about `RunLock` | |
| `EntryRules` | what the guardrails promise of a day's entries, as if judging and sending were one step | the abstract specification |
| `TradingDay` | a day of agent runs and the flatten run, call by call | its lock is an instance of `Mutex`; implements `EntryRules` (run `trading_limits`, theorem `Refines`) |
| `TradingDay_proofs` | proofs about `TradingDay` | |
| `Guardrails` | limits, sizes, prices and stops | `TradingDay`'s `Allowed` judges counts, `Guardrails` judges prices |
| `Guardrails_proofs` | proofs about `Guardrails` | |
| `AgentRun` | one invocation from event to result | its tools are `TradingDay`'s actions, its lock `RunLock`'s, seen from inside one run |
| `AgentRun_proofs` | proofs about `AgentRun` | |
| `DesktopProvisioner` | `POST /desktops`, the instances and the idle check | |
| `DesktopProvisioner_proofs` | proofs about `DesktopProvisioner` | |
| `MempalaceStack` | the stack and those who wake it or take it down | |
| `MempalaceStack_proofs` | proofs about `MempalaceStack` | |
| `WingCopy` | the backup and the migration script beside the users of the palace | |
| `WingCopy_proofs` | proofs about `WingCopy` | |
| `FoundationValidator` | `validate_foundation.py` | |
| `FoundationValidator_proofs` | proofs about `FoundationValidator` | |
| `MCTradingDay`, `MCGuardrails`, `MCDesktopProvisioner`, `MCWingCopy` | symmetry, and values for TLC | |

### RunLock

`lock` is the S3 object, named by the run whose body it holds; `ttl[r]` is the
time left until the `expires_at` of that body, computed once before the loop of
two attempts; `left[r]` the time until Lambda kills the run. One action per S3
request: `PutOk`, `PutConflict` (put_object with IfNoneMatch), `ReadHeld`,
`ReadStale` (get_object and the comparison), `Steal` (delete_object and the
next turn of the loop), `ReleaseRead`, `ReleaseDelete`. `PutLost` and
`StealLost` are requests that took effect and whose answer was lost, which
botocore sends again. `Kill` may strike between any two requests, and `Tick`
does not let a run outlive its timeout. A run whose put was carried out and whose
answer was lost meets its own object when the put is repeated, and is refused by
it (`Orphaned`): the object then stays until it expires and nobody works.
`StaleLockIsTaken` therefore asks for a run at work, and names this as the one
way, beside its end, in which a contender for a stale lock does not come to it.
Runs have one clock: skew between
Lambda hosts is not modelled, nor is a repeated delete in the release.

### TradingDay

`order` is the broker's view of every client order id: a `working` entry, an
`open` position with its stop, a `bare` one without, one being liquidated
(`closing`), `closed`. `journal` is the object in S3. An append is `JournalGet`
then `JournalPut`, with anything in between. An agent run's place order is
`ReadPositions`, `ReadOrders`, `Judge` or `Reject`, the append of the intent,
one of the `Submit...` outcomes, and the append of the result; `CloseIntent` to
`CloseFailed` is `close_position`; `Adjust` stands for the guarded tools that
take no position (a stop move, a saved piece of evidence) but count as an
intent of the day. `FlattenStart` to `FlattenGivesUp` is `_flatten`, with its
`Polls` rounds of close and look. The broker fills (`Fill`), expires
(`EntryDies`), stops out (`Exit`) and liquidates on its own. `Abort` is an
exception that ends the run; `Kill` also releases the lock, standing for its
expiry.

A request has three ends. It is done and answered; it is not done, which a tool
journals or `CallFails` hands to the model; or it is done and the answer is an
error or unreadable (`AnswerLost`). An answer that is no JSON raises a
`ValueError` (`alpaca_api.py`) past the `except AlpacaError` of the tool, and
`Toolbox.call` takes it for bad arguments: the run goes on and the journal has no
outcome. So a missing result says nothing of what the broker did, and an error
line need not be there; what can be relied on is that the intent is there and a
result is not. That is what `ExcessIsUnresolved` and `UnprotectedIsReported` say:
an entry beyond the limit of a run, and a position without its stop, show as an
attempt that was announced and not finished. Which of "rejected", "error" and
"run_summary" a line is, nothing depends on: they are one kind (`Remark`).

Each bulk request of the flatten run keeps any of the orders it should cancel
(`CancelAllBut`): Alpaca answers for each order, a cancel may be refused or stay
pending, and `_flatten` looks at none of the answers. What keeps its stop is not
liquidated. The flat verdict looks at positions only, so an entry still at work
then may fill afterwards: `FlatMeansFlat` says that nothing else can. In
`close_position` the legs of an entry are read with it and cancelled even if it
fills in between (`Meets`: "held" is active for `_active_orders`). Cancels of single orders are done or refused, never pending, and a liquidation
that the broker accepted is not dropped by it later.

Four constants name what the
environment may do, so that each property is stated under the assumptions it
needs: `Overlap`, `FillsInRead`, `LostAnswers`, `Crashes`.

`EntryRules` is what a reader of `evaluate_entry` expects: an entry reaches the
broker at a moment at which the run, the day, the number of positions and the
symbol all leave room for it. The tools judge on reads of several calls and send
after two more, so that this is a claim about every order of those calls
(`RefinesRules`). Where its assumptions fail, `FillsBounded` says what is left of
it (`WorkingBounded` is the part a run of TLC can break): an entry that fills
between the two reads of a run is seen by neither, and the worst that comes of it is
twice the positions and two entries in a symbol.

### Guardrails

Prices are in mills as the model asks and in cents as the broker gets them, so
that rounding is visible. Python computes in floats: the model is exact and
leaves open whatever a last bit decides, a price half way between two cents, a
comparison of equal amounts, and the floor of a whole quotient, which can come
out one share short and never one over. `Load` is `from_dict` with its sane
bounds, `Place` the checks of an entry, the size and the rounded bracket,
`MoveStop` a stop judged as asked and sent rounded. A missing or non-numeric
limit is -1, out of every bound. Limits on traded volume and the forms of
symbols are left out.

### AgentRun

`pc` follows one invocation. `messages` holds of each message its role, how
many tool uses or results it has and whether it carries a cache point; `turn`
and `cost` are the capped counters. `BadEvent` to `Started` are the checks of
`_run`, `Converse`, `Finish`, `UseTool`, `SendReport` and `Results` the loop of
`run_agent`, `Summary`, `Report` and `Release` what follows. `Caught` and
`CaughtTwice` are the except clause when the journal write in it succeeds and
when it fails too; `StartupFails` and `StartupCrashes` the exceptions that
`handler` catches and does not. The model may send any number of reports, each of
which arrives and is confirmed, arrives with its answer lost, or does not arrive
(`Deliver`): `arrived` counts the reports on the phone, `sent` is what the run
knows. Of the fallback report and of alerts nobody reads the answer, so they are
attempts: `ReportArrives` cannot promise that the fallback arrives.

### DesktopProvisioner

One action per AWS call of `handler`, for several invocations at once.
`record` is the USER# item (`Partial` when it lacks its `instance_id`), `since`
the age of the RATELIMIT# items, `state`, `owner` and `volume` what EC2 knows,
`ingress` the security group. `Dies` ends an invocation anywhere (a call that
raises, the Lambda timeout), `Lookup` and `Describe` swallow errors as the code
does, `AddDuplicate` is the rule EC2 refuses because another request has just
added it, `UpdateItem` the call that would create the record it
updates. `Lookup` is a read that may also miss what has just been written (it is not
a consistent one), which is charged like a failed read; a rate limit that cannot be
read lets the request pass. `Interrupt` is a spot interruption, `IdleStop` the idle check.

API Gateway gives up after 29 seconds while a launch may take longer, so a user
may ask again before the first answer, and nothing in the code guards against
it: `Post` counts such requests in `overlaps`, and the properties charge them.
With one overlap TLC finds two desktops of one user, of which the later record
hides the first, and a record without `instance_id` (the record deleted by one
request while another waits for its address), after which every request of that
user raises `KeyError`. The API key check, the stored Claude key, the user data
script and the read-only GET are left out.

### MempalaceStack

`alb` is the age of the load balancer, `parts` what else is there that costs money
(the web ACL and the two services), `quiet` the time since the last traffic. A
check reads the window, the ALB, and the two groups one after the other; its
verdict goes to the toggle's concurrency group, of which `running` and `pending`
are the two places: a newer run replaces the waiting one. A failing CloudWatch query counts
as idle.

A Terraform run that ends badly (`Breaks`) leaves any of the ALB and `parts` done
or not (`Halfway`): the service depends on its target group and mount targets and
the ACL on nothing, so neither comes before or after the ALB. `whole` tells whether
the last run that worked on the state ended well. If it was killed, the state
stays locked (`stuck`) and every later run fails before it has done anything
(`LockedOut`) until somebody unlocks it (`Unlock`). Checks look at the ALB, so a
service without an ALB is never found, nor is an ALB without its service or ACL:
`LeftOver` proves that only a run that ended badly leaves either.

### WingCopy

Both scripts are one module: they share `_rpc` and the listing. A run goes
through `GetWings`, `NextWing` and `ListPage`, then `FetchDrawer` for each
drawer (backup) or `GetDrawer` and `AddDrawer` (migration). `ids` is what was
listed of the wing at hand; the offset of the next page is its length, as in the
code. A request that fails is repeated (`Retry`, counted in `attempt`) until
the last attempt, and then what the caller does follows: `SkipWing` and
`SkipDrawer` warn and go on, `CountError` counts, `GiveUp` ends the run. A
request whose answer is lost may have been carried out (`MaybeAdded`).
`DrawerGone` is the `KeyError` of a drawer deleted after it was listed, where
the backup saves an answer without content. A request that a tool answers with an
error is a result for `_rpc`, and the scripts read in it what is not there
(`Refused`): no wings, a last page, a drawer without content, an addition. `disk` is the snapshot: each file is
truncated, then filled, and a run may be killed between any two of the four
steps. `Add` and `Delete` are the users of the palace, at any place of the
listing. `env` counts what the properties charge: runs, faults, writes, whether a
tool answered with an error, what was there when the run began, and what was added to or deleted from a wing
while it was being listed.

### FoundationValidator

`wrong` is the set of controls that do not hold and `refused` the set of AWS
queries that fail, both any set up to a size and fixed for a run; one action per
`check_` function adds its results, in `main`'s order (`step` is the place in
`Checks`, between what `skip` leaves) and with the early returns and the
severities of the code. `rootId` and `ouMap` are what later checks get
from earlier ones. Contents of files and answers are abstracted to whether a
control holds; a public access block without any setting, of which the code says
that all of them are on, counts as one that holds. Modelling it turned up some facts that the properties carry as
exceptions: an unreadable replication setting or landing zone and policy
attachments that do not match only warn, so the exit code is 0; a program that is
missing is recorded by the first check and raises in a later one, as does a
missing `infra` directory, so that the report which names it is never printed; and
with both `--skip` flags the report fails on the `max` of nothing. A repository
root that does not exist (exit 2 before any check) is left out.

## 3. The runs

| Run | Question | Bounds, and why they are enough |
|---|---|---|
| `runlock_safe` | Exclusion, ownership, refusals, liveness of stealing, and refinement of `Mutex` | three runs (holder, contender, flattener), TTL 3 over timeout 2: each run can die and be stolen from |
| `runlock_overlap` | violation: exclusion when two runs are inside `acquire_lock` at once | as above |
| `trading_limits` | all limits on entries as one step (refinement of `EntryRules`), the flatten run decides | two agent runs so that runs follow each other, two symbols, one position, three tool calls: one above what every limit admits |
| `trading_crash` | write-ahead journal, day limit, entries at work, what exceeds the limit of a run, unfinished attempts behind bare positions, an append-only journal, flat means flat, with kills, exceptions, lost and unreadable answers, refused and pending cancels and fills anywhere | one agent run and the flattener; three symbols for a day limit of two and a run limit of one, so that a lost answer can exceed the latter; one position, so that a fill between reads opens a second. Exposure beyond twice the positions and a third entry are out of reach of a day of two entries: the theorem `Fills` proves them impossible, and no run checks them |
| `trading_overlap` | violation: write-ahead when slot 5 starts under an agent run | one call suffices |
| `trading_fills` | violation: position limit when an entry fills between two reads | two calls suffice |
| `agent_run` | cache points, message form, caps, an end, reports that arrive, alerts, lock | the four kinds of slot (0 is an event without one), four turns (a cap, and three messages for the moving point), cost cap met exactly and exceeded |
| `guardrails` | sizes, risk, sane exposure, order of a bracket, ratchet | limits at and beyond their bounds, prices on, between and half way between cents |
| `desktops` | records lead to whole desktops; every desktop too many is accounted for | two users with three requests on one address, of which one may overlap; three instances, so that each request can launch; one failure per user |
| `stack_idle` | the stack is up in the window and down when unused; verdicts that outlive their window run out | two checks side by side, every age and silence the code tells apart, two toggles by people, one failing query, one Terraform run that ends badly, at any point and with or without the state locked |
| `wing_copy` | nothing lost but by a deletion while listing, nothing doubled but by an addition, files that agree, runs that come nearer their end with every step and reach it | a wing of two drawers over pages of one, one that is empty at first, an excluded one of one drawer; two runs, so that one follows a dead one; two attempts, two failures or error answers, two writes: the fewest that carry the offset past the total |
| `foundation` | exit 0 is sound, exit 1 has a cause, the report is reached | two of everything there are many of, every world with up to two wrong controls or failing queries: one to end a check early, one to hide behind it |

Deadlock checking is off where the system stops: a trading day ends, an
invocation returns, requests run out. Symmetry is used only in runs without
liveness (symbols, requests, users).

What a theorem states for all values and another property of the same run implies
is not checked a second time: the type invariants, `ReleaseOwnOnly` beside
`HolderOwnsObject` and `RefinesMutex`, and `RunLimit`, `PositionLimit` and
`OneEntryPerSymbol` beside `RefinesRules`, whose guards they are. They stay
properties of their modules because each theorem about them needs less than the
refinement does (section 4).

### Bounds on counters

`MaxCalls`, `Polls` (TradingDay), `MaxTurns`, `MaxUses` (AgentRun), `MaxInst`,
`MaxFaults`, `MaxOverlaps` (DesktopProvisioner), `MaxManual`, `MaxFaults`
(MempalaceStack), `MaxRuns`, `MaxFaults`, `MaxWrites` (WingCopy), `MaxWrong`
(FoundationValidator). `Polls` and `MaxTurns` are the code's own; the others
only keep the state space finite. Clocks saturate at the last value the code
tells apart (`Window`, `Grace`, `TTL`, `RateLimit`). The scripts list 100 drawers
a page and try three times; the instance has pages of one and two attempts, so
that a wing of two drawers spans pages and a request is both repeated and
given up.

### Fairness

- `RunLock`: a run that is not killed takes its next step; Lambda schedules it.
  Runs need not start, time need not pass.
- `TradingDay`: the flatten run, unless killed, takes its next step. Nothing is
  assumed of the broker: it may never fill or liquidate.
- `MempalaceStack`: time passes; checks start again and again (EventBridge every
  15 minutes, with retries, beside GitHub's cron) and each goes on; GitHub
  carries out what is queued. Nothing is assumed of people, and failures are
  finitely many (`MaxFaults`).
- `WingCopy`: a script that is running takes its next step (one process, no
  waiting but for requests that time out). `RunEnds` needs the users' writes to be
  finitely many (`MaxWrites`): the listing follows a total that changes.

### What the violations show

1. **Two holders** (`runlock_overlap`). Two runs that both read an expired lock
   both delete it; the second delete hits the lock the first has just taken.
   The lock excludes runs only if no two are inside `acquire_lock` at the same
   time, which the schedule makes likely and nothing ensures.
2. **A lost intent** (`trading_overlap`). Slot 5 goes on without the lock, and
   `append_jsonl` says that its callers hold it: a read-modify-write of one run
   overwrites the line of the other, and with it the announcement of an order
   at the broker.
3. **A position too many** (`trading_fills`). Positions are read before orders;
   an entry that fills in between is in neither set.

More disagreements that the models have and no run states:

- **Failures that nobody hears of.** `alpaca_trading.tf:154` says that the handler
  "catches every failure, alerts the phone and returns normally". Silent are a bad
  event, a startup failure whose alert fails too (`handler.py:254-264` returns all
  the same), a ClientError of S3 or Secrets Manager before the lock or in the journal
  write that precedes the alert, which leaves `handler`, and a killed run. An alert
  is an attempt: nobody reads whether it was delivered, nor whether the fallback
  report was (`handler.py:131`). `FailureAlerts` says what is left.
- **Outcomes that are not on the journal.** A broker's answer that cannot be read is
  handed to the model as bad arguments (`tools.py:658-659`), after the order was
  placed or the stop cancelled, and no line says so.
- **"Verify flat"** (`handler.py:94`) looks at positions and at no answer to the
  cancels: an entry still at work may fill after the verdict.
- **"Up for this entire window"** (ADR-034:817-819; "the guaranteed uptime",
  `mempalace-idle-teardown.yml:153-161`). A verdict judged before the window is
  carried out inside it, and a failed apply that got as far as the ALB passes for a
  stack that is up. `StaysUp` says what the workflow does reach, and `VerdictsRunOut`
  how often the stack may go down in the window.
- **Leftovers.** After a destroy that stopped once the ALB was gone, no check looks
  for the rest, and a state lock left by a killed run fails every later run.
- **"Full verbatim content"** of whatever was not excluded (the backup), and a
  migration that exits 0: an error answered by a tool is an empty snapshot
  (`mempalace_remote_backup.py:105-107`), the end of a listing (119-121) or an empty
  document (130-134), and counts as an addition (`mempalace_migrate_wing.py:127-131`),
  each without a warning.
- The desktop runbook says that the next launch reattaches a user's data volume, where
  `launch_new_instance` always creates an empty one (`CreateVolume`).

### Conditions of what holds

Each of these is an assumption of the property, found by TLC to be needed:

- `RunLimit` needs `~LostAnswers`: an accepted order answered with an error, or with
  something unreadable, is not counted in `orders_run`. `ExcessIsUnresolved` does not,
  and says what the excess is. `DayLimit` counts intents and does not need it either.
- `PositionLimit` and `OneEntryPerSymbol` need `~FillsInRead`.
- `WriteAhead`, `JournalKept`, `DayLimit`, `FlatMeansFlat`, `ExcessIsUnresolved` and
  `UnprotectedIsReported` need `~Overlap`, and only that.
- `FlatMeansFlat` excepts the entries still at work at the moment of the verdict.
- `MutualExclusion` needs `~Overlap` (of `RunLock`) and TTL above the timeout,
  which `alpaca_trading.tf` gives (900 and 600 seconds).
- `StaleLockIsTaken` excepts a run killed, and one refused by the object of its own
  put, which needs a lost answer.
- `ReportArrives` takes a confirmed delivery for one that arrived, and a fallback for
  a report; a report that arrived unconfirmed may be doubled.
- `OneDesktop` and `NoOrphans` allow one desktop too many per failure or
  overlapping request of the user. A failing call between launch and record
  leaves a desktop nobody knows of, and the code has no collector.
- `RecordSound` admits a record without instance only after an overlap.
- `LossBounded` admits one lost drawer per deletion from a wing while it is
  being listed, and promises nothing of a run that got an error answer of a tool;
  `RecordsFaithful` admits one repetition per addition. No drawer is added again under
  its old id during the run that has listed it.
- `PassIsSound` excepts what the validator itself only advises and the two
  queries whose failure only warns.
- `StaysUp` and `GoesDown` need that the state does not stay locked, and promise the
  service, the web ACL and their end only if the last Terraform run ended well.
- `StaysUp` is an eventual promise. A verdict judged before the window may
  still take the stack down inside it; the checks bring it back, and
  `VerdictsRunOut` says that it happens at most once for each check and toggle
  run that was under way, unless people ask for more.
- `WorkingBounded` and `FillsBounded` need nothing. `RefinesRules` needs what its parts need:
  `~Overlap`, `~FillsInRead` and `~LostAnswers`.

The desktop rate limit is 60 seconds in `api.tf`, where the provisioner's
docstring says three minutes; the model has it as a parameter.

## 4. Proofs

`RunLock_proofs` proves, for any set of runs, any TTL above the timeout and any
repeated requests, every safety property of `RunLock`, from one
assumption beyond those of the module: `Quiet`, that is `~Overlap`, two runs
are not inside `acquire_lock` at once. (`Overlap` is what `runlock_overlap`
refutes, so the assumption is needed.) The types (`Types`) and that a run takes
at most eight steps (`Countdown`) need no such assumption.

Exclusion is not inductive: what forbids a contender to delete a live lock is
that what it saw stale is still stale. The invariant therefore says that a
holder owns the object and the object outlives it (`HolderOwnsObject`), that a
contender's body has a fresh expiry (`FreshBody`), that there is one contender
(`OneContender`), and that whoever is about to steal finds the lock still stale
or gone (`StealsStale`). `Invariance` proves it action by action; `Exclusion`,
`Ownership`, `OwnRelease` and `Refinement` follow; `Refusal` needs in addition
that a run on its second attempt cannot fail by its own fault (`SecondTry`), and
so does `Chance`: a run that contends for a lock nobody holds keeps doing so until
it works under it, is killed, or is refused by the object of its own put.

`Guardrails_proofs` proves every property of `Guardrails` for all
configs, prices, equities and times. It rests on lemmas about the arithmetic:
division rounds down (`DivFloor`), rounding to cents is monotone and within
half a cent (`CentsRange`, `CentsOrder`, `CentsAbove`), the two candidates of a
floor never exceed the quotient (`FloorRange`), hence the size lies within both
budgets (`SizeRange`). The inductive invariant is `TypeOK`, `LargestSize`,
`RiskBound` and `Sized`, which adds that the bracket was sized from limits
inside their bounds, for a stop under the entry, and that the rounded entry is
near the one it was sized for. Risk at the stop is inherited through stop moves
because the stop only rises; `SaneExposure` follows from the bounds.

`AgentRun_proofs` proves every property of the run `agent_run` for all slots,
caps and costs, without further assumptions. The inductive invariant has a part
per concern: the shape of the conversation at each place of the loop, from which
`RollingPoint` and `WellFormedRequest` follow (`Conversation`), turns and cost
against their caps (`Spending`), what has been reported (`Telling`) and announced
(`Alerting`) by the time each place is reached, and who holds the lock (`Locking`).
With the types it bounds what is left of an invocation, turns first and the tool
uses of a turn second, and every step uses that up (`Ends`).

`TradingDay_proofs` proves every safety property of the three runs of
`TradingDay`, each from the weakest assumption TLC let stand.

| Theorem | Property | Assumes |
|---|---|---|
| `Types`, `Planning` | types; an act at the broker comes right after its own intent | nothing |
| `Fills` | `WorkingBounded`, `FillsBounded` | nothing |
| `Countdown` | the flatten run decides after at most five calls and two per poll | nothing |
| `PerRun` | `RunLimit` | `~LostAnswers` |
| `AppendOnly`, `Ahead`, `Flat`, `PerDay` | `JournalKept`, `WriteAhead`, `FlatMeansFlat`, `DayLimit` | `~Overlap` |
| `Excess`, `Reported` | `ExcessIsUnresolved`, `UnprotectedIsReported` | `~Overlap` |
| `Positions`, `OneEntry` | `PositionLimit`, `OneEntryPerSymbol` | `~FillsInRead` |
| `Refines` | `RefinesRules` | `~Overlap`, `~FillsInRead`, `~LostAnswers` |

The argument starts from `Plans`: between the announcement of a line and the
step it announces nothing but that process moves it. Without overlap one process
is inside an append at a time (`Alone`) and the `base` it read is the whole
journal (`Base`), so appends extend it. Then each order that left "absent" has
its intent (`WriteAhead`) and, intents being counted, the day's limit follows.
Positions are different: they need only that agent runs exclude one another
(`AgentsAlone`), that what a run has read covers what is exposed, and that a run
about to submit has room for it (`Room`), and so hold beside a flatten run that
has no lock. With fills between reads the same account is kept of what works
and, separately, of what is held: each is within the limit when a run submits,
whence twice the limit and two entries in a symbol (`Fills`). That the limits
hold together at the moment of the submission, and that no other step enters
anything, is `Refines`. `Excess` compares two
accounts: whatever a run placed was announced (`Recorded`), and each result it
announces was counted (`Confirming`), so that the entries beyond the count have no
result. `Reported` follows an attempt from its intent: while a run closes a symbol
or flattens, the attempt is unfinished (`Attempting`, `Closing`), a stop goes away
only under such an attempt, and its result is appended only when the position is being
liquidated.

`DesktopProvisioner_proofs` proves every property of the run `desktops` for any
users, requests and instances, with failures and overlaps, without assumptions.
`RecordSound` follows from what a request has launched being known to nobody
else until it is recorded (`Private`), a volume being attached to a desktop of
its user only (`Attached`), and requests of one user that did not overlap being
one at a time (`Alone`), which is what excludes a record without an instance.
`NoOrphans` and `OneDesktop` count, and neither is inductive: a request on its way
to a launch has caused no desktop yet but can no longer be stopped. The invariant
is an account for each user (`Account`): orphaned desktops and requests at work
together are at most the failures, the overlaps and one `Grant`. A user has the
grant while a request is at work and either no desktop is on record or some
request is not on its way to a launch and none is about to delete a record
(`Covered`). Each action keeps the account in a way of its own: a failure pays
for the grant it costs (`Pays`), a request that ends settles for what it leaves
behind (`Fails`, `Replaces`), a deleted record turns a request's charge into an
orphan (`Uncovers`), an interruption removes the orphan it uncovers (`Lost`).

`FoundationValidator_proofs` proves every property of the run `foundation` for
all modules, roots, regions and units and any number of wrong controls and
failing queries. Every check has a lemma saying that what it adds contains a
failure if one of its controls is bad, and none if the foundation is sound
(`Finds`). The invariant sums them: whatever was bad in a check that ran has been
reported (`Reported`), and a root that was not found has been reported too
(`Rooted`), which is why the checks that need the root may be left out.

`WingCopy_proofs` proves the types and every safety property of the run
`wing_copy` for any wings, page size, retries, error answers, deaths and writes of
users. The
types need that removals and insertions at any place keep the drawers of a wing
distinct; `ManifestLast` that the drawers file holds what the run has from its
closing to the end of the run (`Paired`). The other two are accounts of the
offset. `LossBounded` is about a run that ended without an
error answer; its invariant (`LossInv`) says of a run under way which drawers are lost already (`Lost`): those of a listed place
of a wing at hand or done (`Passed`) that are neither copied, nor warned of, nor
in the list still to be dealt with (`Pending`). A page moves drawers into that
list as it passes them, each step that takes one out copies it or warns of it,
and a deletion under the listing adds at most the drawer that slides before the
offset, which it pays for. `RecordsFaithful` has the opposite account
(`Tallied`): a drawer can be recorded twice only if it is already in hand and still
`Ahead` of the listing, and an addition under the listing puts at most one there.
It needs that no drawer is in two wings (`Apart`), assumed of the first state
(`DrawerAssumption`: a drawer has one wing) and kept by every change. `Nearer`
assumes finitely many wings and measures a run by the stages before it, the
places left in the stage at hand and the attempts left to its request: every
step lowers the first of these that it changes, because a page that does not end
the listing brings drawers and stays below the total, and a user puts the end
off by one place for each drawer added to the wing being listed.

`MempalaceStack_proofs` proves its types, which say that no toggle run waits while
none runs; that only a Terraform run that ended badly leaves a part of the stack
without the rest (`LeftOver`); and `VerdictsRunOut` for any finite number of checks. The count is of the checks that may still decide
against the window and of the toggle runs that still would act against it: a
verdict is one of the first less and at most one of the second more, and a newer
run takes a waiting one's place. It needs that only a check which read that the
window is closed goes on to judge (`Judging`).

Liveness under fairness (`StaleLockIsTaken`, `FlattenDecides`, `StaysUp`,
`GoesDown`, `RunEnds`) is only model-checked: it is out of the prover's reach, as
ENABLED is. What each of them rests on besides fairness is proved: that the steps
of a run are numbered (`Countdown` of the lock and of the flatten run, `Ends`,
`Nearer`), that a chance is not lost (`Chance`), that verdicts are not renewed
(`RunOut`). What remains to TLC is that a step is enabled until it is taken, and
for `StaysUp` and `GoesDown` also that a check started often enough reaches the
verdict they need. Induction over data and RECURSIVE operators are out of reach
as well; the modules use neither.

## 5. The plan

Written in order of what can cost most: lock, trading day, agent run,
guardrails, desktops, stack, then the two scripts that copy wings and the
validator, then the proofs. Every safety property and every refinement of every
passing run is a theorem, and so is the safety half of its liveness. What is left
are details the hazards list without a property:

1. The release of the run lock with a delete that the S3 client repeats after the
   next run has taken the lock.
2. The limit of rules of the desktops' security group.
3. The state file of the desktop idle check: its minutes of silence.

## 6. What is not modelled

- The job queues and the state machine: no worker and no producer of theirs is
  in the repository, so there is no code to be faithful to.
- `rds_auto_stop.py`: one stateless call per start event. Its properties would
  restate its guards; what can go wrong in it (a refused stop that nobody asks
  again, a flag that cannot be read) is something it leaves out, listed under
  the hazards.
- The operator scripts wrap single calls; CI workflows keep no state; Terraform
  modules and web pages have no behaviour of their own.
- Within modelled parts: texts of reports and prompts, market data tools, dry
  runs of the trading tools (isolated state, no broker calls), token prices
  beyond one cost per turn, the stored Claude key and user data of a desktop,
  the state file of its idle check, credentials, IAM and networking. The limit
  of rules of the security group is one of the failures a request may die of.
