# DQ Sentinel: a TLA+ verification project

DQ Sentinel watches Fivetran connections: it scans them, runs data-quality
checks in BigQuery, asks a language model for a diagnosis and a remediation,
puts the remediation to a human, sends the approved write to Fivetran through
an MCP server, waits for the sync it triggers and re-runs the failed checks. The
modules here model that control flow from the source under `src/`; paths below
are relative to `src/`, and `loop.py`, `act.py`, `verify.py`, `diagnose.py` and
`bq.py` are in `dq_sentinel/`, `runs.py`, `api.py`, `store.py` and `app.py` in
`dq_sentinel/web/`.

## 1. Inventory

| Component | State | Operations | Interacts with |
|---|---|---|---|
| Remediation vocabulary (`diagnose.py`, `act.py`) | none | `validate_payload`, `_request_body`, `planned_call` | called by the loop and by act |
| Agent loop (`loop.py`) | the locals of one `run_loop` coroutine, its report | scan, detect, list tables, baselines, inspect, diagnose with retries, gate, act, verify | awaits Fivetran (MCP), BigQuery (threads), the model, the approval callback |
| Act (`act.py`) | none | one write in a write-enabled MCP session | awaited by the loop |
| Verify (`verify.py`) | poll counter, clock, the two markers read before the write | `poll_until_synced`, `rerun_failed_checks` | Fivetran connection details, `bq.rerun` |
| Diagnose (`diagnose.py`) | none | one model answer per call | the model (ADK runner) |
| Run engine (`runs.py`) | `RUNS` of `RunHandle` (status, proposal, future, `decision_submitted`) | `start_run`, `_drive`, progress and approval callbacks, `submit_decision`, `_safe_set_result`, `sweep_orphans` | drives the loop, writes the store, is called by the API |
| Job API (`api.py`) | none of its own | `POST /api/runs` with the cap, `POST .../decision`, snapshots | run engine, Fivetran scan |
| Store (`store.py`) | `_STATE`, `_HISTORY`, in memory | `set_state`, `append_history`, reads | run engine, views |
| App lifespan (`app.py`) | the process | startup sweep, cancel and drain at shutdown | run engine |
| Data-quality checks (`bq.py`) | append-only baselines table | seed, four checks, rerun | BigQuery; called by the loop and by verify |
| Browser client (`web/templates/index.html`) | run id, `submitting`, the edited targets | start, poll, approve, modify, reject | Job API over HTTP |
| MCP client, configuration, chat agent, views, scripts | connections, constants | I/O | external services |

What is hard here:

* **Ordering at the gate.** A run passes the gate up to twice, with a rejection
  or a refused edit and a new diagnosis in between; the decision is posted by one
  task, scheduled on the event loop, and picked up by another. The write must
  be the one the last decision answered.
* **State read before an await and used after it.** The table list is read before
  the human wait and bounds the edit after it; the run cap is read before the
  connection scan and used after it.
* **Partial failure.** Any await may raise. Before the write that is harmless;
  after it the report that knew of the write is dropped.
* **Process loss.** Everything is in memory, and the write is not.
* **Timeouts and retries.** The sync poll ends on a marker or on a clock; the
  diagnosis is retried a bounded number of times, twice.
* **Threads.** The run engine means to be right when decisions come from other
  threads too; its tests and its latch are separate accesses to shared state.
* **A browser that knows less than it shows.** The page polls without waiting for
  the last answer, re-renders every second, and posts a decision that names the run
  but not the gate entry it answers.
* **Markers that several writers move.** Scheduled syncs, the run's own sync and
  those of other runs all move the same two timestamps.

What makes each part correct, and where it is stated:

| Component | Correct when | Stated as |
|---|---|---|
| Vocabulary, agent loop, act | the one write is the last decision's, in scope; resolved means re-run and passed; the model is asked a bounded number of times | `WriteIsTheOneAnswered`, `NoUnscopedResync`, `ResolvedIsVerified`, `PromptBudget`, `ReportTellsOfWrites`, `GateKept`, `OnlyHumansStallRuns` |
| Verify | a result is that of a sync that ended while the run waited, a failure is not hidden, the wait ends in time | `ResultIsNew`, `FailureIsNotMasked`, `TimedOutMissedNothing`, `WaitKept` |
| Run engine, job API, store, lifespan | a gate takes one decision and acts on it; what is shown is what an approval executes; status, mirror, history and cap agree with the loop | `WriteWasPosted`, `OneDecisionPerGate`, `GateShowsTheProposal`, `StaleProposalIsInert`, `ActiveIsRunning`, `MirrorAgrees`, `OneHistoryEntryPerEndedRun`, `SilentEntriesAreErrors`, `AcceptedDecisionActs`, `AttendedRunsEnd`, `SlotsComeBack` |
| Run engine called from threads | a decision reaches the gate entry it was made at; racing calls do not lock a gate; ok means the run moves on | `AnswersItsGate`, `WedgeNeedsALateCall`, `OkMovesTheRun` |
| Data-quality checks | a table passes against its own seeding, a spike is seen in spite of rounding, a recheck repeats the inspection's verdict on unchanged data, and passes only what was repaired | `OnlyUnstoredRatesFail`, `SpikeIsSeen`, `DataFixNeedsWrite`, `PassedMeansRepaired` |
| Browser client | it polls until the end and sees it; only a fault takes a decision to another gate entry or proposal than the one shown; only a decision that was taken locks the buttons; it adds no behaviour to the process | `PollsWhileLive`, `EndIsSeen`, `WrongGateNeedsFault`, `LatchMeansTaken`, `EngineKept` |

## 2. The modules

```
Remediation  <-  GateContract               what a run promises about the gate
     ^               ^ refined by (GateKept)
     +----------  AgentLoop  <- AgentLoopProofs <- LoopReportProofs, GateKeptProofs
                     ^ EXTENDS                  run_loop
                  RunEngine  <- RunEngineProofs     the web process
                     ^ EXTENDS
                  BrowserGate <- BrowserGateProofs  the page and the network
GateThreads <- GateThreadsProofs            the gate, decided from threads
PollContract  <-  SyncPoll <- SyncPollProofs    verify's poll against the syncs
     ^ refined by AgentLoop and SyncPoll (WaitKept)
DQChecks  <- DQChecksProofs                 bq.py's checks against a table
```

An `MC` module gives the constants of one of these small values; a `.cfg` names the
specification and the properties. Definitions marked *Mutant* are the plausible
bugs a property was tested against: with the definition after it replaced by the
mutant, TLC reports the property violated. They are used nowhere else.

**Remediation** holds the pure part: a proposal is a record of its action,
targets and two flags (manual instructions present; root cause, evidence and a known
severity present), `validate_payload` its validity, `planned_call` the Fivetran call
it stands for.

**AgentLoop** is `run_loop` with the functions it calls. `pc[r]` names the await
a run is at; an action is the stretch of the coroutine from one await to the
next, with every exit on the way. What comes back from an await (issues, tables,
failed checks, a model answer, a tool verdict, a sync result) is chosen from small
sets, an exception among them (`Raise`). `Decide` is the return of `approval()`:
the bounding and revalidation of an edit, the one revised diagnosis after a
refusal, or the way to ACT. Two history variables, `offered` and `answer`, remember
the proposal put to the gate and the decision it got; `calls` remembers the writes.

**GateContract** is the abstract promise: a run offers a valid plan, the plan is
cleared as it stands or narrowed to valid allowlisted targets, or refused at most
once before the run closes; only a cleared plan is executed, once. `AgentLoop`
implements it under the mapping in `Contract`.

**RunEngine** puts `AgentLoop` into its process. `Drive` is a step of the driver
task with the callbacks it makes (`progress`, `approval` up to its await, `_drive`'s
settling), `submit_decision` the POST, `safe_set_result` the callback it schedules,
`Resume` the approval coroutine going on. POST /api/runs is split at its await:
`CheckCap`, then `start_run` or `UnknownConnection`. `Stop` loses tasks and
memory, by shutdown or crash; `Start` sweeps.

**GateThreads** opens up what `RunEngine` takes as one step, and what is one step as
long as the route runs on the event loop: a call of `submit_decision` reads the
future, tests it, tests the latch, sets the latch and schedules the result, one
access per action, while the loop's thread goes on between any two of them, within
`approval()` too (`OpenGate` publishes the future, `Arm` resets the latch).

**SyncPoll** opens up what `AgentLoop` leaves open in `PollAnswered`: the markers
come from syncs that start, succeed and fail, one at a time; error answers carry no
markers; a details call takes time.

**PollContract** is what the two have in common: a run waits once, polls as often as
`MaxPolls` intervals allow and once more, and its last poll tells the one result.
`AgentLoop` implements it with its own `MaxPolls`, `SyncPoll` with
`Timeout \div Interval`, so what `AgentLoop` leaves open is what a poll does.

**DQChecks** opens up what `AgentLoop` leaves open in `inspect` and `Recheck`: a
table with rows, columns and nulls that Fivetran rewrites and that ages, the
stored baselines with their rounded rates, the checks as exact comparisons, the
inspection and the re-run.

**BrowserGate** is the page in front of `RunEngine`. The click that starts a run
(`startRun`) disables its button and hides the gate; the answer (`startPolling`) or its
failure (`startFails`) comes later, and a snapshot of an end that arrives in between
enables the button again, so starts may overlap. `Poll` takes a snapshot,
`RenderReply` renders one of those under way, `decide` posts what the field holds,
the network may delay, reorder and lose each snapshot, post and answer. The run and
the gate entry are remembered with each snapshot, the entry and the proposal shown with
each click, to say what a decision was made at; the page and the server read none of
it. A POST goes to the run that the page follows at the click. `faulty` remembers that
the network lost a decision or an answer, or delivered a snapshot out of order or after
its run was left, or that a run was started while another was starting or polled (the
answer then switches the page to another run under a gate it may be showing); a lost
snapshot is no fault.

## 3. Abstractions

* Awaits with nothing observable between them are one: the details and the schema
  calls have an action each, the baseline queries of all tables share one, an
  inspection sees all tables at one moment.
* Which of the tables with most failures is primary is left open; the code takes
  the first in list order.
* A poll may time out at any turn in `AgentLoop` (slow calls use time up); `SyncPoll`
  has the clock and shows the bound on the polls.
* A run id is used once. `Stop` covers a drained shutdown and a crash: the store
  and the history are in memory, so what is left is the same.
* Syncs are numbered, and a number stands for its end time.
* `Scale` is 10^6 in the code; a smaller unit brings the rounding of rates within
  reach of small tables. On a tie `%.6f` of the binary quotient may go either way.
* On the page, decisions that are alike and under way at once count as one, and so do
  answers; snapshots are a sequence. The `prompt()` of a rejection is part of the click.
* Texts, durations, progress details and the report's metrics are left out.

## 4. The runs

| Run | Module, specification | Shows | Bounds |
|---|---|---|---|
| `agent_loop` | MCAgentLoop, `FairSpec` | type invariant, five safety invariants, `GateKept`, `OnlyHumansStallRuns` | one run (runs share nothing in the loop), two allowlisted tables with two checks and one, a name off the allowlist, one Fivetran issue, six kinds of model answer, 3 attempts as in the code, 2 sleeps |
| `engine` | MCRunEngine, `FairEngineSpec` | type invariant and eight invariants of the process, `AcceptedDecisionActs`, `AttendedRunsEnd`, `SlotsComeBack` | two runs for one slot, one table, a table resync or no tool call, one attempt, no sleep |
| `gate_threads` | MCGateThreads, `FairSpec` | type invariant, two invariants, `OkMovesTheRun` | four calls, two gate entries |
| `sync_poll` | MCSyncPoll, `Spec` | type invariant, three invariants, `WaitKept` | two runs, three syncs, room for two sleeps, calls that use up the room of one; symmetric in the runs |
| `dq_checks` | MCDQChecks, `Spec` | type invariant, three invariants, one action property | two columns, nine contents around every threshold, two seedings, ages on both sides of both SLAs |
| `browser` | MCBrowserGate, `FairBrowserSpec` | type invariant, `PollsWhileLive`, `WrongGateNeedsFault`, `LatchMeansTaken`, `EngineKept`, `EndIsSeen` | one page on one run, two snapshots, one decision and one answer under way |
| `rechecks_all`, `cap`, `orphans`, `own_sync`, `edit_posted`, `buttons` | | disagreements, section 5 | |

Two gate entries, two runs and two decisions are where the orderings of the gate
differ; a third gate entry does not exist in the code. Two checks on one table and
one on another make the primary table differ from "all tables". Two sleeps are
enough for a poll that is first, between and last. Two snapshots under way are the
least that can come back out of order (a page that starts several runs, one after
another or overlapping, is covered by the theorems only, since two starts that overlap
take three runs); with one decision and one answer under way, the
answer to one click can cross the next click. One slot makes two runs wait for each
other; how often the loop asks the model or polls is bounded by `agent_loop`, so the
process needs no more than one of each. Four calls are two that race at the first
gate entry, one that comes late from it, and one at the second. `CHECK_DEADLOCK FALSE`
is set because the program comes to rest: every run has ended and nothing more is
asked of it.

**Fairness.** `Fairness` says that the step a run can take by itself is taken: the
event loop runs what is ready, and Fivetran, the model and BigQuery answer or fail
in the end. The code puts no timeout on those calls, so a call that hangs for ever
is outside the model. Nothing is assumed of the human: the gate may stay open for
ever, and `AttendedRunsEnd` states its assumption (`GatesAttended`) itself.
`EngineFairness` adds the callbacks of the event loop; `SlotsComeBack` makes the
assumption of `AttendedRunsEnd`. In `GateThreads` only the event loop is fair: a
thread may stop anywhere in its call. `FairBrowserSpec` assumes
that the page's interval fires and that not every snapshot is lost for ever
(strong fairness of rendering); it assumes nothing of posts, answers or the human.

## 5. Where the source and its words disagree

Six of these have a run whose counterexample TLC finds.

| Run | Statement | What the code does |
|---|---|---|
| `rechecks_all` | `verify.py:5`: re-runs "every DQ check that failed in step 3" | only those of the primary table; a run is resolved with other failed checks never asked again |
| `cap` | `api.py:43`: "Cap concurrent runs" | overlapping POSTs pass the check before either registers |
| `orphans` | `deploy.sh:12-14`: the "startup orphan-sweep surfaces any run stranded" | the store it sweeps was lost with the process |
| `own_sync` | `verify.py:4`: polls "until the triggered sync completes" | any newer end of a sync counts |
| `edit_posted` | `index.html:93`: "edit to modify before approving" | every render puts the proposed targets back |
| `buttons` | `index.html:220`: "keep buttons disabled ... while a decision is in flight" | after an edit the loop refuses, no snapshot is without a gate, so the latch is never released and the next gate cannot be answered from the page |

Others were met while reading and have no run: decisions that race from threads at
one gate entry may both be told ok, and one that is descheduled before line 220 until
the next gate opens latches that gate, whose own decisions are then refused for ever,
where `runs.py:15-17` calls the design correct "even if a caller ever dispatches from a
threadpool" (`WedgeNeedsALateCall` says that nothing else does; the deployed route runs on
the event loop, where `OneDecisionPerGate` holds); freshness is re-run with the default
SLA and not with the configured one (`bq.py:230` against `bq.py:219-220`; bounded by
`DataFixNeedsWrite`); an edit that the loop refuses is
re-diagnosed with the old proposal still shown (`runs.py:110-112`; bounded by
`StaleProposalIsInert`); an exception after the write leaves a history entry without
`action_taken` (`runs.py:140`; bounded by `SilentEntriesAreErrors`); a null rate
below half of 10^-6 is stored as zero and fails on the very data that was seeded
(`bq.py:148`; bounded by `OnlyUnstoredRatesFail`); an error answer read as missing
markers makes an old success look new (`verify.py:30-34`; the condition of
`ResultIsNew`); baselines are not filtered by connection (`bq.py:88-92` against the
bigquery-dq-checks spec); a modified proposal replaces the original in the report
(`loop.py:261`); a connection without allowlisted tables is reported no-issue with
its issues listed (`loop.py:191`); a connection with healthy metadata is inspected
all the same (`loop.py:203` against the bigquery-dq-checks spec).

## 6. What is proved

TLAPS checks the proofs for every value of the constants that meets the named
assumptions: `KnownTablesAssumption`, `ModelOutputsAssumption` (Remediation),
`TableOfAssumption`, `AttemptsAssumption`, `MaxPollsAssumption` (AgentLoop),
`MaxActiveAssumption` (RunEngine), `NoRunAssumption`, `EditsAssumption`,
`NetworkAssumption` (BrowserGate), `NoCallAssumption`, `MaxEntriesAssumption`
(GateThreads), `MaxSyncsAssumption`, `TimingAssumption` (SyncPoll),
`ContentsAssumption`, `ScaleAssumption`, `SLAAssumption` (DQChecks). TLC evaluates all of them
on the constants of the runs.

**AgentLoopProofs.** `TypeCorrect` (`TypeOK`), `WritesAreAnswered`
(`WriteIsTheOneAnswered`), `ResyncsAreScoped` (`NoUnscopedResync`).

* `TypeOK` is not inductive: nothing in it keeps `tries` and `polls` within their
  bounds, or says that a plan that reaches the write session is one `planned_call`
  has a case for. `TypeInv` adds `CountersInv` (a run that goes on has an attempt
  and a poll left) and `ValidInv` (past the diagnosis a proposal is valid; in the
  write session it is not manual).
* The write is the answered one because of what holds earlier: `GateInv` says that
  before the gate nothing was written, that at the gate what was offered is
  what would be executed, and that between decision and write the proposal is the
  plan the decision asked for. `DecideOutcome` reduces the four branches of the
  decision to "carried out as the plan it asks for" or "refused", and the actions
  that touch none of this share `MovingOnKeepsGateInv`.

**LoopReportProofs.** `ResolvedMeansVerified` (`ResolvedIsVerified`),
`ReportsTellOfWrites` (`ReportTellsOfWrites`), `PromptsAreBounded` (`PromptBudget`).

* `ReportInv` says how the report fills up along the phases: no approval before the
  decision, no action before the write, "executed" only while a sync result is waited
  for, a status only at the end. The invariants speak of finished reports only, and
  say nothing of how those came about.
* `BudgetInv` counts: a diagnosis has used one answer for each refusal so far, the
  first one at most `MAX_DIAGNOSIS_ATTEMPTS`, and a gate entered a second time stands
  on top of a full first one.

**GateKeptProofs.** `LoopKeepsContract`: `Spec => GateKept`. `AgentLoop` refines
`GateContract`: initial states map to initial states, and each step of a run is a
step of the contract for that run or leaves its picture alone. It uses `TypeInv` and
`GateInv` to know that what is executed is the plan that was cleared.
`LoopKeepsPollContract`: `Spec => WaitKept`, the same for `PollContract`, from types
alone. TLC agrees on the constants of `agent_loop`.

**RunEngineProofs.** `EngineRunsTheLoop` (`EngineSpec => Spec`) carries every theorem
of the loop over to the process, `EngineKeepsContract` (`GateKept`) among them. Then
`EngineTypeCorrect` (`EngineTypeOK`), `WritesWerePosted` (`WriteWasPosted`),
`GatesAcceptOnce` (`OneDecisionPerGate`), `GatesShowTheProposal`
(`GateShowsTheProposal`), `ActiveMeansRunning` (`ActiveIsRunning`), `MirrorsAgree`
(`MirrorAgrees`), `StaleProposalsAreInert` (`StaleProposalIsInert`),
`EndedRunsAreRecorded` (`OneHistoryEntryPerEndedRun`), `SilenceIsAnError`
(`SilentEntriesAreErrors`), for any number of runs and any cap.

* `EngineInv` joins the loop's invariants (`TypeInv`, `GateInv`, `ReportInv`),
  `EngineTypeOK`, `RunInv` for each run and `HistoryInv`. `RunInv` ties future, latch
  and queue to the gate entry: an entry above the run's own has accepted nothing; a
  pending future with the latch down has accepted nothing; with the latch up its
  decision is in the queue for this very entry (`Bridged`); once the run acts, what the gate
  accepted is the loop's answer (`AcceptedOnce`). `OneDecisionPerGate` alone does not
  say where an accepted decision is between POST and loop, and so cannot follow it.
* `HistoryInv` says that entries belong to ended runs of this process, one each. That
  a run settles once follows from the loop: an ended run takes no step.

**GateThreadsProofs.** `ThreadTypeCorrect` (`TypeOK`), `DecisionsStayAtTheirGate`
(`AnswersItsGate`), `OnlyLateCallsWedge` (`WedgeNeedsALateCall`), for any number of
calls and gate entries. `HeldInv` follows a captured future from the read to the
result; `KeptInv` says that a call told ok is in the queue or its future has a
result; `LatchInv` that a latch not set late was set by a call of the present entry.

**SyncPollProofs.** `SyncTypeCorrect` (`TypeOK`), `ResultsAreNew` (`ResultIsNew`),
`FailuresAreNotMasked` (`FailureIsNotMasked`), `TimeoutsMissNothing`
(`TimedOutMissedNothing`), `PollsAreBounded` (the number of polls times the interval
against the timeout), `SyncsKeepPollContract` (`Spec => WaitKept`), for any
number of runs, syncs, and any interval, timeout and latency.

* `SyncInv` adds to `TypeOK` that markers are older than the sync under way
  (`ConnectionInv`); that while a run waits, every sync that ended is newer than
  its pre-write markers and not newer than the current ones, and that a marker
  which moved since a good read is one of those (`WaitInv`); that a poll to come
  fits into the timeout (`ClockInv`); and the four results themselves (`ResultInv`).
  Without `WaitInv` a poll could not conclude from two markers anything about the
  set of syncs that ended.
* The refinement needs `ClockInv` for one step, the poll that sleeps again: the sleeps
  so far and the next one fit into the timeout, so there are at most
  `Timeout \div Interval` of them (`SleepsFit`). With `LoopKeepsPollContract`, loop and
  poll meet at one contract: the theorems of the loop make no assumption about a poll
  that the poll does not keep.

**DQChecksProofs.** `DQTypeCorrect` (`TypeOK`), `DataFixesNeedWrites`
(`DataFixNeedsWrite`), `RechecksFindRepairs` (`PassedMeansRepaired`),
`SeededTablesPass` (`OnlyUnstoredRatesFail`), `SpikesAreSeen` (`SpikeIsSeen`), for any
set of columns and table contents and any unit of stored rates, the code's 10^-6
included.

* `SeedInv` says that the last baseline is of the table as it was seeded, each rate a
  nearest multiple of the unit; the two theorems on rates are then arithmetic on that
  nearest multiple. `RecheckInv` says that as long as nothing is written every check
  that failed on the data still fails, whatever SLA is asked, and that a run inspects
  only a seeded table. `PassedMeansRepaired` compares with the table that was seeded
  last, the check with what was stored of it: for a null rate that lies in between
  (`PassingRateIsWithinTwice`).

**BrowserGateProofs.** `BrowserTypeCorrect` (`BrowserTypeOK`), `PageKeepsTheEngine`
(`EngineKept`: whatever the page and the network do, the process takes an
`EngineNext` step or none), with it `PageKeepsContract` (`GateKept`) and
`PageWritesWerePosted` (`WriteWasPosted`) behind a page; `PollingOutlivesTheRun`
(`PollsWhileLive`), `LatchedClicksWereTaken` (`LatchMeansTaken`),
`WrongGatesNeedFaults` (`WrongGateNeedsFault`), for any number of runs, of starts,
snapshots, decisions and answers under way. Starts that overlap are in the theorems, as
a fault: types and `EngineKept` hold with any faults, `PollsWhileLive` and
`LatchMeansTaken` on a page's first run with any faults and on a later one until the
first, `WrongGateNeedsFault` until the first.

* `BlankInv` says that nothing is under way before the first run is followed;
  `FollowInv` that whatever is under way is of a run that was followed, that each of
  those was admitted, and that no other run has been answered; `StartInv` that a run
  that is being started is none of them; `EndInv` that a snapshot
  under way that looks terminal is of a run that has ended.
* `RoundInv` adds to the engine's invariant what a snapshot may show: before its first
  gate a run has no proposal to show, and one that is diagnosed again has had its first
  gate answered. Without it an old proposal could look like an open gate
  (`UnansweredIsAtGate`).
* That a decision stays at its gate is a matter of order, and `OrderInv` states the
  order, for as long as nothing was faulty. A gate shown with nothing accepted is the
  one the run is parked at, with the proposal it is parked with, wherever it is
  shown: on the page, in a snapshot under way, or in a decision under way (`AtGate` in
  `ViewTells`, `RepliesTell`, `PostsTell`); there is at most one decision; and a gate
  shown that has accepted one finds the latch set, with only open gates under way
  before it, so that no render releases the latch before that gate has left the page
  (`Settled`). Behind the snapshot of an end there are only others (`EndsLast`), and a
  page that polls no more has nothing open (`AtRest`): that is what a page needs to
  follow its next run: as long as nothing is faulty it starts one run at a time, from
  rest (`StartsAlone`), and what it still shows of the last one is no gate
  (`ShowsItsRun`). When the process has forgotten the run, all of this lapses,
  since no decision can be taken any more (`Known`). TLC checked `OrderInv` before it
  was proved: exhaustively on one run without faults, by simulation on three.
* Each step of the invariant asks whether it can disturb the order. A step of the
  process that accepts nothing moves no parked run and settles no gate that was not
  shown settled before (`AtGateStays`, `SettledWasShown`); a lost snapshot leaves the
  rest in order (`Thinned`); a poll adds to the end; an accepted decision settles the
  one gate that was unanswered everywhere at once (`OrderDeliver`).
* `LatchInv` says that no gate on the page or under way is of an entry the run
  has not reached, and that a latch that is set has a decision or an error under way
  or a decision taken at its entry or a later one. The step needs two facts of the
  engine, that entries only go up and that what was accepted stays so (`EngineGoesOn`);
  for a second run it needs `OrderInv`, which leaves no latch behind.

Only model-checked: liveness (`OnlyHumansStallRuns`, `AcceptedDecisionActs`,
`AttendedRunsEnd`, `SlotsComeBack`, `OkMovesTheRun`, `EndIsSeen`), which is out of this
prover's reach.

## 7. Not modelled

The MCP client (subprocess and protocol I/O: its results are the nondeterministic
answers), configuration (its values are CONSTANTs), the ADK chat agent and the
views, scripts, demo data, the heartbeat, and of the page what only displays: none of
them keeps state that another part reads. Of the model, prompts and wording; of a
report, its durations and metrics (`runs.py:193-202`, `loop.py:169-179`). A call that
never returns and a page that polls a run its process has forgotten are in the hazards
of `PROJECT.json` with the reason why no property covers them. What a page does with a
snapshot of a run it has left, and with a run started on top of another, is in the
model, as a fault: the code lets the one end the polling of the next run and the other
switch the run under an open gate, and no doc says otherwise. A gate that nobody answers
keeps its slot of the cap: the properties that speak of slots assume that gates are
answered. That the table list an edit is bounded by may be out of date is in the model,
as it is in the code, and no property forbids it.

## 8. Plan

1. *Done:* the loop with its two contracts, the process, decisions from threads, the
   verify poll, the checks, the page; every safety property a run checks is a theorem.
2. *Left to model:* the time accounting of a run (agent, sync and human time are never
   negative and add up to the total).
3. *Left to prove:* an abstract account of the page (a human sees a proposal, answers it
   once, the answer is carried out) that `BrowserGate` implements as long as nothing is
   faulty, from `OrderInv`; a run-time contract for the gate that `GateThreads` and
   `RunEngine` both implement, as `PollContract` is for the poll.
