------------------------------ MODULE RunEngine ------------------------------
(***************************************************************************)
(* The web process around the loop (web/runs.py, api.py, store.py,         *)
(* app.py): POST /api/runs admits a run and starts its driver task, the    *)
(* approval callback parks the loop on a fresh future per gate entry, POST *)
(* .../decision schedules the result of that future, the driver settles    *)
(* the run. The store and the history live in the memory of the process,   *)
(* which may stop (shutdown, crash, redeploy) and start again.             *)
(*                                                                         *)
(* Everything runs on one event loop, so an action is one callback or one  *)
(* stretch of a coroutine between awaits. A run id is used once.           *)
(***************************************************************************)
EXTENDS AgentLoop

CONSTANT MAX_ACTIVE_RUNS
ASSUME MaxActiveAssumption == MAX_ACTIVE_RUNS \in Nat \ {0}

VARIABLES
    up,        \* the process is serving
    post,      \* where the POST /api/runs that may start the run stands
    RUNS,      \* ids with a RunHandle
    handle,    \* the RunHandle fields
    ready,     \* _safe_set_result callbacks waiting in the event loop
    store,     \* store._STATE, the mirror
    history,   \* store._HISTORY
    accepted   \* decisions answered {"ok": true}, per gate entry (history variable)

engine == <<up, post, RUNS, handle, ready, store, history, accepted>>
engineVars == <<vars, engine>>

ACTIVE_STATUSES == {"detecting", "inspecting", "diagnosing", "awaiting_approval",
                    "rediagnosing", "acting", "verifying"}
Statuses == ACTIVE_STATUSES \cup {"error", "no-issue", "baseline_missing",
                                  "resolved", "diagnosis_failed", "unresolved"}

STAGE_STATUS == [scanning |-> "detecting", detecting |-> "detecting",
                 inspecting |-> "inspecting", diagnosing |-> "diagnosing",
                 acting |-> "acting", verifying |-> "verifying"]

Gates == {0, 1}
NoFuture == [gate |-> 0, state |-> "none", result |-> NoDecision]
FreshHandle == [status |-> "detecting", pending |-> NoProposal,
                future |-> NoFuture, decision_submitted |-> FALSE]
NotStored == [status |-> "none", proposal |-> NoProposal]
NothingAccepted == [g \in Gates |-> << >>]

\* A process that has just started: nothing in memory.
EmptyMemory ==
    /\ RUNS' = {}
    /\ handle' = [r \in Runs |-> FreshHandle]
    /\ ready' = [r \in Runs |-> {}]
    /\ store' = [r \in Runs |-> NotStored]
    /\ history' = << >>

EngineInit ==
    /\ Init
    /\ up = TRUE
    /\ post = [r \in Runs |-> "none"]
    /\ RUNS = {}
    /\ handle = [r \in Runs |-> FreshHandle]
    /\ ready = [r \in Runs |-> {}]
    /\ store = [r \in Runs |-> NotStored]
    /\ history = << >>
    /\ accepted = [r \in Runs |-> NothingAccepted]

-----------------------------------------------------------------------------
(* POST /api/runs: the cap is checked, the account's connections are       *)
(* listed (an await), the run is registered and its driver scheduled.      *)
ActiveRuns == {r \in RUNS : handle[r].status \in ACTIVE_STATUSES}

CheckCap(r) ==
    /\ up /\ post[r] = "none"
    /\ post' = [post EXCEPT ![r] = IF Cardinality(ActiveRuns) >= MAX_ACTIVE_RUNS
                                   THEN "refused" ELSE "scanning"]
    /\ UNCHANGED <<vars, up, RUNS, handle, ready, store, history, accepted>>

UnknownConnection(r) ==
    /\ up /\ post[r] = "scanning"
    /\ post' = [post EXCEPT ![r] = "refused"]
    /\ UNCHANGED <<vars, up, RUNS, handle, ready, store, history, accepted>>

start_run(r) ==
    /\ up /\ post[r] = "scanning"
    /\ post' = [post EXCEPT ![r] = "accepted"]
    /\ RUNS' = RUNS \cup {r}
    /\ handle' = [handle EXCEPT ![r] = FreshHandle]
    /\ store' = [store EXCEPT ![r].status = "detecting"]
    /\ UNCHANGED <<vars, up, ready, history, accepted>>

-----------------------------------------------------------------------------
(* The driver task: a step of the loop, with the callbacks it makes.       *)

\* Mutant: the mirror is not told.
SetStatus_unmirrored(r, h, status) ==
    /\ handle' = [handle EXCEPT ![r] = [h EXCEPT !.status = status]]
    /\ UNCHANGED store

\* h.status and the mirror move together.
SetStatus(r, h, status) ==
    /\ handle' = [handle EXCEPT ![r] = [h EXCEPT !.status = status]]
    /\ store' = [store EXCEPT ![r].status = status]

\* Mutant: the stage itself is taken for the status.
progress_raw_stage(r) ==
    /\ SetStatus(r, handle[r], stage'[r])
    /\ UNCHANGED history

\* progress(stage, detail); a step that emits nothing leaves the status alone.
progress(r) ==
    /\ IF stage'[r] # stage[r]
       THEN SetStatus(r, handle[r], STAGE_STATUS[stage'[r]])
       ELSE UNCHANGED <<handle, store>>
    /\ UNCHANGED history

\* Mutant: decision_submitted is left as the earlier gate had it.
OpenGate_not_rearmed(r) ==
    /\ handle' = [handle EXCEPT ![r] =
          [status             |-> "awaiting_approval",
           pending            |-> offered'[r],
           future             |-> [gate |-> attempt[r], state |-> "pending",
                                   result |-> NoDecision],
           decision_submitted |-> handle[r].decision_submitted]]
    /\ store' = [store EXCEPT ![r] = [status   |-> "awaiting_approval",
                                      proposal |-> offered'[r]]]
    /\ UNCHANGED history

\* approval() up to its await: publish the proposal, arm a fresh future.
OpenGate(r) ==
    /\ handle' = [handle EXCEPT ![r] =
          [status             |-> "awaiting_approval",
           pending            |-> offered'[r],
           future             |-> [gate |-> attempt[r], state |-> "pending",
                                   result |-> NoDecision],
           decision_submitted |-> FALSE]]
    /\ store' = [store EXCEPT ![r] = [status   |-> "awaiting_approval",
                                      proposal |-> offered'[r]]]
    /\ UNCHANGED history

\* Mutant: an exception reaches neither the status nor the history.
Settle_unless_raised(r, h) ==
    IF pc'[r] = "done"
    THEN /\ SetStatus(r, h, report'[r].status)
         /\ history' = Append(history, [run |-> r, status |-> report'[r].status,
                                        action_taken |-> report'[r].action_taken])
    ELSE UNCHANGED <<handle, store, history>>

\* Mutant: an exception is shown but not recorded.
Settle_no_error_entry(r, h) ==
    IF pc'[r] = "done"
    THEN /\ SetStatus(r, h, report'[r].status)
         /\ history' = Append(history, [run |-> r, status |-> report'[r].status,
                                        action_taken |-> report'[r].action_taken])
    ELSE SetStatus(r, h, "error") /\ UNCHANGED history

\* _drive after run_loop: its report, or an error report in its place, is
\* mirrored and appended to the history. h is the handle the loop left.
Settle(r, h) ==
    LET entry == IF pc'[r] = "done"
                 THEN [run |-> r, status |-> report'[r].status,
                       action_taken |-> report'[r].action_taken]
                 ELSE [run |-> r, status |-> "error", action_taken |-> "none"]
    IN  /\ SetStatus(r, h, entry.status)
        /\ history' = Append(history, entry)

Drive(r) ==
    /\ r \in RUNS
    /\ Step(r)
    /\ \/ pc'[r] \in Awaiting /\ progress(r)
       \/ pc'[r] = "gate" /\ OpenGate(r)
       \/ pc'[r] \in Ended /\ Settle(r, handle[r])
    /\ UNCHANGED <<up, post, RUNS, ready, accepted>>

-----------------------------------------------------------------------------
(* The gate bridge.                                                        *)

\* Mutant: only the future is looked at, which is not done before its callback.
submit_decision_no_latch(r, d) ==
    /\ r \in RUNS
    /\ handle[r].future.state = "pending"
    /\ handle' = [handle EXCEPT ![r].decision_submitted = TRUE]
    /\ ready' = [ready EXCEPT ![r] =
                    @ \cup {[gate |-> handle[r].future.gate, decision |-> d]}]
    /\ accepted' = [accepted EXCEPT ![r][handle[r].future.gate] = Append(@, d)]
    /\ UNCHANGED <<vars, up, post, RUNS, store, history>>

\* POST .../decision. A refused decision (409, 404) changes nothing.
submit_decision(r, d) ==
    /\ r \in RUNS
    /\ handle[r].future.state = "pending"
    /\ ~ handle[r].decision_submitted
    /\ handle' = [handle EXCEPT ![r].decision_submitted = TRUE]
    /\ ready' = [ready EXCEPT ![r] =
                    @ \cup {[gate |-> handle[r].future.gate, decision |-> d]}]
    /\ accepted' = [accepted EXCEPT ![r][handle[r].future.gate] = Append(@, d)]
    /\ UNCHANGED <<vars, up, post, RUNS, store, history>>

\* Mutant: the guard of _safe_set_result is inverted.
safe_set_result_inverted(r) ==
    /\ \E cb \in ready[r] : ready' = [ready EXCEPT ![r] = @ \ {cb}]
    /\ UNCHANGED <<vars, up, post, RUNS, handle, store, history, accepted>>

\* _safe_set_result on the future the callback was made for.
safe_set_result(r) ==
    /\ \E cb \in ready[r] :
          /\ ready' = [ready EXCEPT ![r] = @ \ {cb}]
          /\ handle' = IF /\ handle[r].future.gate = cb.gate
                          /\ handle[r].future.state = "pending"
                       THEN [handle EXCEPT ![r].future =
                               [@ EXCEPT !.state = "done", !.result = cb.decision]]
                       ELSE handle
    /\ UNCHANGED <<vars, up, post, RUNS, store, history, accepted>>

\* Mutant: the proposal of a rejection stays on the screen.
LeftGate_keeps_proposal(r, d) ==
    [handle[r] EXCEPT !.future = NoFuture,
                      !.status = IF d.decision = "rejected" THEN "rediagnosing" ELSE @]

\* approval() after its await: the future is dropped, and a rejection takes
\* the proposal off the screen.
LeftGate(r, d) ==
    IF d.decision = "rejected"
    THEN [handle[r] EXCEPT !.future = NoFuture, !.pending = NoProposal,
                           !.status = "rediagnosing"]
    ELSE [handle[r] EXCEPT !.future = NoFuture]

\* approval() returns, and the loop runs on to its next await or its end.
Resume(r) ==
    /\ r \in RUNS
    /\ handle[r].future.state = "done"
    /\ LET d == handle[r].future.result
           h == LeftGate(r, d)
       IN  /\ Decide(r, d)
           /\ \/ pc'[r] = "pre" /\ SetStatus(r, h, STAGE_STATUS[stage'[r]])
                                /\ UNCHANGED history
              \/ pc'[r] = "diagnose" /\ SetStatus(r, h, h.status) /\ UNCHANGED history
              \/ pc'[r] = "done" /\ Settle(r, h)
    /\ UNCHANGED <<up, post, RUNS, ready, accepted>>

-----------------------------------------------------------------------------
(* The process stops, with or without the lifespan's cancel-and-drain:     *)
(* every task and everything in memory is gone. On start, sweep_orphans    *)
(* marks the stored active runs that have no handle.                       *)
Stop ==
    /\ up
    /\ up' = FALSE
    /\ LET S == {r \in RUNS : pc[r] \in Live}
       IN  IF S = {} THEN UNCHANGED vars ELSE Cancel(S)
    /\ post' = [r \in Runs |-> IF post[r] = "scanning" THEN "refused" ELSE post[r]]
    /\ EmptyMemory
    /\ UNCHANGED accepted

sweep_orphans ==
    store' = [r \in Runs |->
                IF store[r].status \in ACTIVE_STATUSES /\ r \notin RUNS
                THEN [store[r] EXCEPT !.status = "orphaned"]
                ELSE store[r]]

Start ==
    /\ ~ up
    /\ up' = TRUE
    /\ sweep_orphans
    /\ UNCHANGED <<vars, post, RUNS, handle, ready, history, accepted>>

-----------------------------------------------------------------------------
EngineNext ==
    \/ \E r \in Runs :
          \/ CheckCap(r) \/ UnknownConnection(r) \/ start_run(r)
          \/ Drive(r)
          \/ \E d \in Decisions : submit_decision(r, d)
          \/ safe_set_result(r)
          \/ Resume(r)
    \/ Stop
    \/ Start

EngineSpec == EngineInit /\ [][EngineNext]_engineVars

\* The event loop runs what is ready, the services answer or fail.
EngineFairness ==
    \A r \in Runs : /\ WF_engineVars(Drive(r))
                    /\ WF_engineVars(safe_set_result(r))
                    /\ WF_engineVars(Resume(r))
FairEngineSpec == EngineSpec /\ EngineFairness

-----------------------------------------------------------------------------
(* Properties.                                                             *)

EngineTypeOK ==
    /\ up \in BOOLEAN
    /\ post \in [Runs -> {"none", "scanning", "refused", "accepted"}]
    /\ RUNS \subseteq Runs
    /\ handle \in [Runs ->
          [status             : Statuses,
           pending            : Proposal,
           future             : [gate   : Gates,
                                 state  : {"none", "pending", "done"},
                                 result : Decisions \cup {NoDecision}],
           decision_submitted : BOOLEAN]]
    /\ ready \in [Runs -> SUBSET [gate : Gates, decision : Decisions]]
    /\ store \in [Runs -> [status   : Statuses \cup {"none", "orphaned"},
                           proposal : Proposal]]
    /\ history \in Seq([run : Runs, status : Statuses,
                        action_taken : {"none", "manual", "executed", "refused"}])
    /\ accepted \in [Runs -> [Gates -> Seq(Decisions)]]

\* A run writes only what one accepted POST to its last gate answered: that
\* gate accepted that decision and no other (runs.py:216-225).
WriteWasPosted ==
    \A r \in Runs :
        calls[r] # << >> => accepted[r][attempt[r]] = <<answer[r]>>

\* A gate tells a client {"ok": true} at most once, however many POSTs race
\* (runs.py:218-220), and until the loop moves on, that decision is in the event
\* loop's queue or in the very future the run is parked on: never lost.
OneDecisionPerGate ==
    \A r \in Runs :
        /\ \A g \in Gates : Len(accepted[r][g]) <= 1
        /\ pc[r] = "gate" /\ accepted[r][attempt[r]] # << >> =>
              LET d == accepted[r][attempt[r]][1]
                  f == handle[r].future
              IN  \/ [gate |-> attempt[r], decision |-> d] \in ready[r]
                        /\ f.gate = attempt[r] /\ f.state = "pending"
                  \/ f.gate = attempt[r] /\ f.state = "done" /\ f.result = d

\* While a run is parked at the gate a poll shows exactly the proposal that an
\* approval would execute, and a gate still open to a decision accepts one
\* (runs.py:93-104, 181-187).
GateShowsTheProposal ==
    \A r \in RUNS :
        pc[r] = "gate" =>
            /\ handle[r].status = "awaiting_approval"
            /\ handle[r].pending = proposal[r]
            /\ accepted[r][attempt[r]] = << >> =>
                  handle[r].future.state = "pending" /\ ~ handle[r].decision_submitted

\* The cap counts what it should: a registered run has an active status exactly
\* as long as its coroutine has not ended (runs.py:34-37, 83, 134, 139).
ActiveIsRunning ==
    \A r \in RUNS : handle[r].status \in ACTIVE_STATUSES <=> pc[r] \in Live

\* The store the routes fall back to never lags the handle (runs.py:84, 97, 116, 135,
\* 148; api.py:66-71).
MirrorAgrees ==
    \A r \in RUNS : store[r].status = handle[r].status

\* Each run of this process that has ended has exactly one history entry, with
\* its final status; no other run has one (runs.py:133-149).
OneHistoryEntryPerEndedRun ==
    \A r \in Runs :
        LET entries == {i \in DOMAIN history : history[i].run = r}
        IN  IF r \in RUNS /\ pc[r] \in Ended
            THEN \E i \in DOMAIN history :
                    entries = {i} /\ history[i].status = handle[r].status
            ELSE entries = {}

\* A decision a client was told is accepted moves the run on, unless the process
\* stops first, which also takes the run off the gate.
AcceptedDecisionActs ==
    \A r \in Runs :
        (pc[r] = "gate" /\ handle[r].decision_submitted) ~> (pc[r] # "gate")

\* Somebody answers every gate.
GatesAttended ==
    \A r \in Runs : WF_engineVars(\E d \in Decisions : submit_decision(r, d))

\* If every open gate is answered, every admitted run ends: no gate, future or
\* latch keeps a run although the decisions come (runs.py:103-105, 218-230).
AttendedRunsEnd ==
    GatesAttended => \A r \in Runs : (post[r] = "accepted") ~> (pc[r] \in Ended)

\* And the cap lets another run in again: a slot is given back whichever way its
\* run ended, and only an unanswered gate keeps one (api.py:44, runs.py:105, 137).
SlotsComeBack ==
    GatesAttended => []<>(Cardinality(ActiveRuns) < MAX_ACTIVE_RUNS)

\* While a revised diagnosis is awaited no decision is accepted, and an old
\* proposal is still shown only after an edit the loop refused (runs.py:107-116;
\* the refusal, loop.py:263-265, is decided after approval() has returned).
StaleProposalIsInert ==
    \A r \in RUNS :
        pc[r] = "diagnose" =>
            /\ handle[r].future.state = "none"
            /\ handle[r].pending # NoProposal => answer[r].decision = "modified"

\* The history is silent about a write that was sent only in an error entry,
\* which stands in for the report that knew of it (runs.py:140-149).
SilentEntriesAreErrors ==
    \A i \in DOMAIN history :
        calls[history[i].run] # << >> /\ history[i].action_taken = "none" =>
            history[i].status = "error"

-----------------------------------------------------------------------------
(* Statements of the docs and comments that the code does not keep.        *)

\* api.py:43: "Cap concurrent runs (memory + Fivetran-cost guard ...)".
CapHolds == Cardinality(ActiveRuns) <= MAX_ACTIVE_RUNS

\* deploy.sh:12-14: "the startup orphan-sweep surfaces any run stranded" by the
\* loss of its process.
StrandedRunsSurface ==
    up => \A r \in Runs \ RUNS :
             post[r] = "accepted" => store[r].status = "orphaned"
=============================================================================
