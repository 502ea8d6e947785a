------------------------------ MODULE AgentLoop ------------------------------
(***************************************************************************)
(* run_loop of dq_sentinel/loop.py with the steps of act.py and verify.py  *)
(* it drives: one incident run is scan, detect, list tables, check         *)
(* baselines, inspect, diagnose (validated, retried), the approval gate    *)
(* (at most twice), act, verify.                                           *)
(*                                                                         *)
(* A run is a coroutine, so an action is what it does from one await to    *)
(* the next: pc[r] names the await the run is parked at, and the action    *)
(* enabled there is the answer it wakes up to. The answers of Fivetran,    *)
(* BigQuery, the model and the human are nondeterministic choices.         *)
(***************************************************************************)
EXTENDS Remediation, Sequences

CONSTANTS
    Runs,                    \* run ids
    Checks,                  \* data-quality checks (row count, freshness, ...)
    TableOf,                 \* the table a check is about
    FivetranIssues,          \* what detect_fivetran_issues may flag
    MAX_DIAGNOSIS_ATTEMPTS,  \* answers asked of the model per diagnosis
    MaxPolls                 \* poll_timeout div poll_interval

ASSUME TableOfAssumption == TableOf \in [Checks -> Names]
ASSUME AttemptsAssumption == MAX_DIAGNOSIS_ATTEMPTS \in Nat \ {0}
ASSUME MaxPollsAssumption == MaxPolls \in Nat

VARIABLES
    pc,        \* the await the run is parked at, or how it ended
    stage,     \* last stage passed to the progress callback
    fivetran,  \* fivetran_issues
    tables,    \* allowlisted tables of the connection
    failed,    \* failed_checks, over all the tables
    payload,   \* payload["failed_checks"]: those of the primary table
    attempt,   \* gate entry: 0, then 1 after a rejection
    tries,     \* invalid answers in the diagnosis under way
    prompts,   \* model answers consumed by the run (history variable)
    proposal,  \* the proposal the loop carries
    offered,   \* the proposal last passed to approval() (history variable)
    answer,    \* the decision last returned by approval() (history variable)
    calls,     \* write calls sent to Fivetran (history variable)
    polls,     \* polls answered in poll_until_synced
    poll,      \* poll["result"]
    report     \* the incident report

vars == <<pc, stage, fivetran, tables, failed, payload, attempt, tries, prompts,
          proposal, offered, answer, calls, polls, poll, report>>

\* What only the first half of a run writes, up to the primary table.
findings == <<fivetran, tables, failed, payload>>
\* What the gate writes.
gate == <<attempt, proposal, offered, answer>>
\* What diagnose_validated counts.
diagnosis == <<tries, prompts>>
\* What poll_until_synced writes.
sync == <<polls, poll>>

Awaiting == {"scan", "tables", "baseline", "inspect", "diagnose",
             "pre", "act", "sent", "poll", "recheck"}
Ended == {"done", "raised", "cancelled"}
Live == {"ready", "gate"} \cup Awaiting

Decisions == [decision : {"approved", "modified", "rejected"},
              targets  : SUBSET Names]
NoDecision == [decision |-> "none", targets |-> {}]

EmptyReport == [status        |-> "none",
                detected      |-> {},
                proposed      |-> NoProposal,  \* remediation_proposed
                approval      |-> "none",      \* approval_decision
                action_taken  |-> "none",
                verification  |-> "none",      \* verification_result
                rerun         |-> {},          \* rechecked
                still_failing |-> {}]

Init ==
    /\ pc = [r \in Runs |-> "ready"]
    /\ stage = [r \in Runs |-> "none"]
    /\ fivetran = [r \in Runs |-> {}]
    /\ tables = [r \in Runs |-> {}]
    /\ failed = [r \in Runs |-> {}]
    /\ payload = [r \in Runs |-> {}]
    /\ attempt = [r \in Runs |-> 0]
    /\ tries = [r \in Runs |-> 0]
    /\ prompts = [r \in Runs |-> 0]
    /\ proposal = [r \in Runs |-> NoProposal]
    /\ offered = [r \in Runs |-> NoProposal]
    /\ answer = [r \in Runs |-> NoDecision]
    /\ calls = [r \in Runs |-> << >>]
    /\ polls = [r \in Runs |-> 0]
    /\ poll = [r \in Runs |-> "none"]
    /\ report = [r \in Runs |-> EmptyReport]

-----------------------------------------------------------------------------
Goto(r, from, to) == pc[r] = from /\ pc' = [pc EXCEPT ![r] = to]

emit(r, s) == stage' = [stage EXCEPT ![r] = s]

\* The report as the loop leaves it, and the loop returning it.
Report(r, rep) == report' = [report EXCEPT ![r] = rep]
finish(r, from, rep, status) ==
    /\ Goto(r, from, "done")
    /\ Report(r, [rep EXCEPT !.status = status])

-----------------------------------------------------------------------------
(* STEPS 1-3: scan, detect, list tables, baselines, inspect.               *)

\* The task starts: emit("scanning"), then the details are asked for.
Begin(r) ==
    /\ Goto(r, "ready", "scan")
    /\ emit(r, "scanning")
    /\ UNCHANGED <<findings, gate, diagnosis, calls, sync, report>>

detect(r) ==
    /\ Goto(r, "scan", "tables")
    /\ \E issues \in SUBSET FivetranIssues :
          fivetran' = [fivetran EXCEPT ![r] = issues]
    /\ emit(r, "detecting")
    /\ UNCHANGED <<tables, failed, payload, gate, diagnosis, calls, sync, report>>

\* The enabled tables of the schema config, cut down to the allowlist.
connection_tables(r) ==
    /\ \E enabled \in SUBSET Names :
          LET T == enabled \cap KnownTables
          IN  /\ tables' = [tables EXCEPT ![r] = T]
              /\ IF T = {}
                 THEN finish(r, "tables", [report[r] EXCEPT !.detected = fivetran[r]],
                             "no-issue")
                 ELSE Goto(r, "tables", "baseline") /\ UNCHANGED report
    /\ UNCHANGED <<stage, fivetran, failed, payload, gate, diagnosis, calls, sync>>

baseline_precondition(r) ==
    /\ \/ /\ Goto(r, "baseline", "inspect")
          /\ emit(r, "inspecting")
          /\ UNCHANGED report
       \/ /\ finish(r, "baseline", report[r], "baseline_missing")
          /\ UNCHANGED stage
    /\ UNCHANGED <<findings, gate, diagnosis, calls, sync>>

FailedOn(F, t) == {c \in F : TableOf[c] = t}

\* The tables with the most failures; the code takes the first such one in
\* the order of its list, which the model leaves open.
PrimaryTables(F) ==
    {t \in Names : /\ FailedOn(F, t) # {}
                   /\ \A u \in Names : Cardinality(FailedOn(F, u))
                                         <= Cardinality(FailedOn(F, t))}

inspect(r) ==
    /\ \E F \in SUBSET {c \in Checks : TableOf[c] \in tables[r]} :
          LET rep == [report[r] EXCEPT !.detected = fivetran[r] \cup F]
          IN  /\ failed' = [failed EXCEPT ![r] = F]
              /\ IF F = {}
                 THEN /\ finish(r, "inspect", rep, IF fivetran[r] = {} THEN "no-issue"
                                                               ELSE "unresolved")
                      /\ UNCHANGED <<stage, payload>>
                 ELSE /\ Goto(r, "inspect", "diagnose")
                      /\ Report(r, rep)
                      /\ \E t \in PrimaryTables(F) :
                            payload' = [payload EXCEPT ![r] = FailedOn(F, t)]
                      /\ emit(r, "diagnosing")
    /\ UNCHANGED <<fivetran, tables, gate, diagnosis, calls, sync>>

-----------------------------------------------------------------------------
(* STEP 4: one answer of the model to diagnose_validated, on the first     *)
(* diagnosis (attempt 0) or on the one after a rejection (attempt 1).      *)

\* A valid proposal is put to approval(), which parks the run at the gate.
Propose(r) ==
    /\ Goto(r, "diagnose", "gate")
    /\ \E p \in ModelOutputs :
          /\ validate_payload(p)
          /\ proposal' = [proposal EXCEPT ![r] = p]
          /\ offered' = [offered EXCEPT ![r] = p]
          /\ Report(r, [report[r] EXCEPT !.proposed = p])
    /\ tries' = [tries EXCEPT ![r] = 0]
    /\ prompts' = [prompts EXCEPT ![r] = @ + 1]
    /\ UNCHANGED <<stage, findings, attempt, answer, calls, sync>>

InvalidAnswer(r) ==
    /\ \E p \in ModelOutputs : ~ validate_payload(p)
    /\ prompts' = [prompts EXCEPT ![r] = @ + 1]
    /\ tries' = [tries EXCEPT ![r] = @ + 1]
    /\ IF tries[r] + 1 < MAX_DIAGNOSIS_ATTEMPTS
       THEN Goto(r, "diagnose", "diagnose") /\ UNCHANGED report
       ELSE IF attempt[r] = 0
            THEN finish(r, "diagnose",
                        [report[r] EXCEPT !.verification = "diagnosis_failed"],
                        "diagnosis_failed")
            ELSE finish(r, "diagnose",
                        [report[r] EXCEPT !.approval = "rejected"], "unresolved")
    /\ UNCHANGED <<stage, findings, gate, calls, sync>>

-----------------------------------------------------------------------------
(* STEP 5: approval() returns decision d.                                  *)

\* Mutant: the edited targets are taken as they come.
candidate_unbounded(r, d) == [proposal[r] EXCEPT !.targets = d.targets]

\* The proposal a "modified" decision asks for: edited targets are bounded
\* to the inspected, allowlisted tables before they are validated again.
candidate(r, d) ==
    [proposal[r] EXCEPT !.targets = (d.targets \cap tables[r]) \cap KnownTables]

\* The loop goes on to ACT with plan p: emit("acting"), ask for the markers.
Accept(r, p) ==
    /\ Goto(r, "gate", "pre")
    /\ proposal' = [proposal EXCEPT ![r] = p]
    /\ Report(r, [report[r] EXCEPT !.proposed = p, !.approval = "approved"])
    /\ emit(r, "acting")
    /\ UNCHANGED attempt

\* Mutant: every rejection buys a revised diagnosis.
Refuse_always_revises(r) ==
    /\ Goto(r, "gate", "diagnose")
    /\ UNCHANGED <<attempt, proposal, stage, report>>

\* A first rejection buys one revised diagnosis, a second one ends the run.
Refuse(r) ==
    /\ IF attempt[r] = 0
       THEN Goto(r, "gate", "diagnose") /\ UNCHANGED report
       ELSE finish(r, "gate", [report[r] EXCEPT !.approval = "rejected"], "unresolved")
    /\ attempt' = [attempt EXCEPT ![r] = 1]
    /\ UNCHANGED <<proposal, stage>>

\* Mutant: an edit is promoted to an approval without validating it again.
Decide_unvalidated_edit(r, d) ==
    /\ answer' = [answer EXCEPT ![r] = d]
    /\ \/ d.decision = "approved" /\ Accept(r, proposal[r])
       \/ d.decision = "modified" /\ Accept(r, candidate(r, d))
       \/ d.decision = "rejected" /\ Refuse(r)
    /\ UNCHANGED <<findings, offered, diagnosis, calls, sync>>

Decide(r, d) ==
    /\ answer' = [answer EXCEPT ![r] = d]
    /\ \/ d.decision = "approved" /\ Accept(r, proposal[r])
       \/ d.decision = "modified" /\ validate_payload(candidate(r, d))
                                  /\ Accept(r, candidate(r, d))
       \/ d.decision = "modified" /\ ~ validate_payload(candidate(r, d)) /\ Refuse(r)
       \/ d.decision = "rejected" /\ Refuse(r)
    /\ UNCHANGED <<findings, offered, diagnosis, calls, sync>>

-----------------------------------------------------------------------------
(* STEP 6: the markers are read; act.act opens a write session, sends the  *)
(* one call, gets its result. A manual action does none of this.           *)
ReadMarkers(r) ==
    /\ \/ /\ proposal[r].action = "manual"
          /\ Goto(r, "pre", "recheck")
          /\ Report(r, [report[r] EXCEPT !.action_taken = "manual"])
       \/ /\ proposal[r].action # "manual"
          /\ Goto(r, "pre", "act")
          /\ UNCHANGED report
    /\ UNCHANGED <<stage, findings, gate, diagnosis, calls, sync>>

SendWrite(r) ==
    /\ Goto(r, "act", "sent")
    /\ calls' = [calls EXCEPT ![r] = Append(@, planned_call(proposal[r]))]
    /\ UNCHANGED <<stage, findings, gate, diagnosis, sync, report>>

\* Mutant: action_taken is recorded only when the tool reports success.
WriteReturns_silent_error(r, ok) ==
    /\ Goto(r, "sent", IF ok THEN "poll" ELSE "recheck")
    /\ IF ok THEN Report(r, [report[r] EXCEPT !.action_taken = "executed"])
             ELSE UNCHANGED report
    /\ UNCHANGED <<stage, findings, gate, diagnosis, calls, sync>>

\* ok is the tool's verdict: not isError.
WriteReturns(r, ok) ==
    /\ Goto(r, "sent", IF ok THEN "poll" ELSE "recheck")
    /\ Report(r, [report[r] EXCEPT !.action_taken = IF ok THEN "executed"
                                                          ELSE "refused"])
    /\ UNCHANGED <<stage, findings, gate, diagnosis, calls, sync>>

-----------------------------------------------------------------------------
(* STEP 7: one poll answered; no new marker, a new marker, or a timeout.   *)

\* Mutant: the loop always sleeps and polls again.
SyncPending_no_timeout(r) ==
    /\ Goto(r, "poll", "poll")
    /\ polls' = [polls EXCEPT ![r] = @ + 1]
    /\ emit(r, "verifying")
    /\ UNCHANGED <<findings, gate, diagnosis, calls, poll, report>>

\* Mutant: `started` is read again when the time is up.
SyncPending_restarted_clock(r) ==
    /\ Goto(r, "poll", "poll")
    /\ polls' = [polls EXCEPT ![r] = IF @ < MaxPolls THEN @ + 1 ELSE 0]
    /\ emit(r, "verifying")
    /\ UNCHANGED <<findings, gate, diagnosis, calls, poll, report>>

\* Sleeping again needs elapsed + interval <= timeout, and each earlier
\* round slept one interval.
SyncPending(r) ==
    /\ Goto(r, "poll", "poll")
    /\ polls[r] + 1 <= MaxPolls
    /\ polls' = [polls EXCEPT ![r] = @ + 1]
    /\ emit(r, "verifying")
    /\ UNCHANGED <<findings, gate, diagnosis, calls, poll, report>>

SyncEnded(r, result) ==
    /\ Goto(r, "poll", "recheck")
    /\ polls' = [polls EXCEPT ![r] = @ + 1]
    /\ poll' = [poll EXCEPT ![r] = result]
    /\ emit(r, "verifying")
    /\ UNCHANGED <<findings, gate, diagnosis, calls, report>>

\* Slow answers may use the time up before MaxPolls sleeps.
SyncTimedOut(r) ==
    /\ polls' = [polls EXCEPT ![r] = @ + 1]
    /\ poll' = [poll EXCEPT ![r] = "timed_out"]
    /\ emit(r, "verifying")
    /\ finish(r, "poll", [report[r] EXCEPT !.verification = "timed_out"], "unresolved")
    /\ UNCHANGED <<findings, gate, diagnosis, calls>>

\* Mutant: only the re-run checks count.
verification_result_ignores_sync(r, failing) ==
    IF failing = {} THEN "passed" ELSE "failed"

verification_result(r, failing) ==
    IF report[r].action_taken = "executed" /\ poll[r] = "failed"
    THEN "failed"
    ELSE IF failing = {} THEN "passed" ELSE "failed"

Recheck(r) ==
    /\ \E failing \in SUBSET payload[r] :
          LET result == verification_result(r, failing)
          IN  finish(r, "recheck",
                     [report[r] EXCEPT !.verification = result,
                                       !.rerun = payload[r],
                                       !.still_failing = failing],
                     IF result = "passed" THEN "resolved" ELSE "unresolved")
    /\ UNCHANGED <<stage, findings, gate, diagnosis, calls, sync>>

-----------------------------------------------------------------------------
(* The ways out of the middle: the answer awaited is an exception, or the  *)
(* tasks are cancelled (shutdown) or lost with their process.              *)
Raise(r) ==
    /\ pc[r] \in Awaiting
    /\ pc' = [pc EXCEPT ![r] = "raised"]
    /\ UNCHANGED <<stage, findings, gate, diagnosis, calls, sync, report>>

Cancel(S) ==
    /\ S # {}
    /\ \A r \in S : pc[r] \in Live
    /\ pc' = [r \in Runs |-> IF r \in S THEN "cancelled" ELSE pc[r]]
    /\ UNCHANGED <<stage, findings, gate, diagnosis, calls, sync, report>>

-----------------------------------------------------------------------------
Diagnose(r) == Propose(r) \/ InvalidAnswer(r)

PollAnswered(r) ==
    \/ SyncPending(r)
    \/ \E result \in {"synced", "failed"} : SyncEnded(r, result)
    \/ SyncTimedOut(r)

\* What a run does by itself once the service it awaits has answered.
Step(r) ==
    \/ Begin(r)
    \/ detect(r)
    \/ connection_tables(r)
    \/ baseline_precondition(r)
    \/ inspect(r)
    \/ Diagnose(r)
    \/ ReadMarkers(r)
    \/ SendWrite(r)
    \/ \E ok \in BOOLEAN : WriteReturns(r, ok)
    \/ PollAnswered(r)
    \/ Recheck(r)
    \/ Raise(r)

Next ==
    \/ \E r \in Runs : Step(r) \/ \E d \in Decisions : Decide(r, d)
    \/ \E S \in SUBSET Runs : Cancel(S)

Spec == Init /\ [][Next]_vars

\* The services a run awaits answer or fail; the human need not.
Fairness == \A r \in Runs : WF_vars(Step(r))
FairSpec == Spec /\ Fairness
-----------------------------------------------------------------------------
(* Properties.                                                             *)

Stages == {"none", "scanning", "detecting", "inspecting", "diagnosing",
           "acting", "verifying"}

Reports ==
    [status        : {"none", "no-issue", "baseline_missing", "resolved",
                      "diagnosis_failed", "unresolved"},
     detected      : SUBSET (FivetranIssues \cup Checks),
     proposed      : Proposal,
     approval      : {"none", "approved", "rejected"},
     action_taken  : {"none", "manual", "executed", "refused"},
     verification  : {"none", "diagnosis_failed", "passed", "failed", "timed_out"},
     rerun         : SUBSET Checks,
     still_failing : SUBSET Checks]

\* The state of a run, the vocabulary of its report and its bounded counters.
TypeOK ==
    /\ pc \in [Runs -> Live \cup Ended]
    /\ stage \in [Runs -> Stages]
    /\ fivetran \in [Runs -> SUBSET FivetranIssues]
    /\ tables \in [Runs -> SUBSET KnownTables]
    /\ failed \in [Runs -> SUBSET Checks]
    /\ payload \in [Runs -> SUBSET Checks]
    /\ attempt \in [Runs -> {0, 1}]
    /\ tries \in [Runs -> 0 .. MAX_DIAGNOSIS_ATTEMPTS]
    /\ prompts \in [Runs -> Nat]
    /\ proposal \in [Runs -> Proposal]
    /\ offered \in [Runs -> Proposal]
    /\ answer \in [Runs -> Decisions \cup {NoDecision}]
    /\ calls \in [Runs -> Seq(Call)]
    /\ polls \in [Runs -> 0 .. MaxPolls + 1]
    /\ poll \in [Runs -> {"none", "synced", "failed", "timed_out"}]
    /\ report \in [Runs -> Reports]

\* The plan a decision on the offered proposal asks for.
AnsweredPlan(r) ==
    IF answer[r].decision = "modified"
    THEN [offered[r] EXCEPT !.targets = (answer[r].targets \cap tables[r])
                                          \cap KnownTables]
    ELSE offered[r]

\* A run sends at most one write, and only the call the human answered to: the
\* one shown, or the shown one narrowed to inspected tables (loop.py:249-290:
\* nothing between `await approval` and act.act may swap the proposal, however
\* many rejections, revisions and edits came before).
WriteIsTheOneAnswered ==
    \A r \in Runs :
        calls[r] # << >> =>
            /\ answer[r].decision \in {"approved", "modified"}
            /\ calls[r] = <<planned_call(AnsweredPlan(r))>>

\* No resync_tables call goes out with an empty table list, neither from a
\* model answer nor from an edit whose targets all fell off the allowlist
\* (diagnose.py:60, loop.py:252-265).
NoUnscopedResync ==
    \A r \in Runs : \A i \in DOMAIN calls[r] :
        calls[r][i].tool = "resync_tables" => calls[r][i].schema # {}

\* "resolved" is said only when every check given to the diagnosis was re-run
\* and passed, after an approval, and never over a sync that failed or timed
\* out (verify.py:163-169, loop.py:308-311).
ResolvedIsVerified ==
    \A r \in Runs :
        report[r].status = "resolved" =>
            /\ report[r].approval = "approved"
            /\ payload[r] # {} /\ report[r].rerun = payload[r]
            /\ report[r].still_failing = {}
            /\ report[r].action_taken = "executed" => poll[r] = "synced"

\* A run asks the model for at most two diagnoses of MAX_DIAGNOSIS_ATTEMPTS
\* answers each, whatever mix of invalid answers and rejections it meets
\* (loop.py:42, 125, 249, 269).
PromptBudget ==
    \A r \in Runs : prompts[r] <= 2 * MAX_DIAGNOSIS_ATTEMPTS

\* The report of a run that came to its end tells whether a write was sent
\* (loop.py:290-291), and the early exits sent none.
ReportTellsOfWrites ==
    \A r \in Runs :
        pc[r] = "done" =>
            (calls[r] # << >> <=> report[r].action_taken \in {"executed", "refused"})

\* Again and again a run is over or at the gate: every other await answers,
\* and the retries and polls in between are bounded, so that only a human can
\* hold a run up.
OnlyHumansStallRuns ==
    \A r \in Runs : []<>(pc[r] \in Ended \cup {"gate"})

\* The phase of the gate contract a run is in.
Phase(r) ==
    IF pc[r] \in Ended THEN "closed"
    ELSE IF pc[r] = "gate" THEN "offered"
    ELSE IF pc[r] \in {"pre", "act"} THEN "cleared"
    ELSE IF pc[r] \in {"sent", "poll", "recheck"} THEN "acted"
    ELSE "idle"

Contract == INSTANCE GateContract
              WITH phase   <- [r \in Runs |-> Phase(r)],
                   plan    <- proposal,
                   revised <- [r \in Runs |-> attempt[r] = 1]

\* The loop implements the gate contract.
GateKept == Contract!Spec

\* Where a run stands with its wait for a sync.
Wait(r) ==
    IF pc[r] = "poll" THEN "waiting"
    ELSE IF pc[r] \in {"recheck"} \cup Ended THEN "over"
    ELSE "before"

Polling == INSTANCE PollContract WITH wait <- [r \in Runs |-> Wait(r)]

\* The loop implements the poll contract: it waits only after a write, polls as
\* often as the timeout allows, and has one result (loop.py:292-307).
WaitKept == Polling!Spec

-----------------------------------------------------------------------------
(* Statements of the docs that the code does not keep.                     *)

\* verify.py:5: the step "re-runs every DQ check that failed in step 3
\* (INSPECT)" before a run is called resolved.
EveryFailedCheckRerun ==
    \A r \in Runs : report[r].status = "resolved" => report[r].rerun = failed[r]
=============================================================================
