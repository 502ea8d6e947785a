--------------------------- MODULE AgentLoopProofs ---------------------------
(***************************************************************************)
(* Theorems about AgentLoop, for every set of runs, tables, checks and     *)
(* model answers, and every bound on attempts and polls.                   *)
(***************************************************************************)
EXTENDS AgentLoop, TLAPS

\* What makes the counters of TypeOK inductive: a diagnosis under way has an
\* answer left, a poll under way fits in the budget.
CountersInv ==
    \A r \in Runs :
        /\ pc[r] \notin Ended => tries[r] < MAX_DIAGNOSIS_ATTEMPTS
        /\ pc[r] \notin Ended \cup {"recheck"} => polls[r] <= MaxPolls

\* Only a valid proposal gets past the diagnosis, and only a proposal that
\* names a write tool gets to the write session.
ValidInv ==
    \A r \in Runs :
        /\ pc[r] \in {"gate", "pre", "act"} => validate_payload(proposal[r])
        /\ pc[r] = "act" => proposal[r].action # "manual"

TypeInv == TypeOK /\ CountersInv /\ ValidInv

\* Every valid proposal that is not manual stands for a well-formed call, and
\* a table resync among them names a table (act.py:57-82).
LEMMA PlannedCallType ==
    ASSUME NEW p \in Proposal, validate_payload(p), p.action # "manual"
    PROVE  /\ planned_call(p) \in Call
           /\ planned_call(p).tool = "resync_tables" => planned_call(p).schema # {}
<1>1. p.action \in {"sync_connection", "resync_connection", "resync_tables",
                    "reload_schema"}
  BY DEF validate_payload, VALID_ACTIONS
<1>2. p.targets \in SUBSET Names /\ (p.action = "resync_tables" => p.targets # {})
  BY DEF Proposal, validate_payload
<1>3. CASE p.action = "sync_connection"
  BY <1>2, <1>3 DEF planned_call, request_body, ACTION_TO_TOOL, Call
<1>4. CASE p.action = "resync_connection"
  BY <1>2, <1>4 DEF planned_call, request_body, ACTION_TO_TOOL, Call
<1>5. CASE p.action = "resync_tables"
  BY <1>2, <1>5 DEF planned_call, request_body, ACTION_TO_TOOL, Call
<1>6. CASE p.action = "reload_schema"
  BY <1>2, <1>6 DEF planned_call, request_body, ACTION_TO_TOOL, Call
<1> QED BY <1>1, <1>3, <1>4, <1>5, <1>6

\* An edit bounded to allowlisted tables is a proposal again (loop.py:256-258).
LEMMA CandidateType ==
    ASSUME TypeOK, NEW r \in Runs, NEW d \in Decisions
    PROVE  candidate(r, d) \in Proposal
<1> DEFINE T == (d.targets \cap tables[r]) \cap KnownTables
<1>1. proposal[r] \in Proposal /\ T \in SUBSET Names
  BY KnownTablesAssumption DEF TypeOK
<1>2. ASSUME NEW p \in Proposal PROVE [p EXCEPT !.targets = T] \in Proposal
  BY <1>1 DEF Proposal
<1> QED BY <1>1, <1>2 DEF candidate

\* What is called from the initial state on.
LEMMA TypeInit == Init => TypeInv
<1> SUFFICES ASSUME Init PROVE TypeInv
  OBVIOUS
<1>1. NoProposal \in Proposal
  BY DEF NoProposal, Proposal
<1>2. EmptyReport \in Reports
  BY <1>1 DEF EmptyReport, Reports
<1>3. TypeOK
  BY <1>1, <1>2, AttemptsAssumption, MaxPollsAssumption
     DEF Init, TypeOK, Live, Stages
<1>4. CountersInv
  BY AttemptsAssumption, MaxPollsAssumption DEF Init, CountersInv
<1>5. ValidInv
  BY DEF Init, ValidInv
<1> QED BY <1>3, <1>4, <1>5 DEF TypeInv

ReportStatuses == {"none", "no-issue", "baseline_missing", "resolved",
             "diagnosis_failed", "unresolved"}
Verdicts == {"none", "diagnosis_failed", "passed", "failed", "timed_out"}

\* A report stays a report when a field is given another value of its kind.
LEMMA ReportFields ==
    ASSUME NEW rep \in Reports
    PROVE  /\ \A v \in ReportStatuses : [rep EXCEPT !.status = v] \in Reports
           /\ \A v \in SUBSET (FivetranIssues \cup Checks) :
                 [rep EXCEPT !.detected = v] \in Reports
           /\ \A v \in Proposal :
                 /\ [rep EXCEPT !.proposed = v] \in Reports
                 /\ [rep EXCEPT !.proposed = v, !.approval = "approved"] \in Reports
           /\ \A v \in {"none", "approved", "rejected"} :
                 [rep EXCEPT !.approval = v] \in Reports
           /\ \A v \in {"none", "manual", "executed", "refused"} :
                 [rep EXCEPT !.action_taken = v] \in Reports
           /\ \A v \in Verdicts :
                 /\ [rep EXCEPT !.verification = v] \in Reports
                 /\ \A c \in SUBSET Checks, f \in SUBSET Checks :
                       [rep EXCEPT !.verification = v, !.rerun = c,
                                   !.still_failing = f] \in Reports
BY DEF Reports, ReportStatuses, Verdicts

LEMMA ReportType ==
    ASSUME TypeOK, NEW r \in Runs, NEW rep \in Reports, Report(r, rep)
    PROVE  report' \in [Runs -> Reports]
BY DEF TypeOK, Report

LEMMA FinishType ==
    ASSUME TypeOK, NEW r \in Runs, NEW rep \in Reports, NEW from,
           NEW status \in ReportStatuses, finish(r, from, rep, status)
    PROVE  report' \in [Runs -> Reports] /\ pc[r] = from
           /\ pc' = [pc EXCEPT ![r] = "done"]
<1>1. [rep EXCEPT !.status = status] \in Reports
  BY ReportFields
<1> QED BY <1>1, ReportType DEF finish, Goto

LEMMA TypeStep == TypeInv /\ [Next]_vars => TypeInv'
<1> SUFFICES ASSUME TypeInv, [Next]_vars PROVE TypeInv'
  OBVIOUS
<1> USE AttemptsAssumption, MaxPollsAssumption DEF TypeInv
<1>1. ASSUME NEW r \in Runs, Begin(r) PROVE TypeInv'
  <2>1. TypeOK'
    BY <1>1
       DEF Begin, Goto, emit, findings, gate, diagnosis, sync, TypeOK, CountersInv, Live,
           Ended, Awaiting, Stages
  <2>2. CountersInv' /\ ValidInv'
    BY <1>1
       DEF Begin, Goto, emit, findings, gate, diagnosis, sync, TypeOK, CountersInv,
           ValidInv, Ended, Awaiting
  <2> QED BY <2>1, <2>2
<1>2. ASSUME NEW r \in Runs, detect(r) PROVE TypeInv'
  <2>1. TypeOK'
    BY <1>2
       DEF detect, Goto, emit, findings, gate, diagnosis, sync, TypeOK, CountersInv, Live,
           Ended, Awaiting, Stages
  <2>2. CountersInv' /\ ValidInv'
    BY <1>2
       DEF detect, Goto, emit, findings, gate, diagnosis, sync, TypeOK, CountersInv,
           ValidInv, Ended, Awaiting
  <2> QED BY <2>1, <2>2
<1>3. ASSUME NEW r \in Runs, connection_tables(r) PROVE TypeInv'
  <2>1. PICK enabled \in SUBSET Names :
              LET T == enabled \cap KnownTables
              IN  /\ tables' = [tables EXCEPT ![r] = T]
                  /\ IF T = {}
                     THEN finish(r, "tables", [report[r] EXCEPT !.detected = fivetran[r]],
                                 "no-issue")
                     ELSE Goto(r, "tables", "baseline") /\ UNCHANGED report
    BY <1>3 DEF connection_tables
  <2>2. [report[r] EXCEPT !.detected = fivetran[r]] \in Reports
    BY ReportFields DEF TypeOK
  <2>3. tables' \in [Runs -> SUBSET KnownTables]
    BY <2>1 DEF TypeOK
  <2>4. /\ report' \in [Runs -> Reports]
        /\ \/ pc[r] = "tables" /\ pc' = [pc EXCEPT ![r] = "done"]
           \/ pc[r] = "tables" /\ pc' = [pc EXCEPT ![r] = "baseline"]
    <3>1. CASE enabled \cap KnownTables = {}
      BY <2>1, <2>2, <3>1, FinishType DEF ReportStatuses
    <3>2. CASE enabled \cap KnownTables # {}
      BY <2>1, <3>2 DEF Goto, TypeOK
    <3> QED BY <3>1, <3>2
  <2>5. UNCHANGED <<stage, fivetran, failed, payload, attempt, proposal, offered, answer,
                    tries, prompts, calls, polls, poll>>
    BY <1>3 DEF connection_tables, gate, diagnosis, sync
  <2>6. TypeOK'
    BY <2>3, <2>4, <2>5 DEF TypeOK, CountersInv, Live, Ended, Awaiting, Stages
  <2>7. CountersInv'
    BY <2>4, <2>5 DEF TypeOK, CountersInv, Ended
  <2>8. ValidInv'
    BY <2>4, <2>5 DEF TypeOK, ValidInv
  <2> QED BY <2>6, <2>7, <2>8
<1>4. ASSUME NEW r \in Runs, baseline_precondition(r) PROVE TypeInv'
  <2>1. report' \in [Runs -> Reports]
    <3>1. CASE finish(r, "baseline", report[r], "baseline_missing")
      BY <3>1, FinishType DEF TypeOK, ReportStatuses
    <3>2. CASE UNCHANGED report
      BY <3>2 DEF TypeOK
    <3> QED BY <1>4, <3>1, <3>2 DEF baseline_precondition
  <2>2. /\ pc[r] = "baseline"
        /\ pc' \in {[pc EXCEPT ![r] = "inspect"], [pc EXCEPT ![r] = "done"]}
        /\ stage' \in {stage, [stage EXCEPT ![r] = "inspecting"]}
    BY <1>4 DEF baseline_precondition, finish, Goto, emit
  <2>3. UNCHANGED <<fivetran, tables, failed, payload, attempt, proposal, offered, answer,
                    tries, prompts, calls, polls, poll>>
    BY <1>4 DEF baseline_precondition, Goto, emit, findings, gate, diagnosis, sync
  <2>4. TypeOK'
    BY <2>1, <2>2, <2>3 DEF TypeOK, CountersInv, Live, Ended, Awaiting, Stages
  <2>5. CountersInv' /\ ValidInv'
    BY <2>2, <2>3 DEF TypeOK, CountersInv, ValidInv, Ended
  <2> QED BY <2>4, <2>5
<1>5. ASSUME NEW r \in Runs, inspect(r) PROVE TypeInv'
  <2> DEFINE rep(F) == [report[r] EXCEPT !.detected = fivetran[r] \cup F]
  <2>1. PICK F \in SUBSET {c \in Checks : TableOf[c] \in tables[r]} :
              /\ failed' = [failed EXCEPT ![r] = F]
              /\ IF F = {}
                 THEN /\ finish(r, "inspect", rep(F), IF fivetran[r] = {} THEN "no-issue"
                                                               ELSE "unresolved")
                      /\ UNCHANGED <<stage, payload>>
                 ELSE /\ Goto(r, "inspect", "diagnose")
                      /\ Report(r, rep(F))
                      /\ \E t \in PrimaryTables(F) :
                            payload' = [payload EXCEPT ![r] = FailedOn(F, t)]
                      /\ emit(r, "diagnosing")
    BY <1>5 DEF inspect
  <2>2. fivetran[r] \cup F \in SUBSET (FivetranIssues \cup Checks)
    BY DEF TypeOK
  <2>3. rep(F) \in Reports
    BY <2>2, ReportFields DEF TypeOK
  <2>4. /\ report' \in [Runs -> Reports]
        /\ payload' \in [Runs -> SUBSET Checks]
        /\ pc[r] = "inspect"
        /\ pc' \in {[pc EXCEPT ![r] = "done"], [pc EXCEPT ![r] = "diagnose"]}
        /\ stage' \in {stage, [stage EXCEPT ![r] = "diagnosing"]}
    <3>1. CASE F = {}
      <4>1. PICK status \in ReportStatuses : finish(r, "inspect", rep(F), status)
        BY <2>1, <3>1 DEF ReportStatuses
      <4>2. UNCHANGED <<stage, payload>>
        BY <2>1, <3>1
      <4>3. report' \in [Runs -> Reports] /\ pc[r] = "inspect" /\ pc' = [pc EXCEPT ![r] = "done"]
        BY <4>1, <2>3, FinishType
      <4> QED BY <4>2, <4>3 DEF TypeOK
    <3>2. CASE F # {}
      <4>1. PICK t \in PrimaryTables(F) : payload' = [payload EXCEPT ![r] = FailedOn(F, t)]
        BY <2>1, <3>2
      <4>2. payload' \in [Runs -> SUBSET Checks]
        BY <4>1 DEF TypeOK, FailedOn
      <4>3. Report(r, rep(F)) /\ Goto(r, "inspect", "diagnose") /\ emit(r, "diagnosing")
        BY <2>1, <3>2
      <4>4. report' \in [Runs -> Reports]
        BY <4>3, <2>3, ReportType
      <4> QED BY <4>2, <4>3, <4>4 DEF Goto, emit
    <3> QED BY <3>1, <3>2
  <2>5. UNCHANGED <<fivetran, tables, attempt, proposal, offered, answer, tries, prompts,
                    calls, polls, poll>>
    BY <1>5 DEF inspect, gate, diagnosis, sync
  <2>6. failed' \in [Runs -> SUBSET Checks]
    BY <2>1 DEF TypeOK
  <2>7. TypeOK'
    BY <2>4, <2>5, <2>6 DEF TypeOK, CountersInv, Live, Ended, Awaiting, Stages
  <2>8. CountersInv' /\ ValidInv'
    BY <2>4, <2>5 DEF TypeOK, CountersInv, ValidInv, Ended
  <2> QED BY <2>7, <2>8
<1>6. ASSUME NEW r \in Runs, Propose(r) PROVE TypeInv'
  <2>1. PICK p \in ModelOutputs :
              /\ validate_payload(p)
              /\ proposal' = [proposal EXCEPT ![r] = p]
              /\ offered' = [offered EXCEPT ![r] = p]
              /\ Report(r, [report[r] EXCEPT !.proposed = p])
    BY <1>6 DEF Propose
  <2>2. p \in Proposal
    BY ModelOutputsAssumption
  <2>3. [report[r] EXCEPT !.proposed = p] \in Reports
    BY <2>2, ReportFields DEF TypeOK
  <2>4. report' \in [Runs -> Reports]
    BY <2>1, <2>3, ReportType
  <2>5. tries' \in [Runs -> 0 .. MAX_DIAGNOSIS_ATTEMPTS] /\ prompts' \in [Runs -> Nat]
    <3>1. 0 \in 0 .. MAX_DIAGNOSIS_ATTEMPTS /\ prompts[r] + 1 \in Nat
      BY DEF TypeOK
    <3> QED BY <1>6, <3>1 DEF Propose, TypeOK
  <2>6. TypeOK'
    BY <1>6, <2>1, <2>2, <2>4, <2>5
       DEF Propose, Goto, emit, findings, gate, diagnosis, sync, TypeOK, CountersInv, Live,
           Ended, Awaiting, Stages
  <2>7. CountersInv'
    BY <1>6
       DEF Propose, Goto, emit, findings, gate, diagnosis, sync, TypeOK, CountersInv, Ended
  <2>8. ValidInv'
    BY <1>6, <2>1 DEF Propose, Goto, emit, findings, gate, diagnosis, sync, TypeOK, ValidInv
  <2> QED BY <2>6, <2>7, <2>8
<1>7. ASSUME NEW r \in Runs, InvalidAnswer(r) PROVE TypeInv'
  <2>1. /\ report' \in [Runs -> Reports]
        /\ pc[r] = "diagnose"
        /\ \/ pc' = [pc EXCEPT ![r] = "diagnose"] /\ tries[r] + 1 < MAX_DIAGNOSIS_ATTEMPTS
           \/ pc' = [pc EXCEPT ![r] = "done"]
    <3>1. CASE tries[r] + 1 < MAX_DIAGNOSIS_ATTEMPTS
      BY <1>7, <3>1 DEF InvalidAnswer, Goto, TypeOK
    <3>2. CASE ~ (tries[r] + 1 < MAX_DIAGNOSIS_ATTEMPTS)
      <4>1. PICK rep \in Reports, status \in ReportStatuses : finish(r, "diagnose", rep, status)
        <5>1. /\ [report[r] EXCEPT !.verification = "diagnosis_failed"] \in Reports
              /\ [report[r] EXCEPT !.approval = "rejected"] \in Reports
          BY ReportFields DEF TypeOK, Verdicts
        <5> QED BY <1>7, <3>2, <5>1 DEF InvalidAnswer, ReportStatuses
      <4> QED BY <4>1, FinishType
    <3> QED BY <3>1, <3>2
  <2>2. /\ prompts' = [prompts EXCEPT ![r] = @ + 1]
        /\ tries' = [tries EXCEPT ![r] = @ + 1]
        /\ UNCHANGED <<stage, fivetran, tables, failed, payload, attempt, proposal, offered,
                       answer, calls, polls, poll>>
    BY <1>7 DEF InvalidAnswer, findings, gate, sync
  <2>3. tries[r] \in Nat /\ tries[r] < MAX_DIAGNOSIS_ATTEMPTS /\ prompts[r] \in Nat
    <3>1. tries[r] < MAX_DIAGNOSIS_ATTEMPTS
      BY <2>1 DEF CountersInv, Ended
    <3>2. tries[r] \in 0 .. MAX_DIAGNOSIS_ATTEMPTS /\ prompts[r] \in Nat
      BY DEF TypeOK
    <3> QED BY <3>1, <3>2
  <2>4. tries' \in [Runs -> 0 .. MAX_DIAGNOSIS_ATTEMPTS] /\ prompts' \in [Runs -> Nat]
    BY <2>2, <2>3 DEF TypeOK
  <2>5. TypeOK'
    BY <2>1, <2>2, <2>4 DEF TypeOK, CountersInv, Live, Ended, Awaiting, Stages
  <2>6. CountersInv'
    BY <2>1, <2>2 DEF TypeOK, CountersInv, Ended
  <2>7. ValidInv'
    BY <2>1, <2>2 DEF TypeOK, ValidInv
  <2> QED BY <2>5, <2>6, <2>7
<1>8. ASSUME NEW r \in Runs, NEW d \in Decisions, Decide(r, d) PROVE TypeInv'
  <2>1. proposal[r] \in Proposal /\ candidate(r, d) \in Proposal /\ report[r] \in Reports
    BY CandidateType DEF TypeOK
  <2>2. CASE \E p \in Proposal : validate_payload(p) /\ Accept(r, p)
    <3>1. PICK p \in Proposal : validate_payload(p) /\ Accept(r, p)
      BY <2>2
    <3>2. [report[r] EXCEPT !.proposed = p, !.approval = "approved"] \in Reports
      BY <2>1, ReportFields
    <3>3. report' \in [Runs -> Reports]
      BY <3>1, <3>2, ReportType DEF Accept
    <3>4. TypeOK'
      BY <1>8, <3>1, <3>3
         DEF Decide, Accept, Goto, emit, findings, gate, diagnosis, sync, TypeOK,
             CountersInv, Live, Ended, Awaiting, Stages
    <3>5. CountersInv'
      BY <1>8, <3>1
         DEF Decide, Accept, Goto, emit, findings, gate, diagnosis, sync, TypeOK,
             CountersInv, Ended
    <3>6. ValidInv'
      BY <1>8, <3>1
         DEF Decide, Accept, Goto, emit, findings, gate, diagnosis, sync, TypeOK, ValidInv
    <3> QED BY <3>4, <3>5, <3>6
  <2>3. CASE Refuse(r)
    <3>1. [report[r] EXCEPT !.approval = "rejected"] \in Reports
      BY <2>1, ReportFields
    <3>2. /\ report' \in [Runs -> Reports]
          /\ pc[r] = "gate"
          /\ pc' \in {[pc EXCEPT ![r] = "diagnose"], [pc EXCEPT ![r] = "done"]}
      <4>1. CASE attempt[r] = 0
        BY <2>3, <4>1 DEF Refuse, Goto, TypeOK
      <4>2. CASE attempt[r] # 0
        BY <2>3, <3>1, <4>2, FinishType DEF Refuse, ReportStatuses
      <4> QED BY <4>1, <4>2
    <3>3. /\ attempt' = [attempt EXCEPT ![r] = 1]
          /\ answer' = [answer EXCEPT ![r] = d]
          /\ UNCHANGED <<stage, fivetran, tables, failed, payload, tries, prompts, proposal,
                         offered, calls, polls, poll>>
      BY <1>8, <2>3 DEF Decide, Refuse, findings, diagnosis, sync
    <3>4. TypeOK'
      BY <3>2, <3>3 DEF TypeOK, CountersInv, Live, Ended, Awaiting, Stages
    <3>5. CountersInv' /\ ValidInv'
      BY <3>2, <3>3 DEF TypeOK, CountersInv, ValidInv, Ended
    <3> QED BY <3>4, <3>5
  <2>4. validate_payload(proposal[r]) \/ Refuse(r) \/ d.decision = "modified"
    BY <1>8 DEF Decide, Accept, Goto, ValidInv
  <2> QED BY <1>8, <2>1, <2>2, <2>3, <2>4 DEF Decide
<1>9. ASSUME NEW r \in Runs, ReadMarkers(r) PROVE TypeInv'
  <2>1. report' \in [Runs -> Reports]
    <3>1. [report[r] EXCEPT !.action_taken = "manual"] \in Reports
      BY ReportFields DEF TypeOK
    <3>2. CASE UNCHANGED report
      BY <3>2 DEF TypeOK
    <3>3. CASE Report(r, [report[r] EXCEPT !.action_taken = "manual"])
      BY <3>1, <3>3, ReportType
    <3> QED BY <1>9, <3>2, <3>3 DEF ReadMarkers
  <2>2. TypeOK'
    BY <1>9, <2>1
       DEF ReadMarkers, Goto, emit, findings, gate, diagnosis, sync, TypeOK, CountersInv,
           Live, Ended, Awaiting, Stages
  <2>3. CountersInv' /\ ValidInv'
    BY <1>9
       DEF ReadMarkers, Goto, emit, findings, gate, diagnosis, sync, TypeOK, CountersInv,
           ValidInv, Ended
  <2> QED BY <2>2, <2>3
<1>10. ASSUME NEW r \in Runs, SendWrite(r) PROVE TypeInv'
  <2>1. planned_call(proposal[r]) \in Call
    BY <1>10, PlannedCallType DEF SendWrite, Goto, TypeOK, ValidInv
  <2>2. calls' \in [Runs -> Seq(Call)]
    BY <1>10, <2>1 DEF SendWrite, TypeOK
  <2>3. TypeOK'
    BY <1>10, <2>2
       DEF SendWrite, Goto, emit, findings, gate, diagnosis, sync, TypeOK, CountersInv,
           Live, Ended, Awaiting, Stages
  <2>4. CountersInv' /\ ValidInv'
    BY <1>10
       DEF SendWrite, Goto, emit, findings, gate, diagnosis, sync, TypeOK, CountersInv,
           ValidInv, Ended
  <2> QED BY <2>3, <2>4
<1>11. ASSUME NEW r \in Runs, NEW ok \in BOOLEAN, WriteReturns(r, ok) PROVE TypeInv'
  <2>1. report' \in [Runs -> Reports]
    <3>1. PICK v \in {"executed", "refused"} :
              Report(r, [report[r] EXCEPT !.action_taken = v])
      BY <1>11 DEF WriteReturns
    <3>2. [report[r] EXCEPT !.action_taken = v] \in Reports
      BY ReportFields DEF TypeOK
    <3> QED BY <3>1, <3>2, ReportType
  <2>2. TypeOK'
    BY <1>11, <2>1
       DEF WriteReturns, Goto, emit, findings, gate, diagnosis, sync, TypeOK, CountersInv,
           Live, Ended, Awaiting, Stages
  <2>3. CountersInv' /\ ValidInv'
    BY <1>11
       DEF WriteReturns, Goto, emit, findings, gate, diagnosis, sync, TypeOK, CountersInv,
           ValidInv, Ended
  <2> QED BY <2>2, <2>3
<1>12. ASSUME NEW r \in Runs, SyncPending(r) PROVE TypeInv'
  <2>1. TypeOK'
    BY <1>12
       DEF SyncPending, Goto, emit, findings, gate, diagnosis, sync, TypeOK, CountersInv,
           Live, Ended, Awaiting, Stages
  <2>2. CountersInv' /\ ValidInv'
    BY <1>12
       DEF SyncPending, Goto, emit, findings, gate, diagnosis, sync, TypeOK, CountersInv,
           ValidInv, Ended, Awaiting
  <2> QED BY <2>1, <2>2
<1>13. ASSUME NEW r \in Runs, NEW result \in {"synced", "failed"}, SyncEnded(r, result) PROVE TypeInv'
  <2>1. polls[r] \in Nat /\ polls[r] <= MaxPolls
    <3>1. pc[r] = "poll"
      BY <1>13 DEF SyncEnded, finish, Goto
    <3>2. polls[r] <= MaxPolls
      BY <3>1 DEF CountersInv, Ended
    <3>3. polls[r] \in 0 .. MaxPolls + 1
      BY DEF TypeOK
    <3> QED BY <3>2, <3>3
  <2>2. polls' = [polls EXCEPT ![r] = polls[r] + 1]
    BY <1>13 DEF SyncEnded
  <2>3. polls' \in [Runs -> 0 .. MaxPolls + 1]
    BY <2>1, <2>2 DEF TypeOK
  <2>4. TypeOK'
    BY <1>13, <2>3
       DEF SyncEnded, Goto, emit, findings, gate, diagnosis, sync, TypeOK, CountersInv,
           Live, Ended, Awaiting, Stages
  <2>5. CountersInv' /\ ValidInv'
    BY <1>13
       DEF SyncEnded, Goto, emit, findings, gate, diagnosis, sync, TypeOK, CountersInv,
           ValidInv, Ended
  <2> QED BY <2>4, <2>5
<1>14. ASSUME NEW r \in Runs, SyncTimedOut(r) PROVE TypeInv'
  <2>1. polls[r] \in Nat /\ polls[r] <= MaxPolls
    <3>1. pc[r] = "poll"
      BY <1>14 DEF SyncTimedOut, finish, Goto
    <3>2. polls[r] <= MaxPolls
      BY <3>1 DEF CountersInv, Ended
    <3>3. polls[r] \in 0 .. MaxPolls + 1
      BY DEF TypeOK
    <3> QED BY <3>2, <3>3
  <2>2. polls' = [polls EXCEPT ![r] = polls[r] + 1]
    BY <1>14 DEF SyncTimedOut
  <2>3. polls' \in [Runs -> 0 .. MaxPolls + 1]
    BY <2>1, <2>2 DEF TypeOK
  <2>4. [report[r] EXCEPT !.verification = "timed_out"] \in Reports
    BY ReportFields DEF TypeOK, Verdicts
  <2>5. report' \in [Runs -> Reports]
    BY <1>14, <2>4, FinishType DEF SyncTimedOut, ReportStatuses
  <2>6. TypeOK'
    BY <1>14, <2>3, <2>5
       DEF SyncTimedOut, finish, Goto, emit, findings, gate, diagnosis, sync, TypeOK,
           CountersInv, Live, Ended, Awaiting, Stages
  <2>7. CountersInv' /\ ValidInv'
    BY <1>14
       DEF SyncTimedOut, finish, Goto, emit, findings, gate, diagnosis, sync, TypeOK,
           CountersInv, ValidInv, Ended
  <2> QED BY <2>6, <2>7
<1>15. ASSUME NEW r \in Runs, Recheck(r) PROVE TypeInv'
  <2>1. PICK rep \in Reports, status \in ReportStatuses : finish(r, "recheck", rep, status)
    <3>1. PICK failing \in SUBSET payload[r] :
             LET result == verification_result(r, failing)
             IN  finish(r, "recheck",
                        [report[r] EXCEPT !.verification = result,
                                          !.rerun = payload[r],
                                          !.still_failing = failing],
                        IF result = "passed" THEN "resolved" ELSE "unresolved")
      BY <1>15 DEF Recheck
    <3>2. verification_result(r, failing) \in Verdicts
      BY DEF verification_result, Verdicts
    <3>3. payload[r] \in SUBSET Checks /\ failing \in SUBSET Checks
      BY DEF TypeOK
    <3>4. [report[r] EXCEPT !.verification = verification_result(r, failing),
                            !.rerun = payload[r],
                            !.still_failing = failing] \in Reports
      BY <3>2, <3>3, ReportFields DEF TypeOK
    <3> QED BY <3>1, <3>4 DEF ReportStatuses
  <2>2. /\ report' \in [Runs -> Reports]
        /\ pc[r] = "recheck"
        /\ pc' = [pc EXCEPT ![r] = "done"]
    BY <2>1, FinishType
  <2>3. UNCHANGED <<stage, fivetran, tables, failed, payload, attempt, proposal, offered, answer,
                    tries, prompts, calls, polls, poll>>
    BY <1>15 DEF Recheck, Goto, emit, findings, gate, diagnosis, sync
  <2>4. TypeOK'
    BY <2>2, <2>3 DEF TypeOK, CountersInv, Live, Ended, Awaiting, Stages
  <2>5. CountersInv' /\ ValidInv'
    BY <2>2, <2>3 DEF TypeOK, CountersInv, ValidInv, Ended
  <2> QED BY <2>4, <2>5
<1>16. ASSUME NEW r \in Runs, Raise(r) PROVE TypeInv'
  <2>1. TypeOK'
    BY <1>16
       DEF Raise, Goto, emit, findings, gate, diagnosis, sync, TypeOK, CountersInv, Live,
           Ended, Awaiting, Stages
  <2>2. CountersInv' /\ ValidInv'
    BY <1>16
       DEF Raise, Goto, emit, findings, gate, diagnosis, sync, TypeOK, CountersInv,
           ValidInv, Ended, Awaiting
  <2> QED BY <2>1, <2>2
<1>17. ASSUME NEW S \in SUBSET Runs, Cancel(S) PROVE TypeInv'
  BY <1>17
     DEF TypeOK, CountersInv, ValidInv, Cancel, findings, gate, diagnosis, sync, Live,
         Ended, Awaiting
<1>18. ASSUME UNCHANGED vars PROVE TypeInv'
  BY <1>18 DEF TypeOK, CountersInv, ValidInv, vars
<1> QED
  BY <1>1, <1>2, <1>3, <1>4, <1>5, <1>6, <1>7, <1>8, <1>9, <1>10, <1>11, <1>12,
     <1>13, <1>14, <1>15, <1>16, <1>17, <1>18
     DEF Next, Step, Diagnose, PollAnswered

\* The variables keep their types: AgentLoop's type invariant, with the bounds
\* on the model's answers and on the polls.
THEOREM TypeCorrect == Spec => []TypeOK
<1>1. Init => TypeInv
  BY TypeInit
<1>2. TypeInv /\ [Next]_vars => TypeInv'
  BY TypeStep
<1>3. TypeInv => TypeOK
  BY DEF TypeInv
<1> QED BY <1>1, <1>2, <1>3, PTL DEF Spec

-----------------------------------------------------------------------------
(* The gate: between the offer and the write nothing swaps the plan.       *)

Early == {"ready", "scan", "tables", "baseline", "inspect", "diagnose", "gate"}

IsAnswered(r) == answer[r].decision \in {"approved", "modified"}

\* What each stretch of a run knows about its plan and its calls.
GateInv ==
    \A r \in Runs :
        /\ pc[r] \in Early => calls[r] = << >>
        /\ pc[r] = "gate" => offered[r] = proposal[r]
        /\ pc[r] \in {"pre", "act"} =>
              calls[r] = << >> /\ IsAnswered(r) /\ proposal[r] = AnsweredPlan(r)
        /\ calls[r] # << >> =>
              /\ IsAnswered(r)
              /\ calls[r] = <<planned_call(AnsweredPlan(r))>>
              /\ AnsweredPlan(r) \in Proposal
              /\ validate_payload(AnsweredPlan(r))
              /\ AnsweredPlan(r).action # "manual"

\* A step that moves runs on without touching the gate's state or the calls.
MovesOn ==
    /\ UNCHANGED <<tables, offered, proposal, answer, calls>>
    /\ \A r \in Runs :
          \/ pc'[r] = pc[r]
          \/ pc'[r] \in {"sent", "poll", "recheck"} \cup Ended
          \/ pc[r] \in Early /\ pc'[r] \in Early \ {"gate"}
          \/ pc[r] = "pre" /\ pc'[r] = "act"

LEMMA MovingOnKeepsGateInv == GateInv /\ MovesOn => GateInv'
BY DEF GateInv, MovesOn, IsAnswered, AnsweredPlan, Early, Ended

\* A decision is carried out as the plan it asks for, valid, or as a refusal.
LEMMA DecideOutcome ==
    ASSUME TypeInv, NEW r \in Runs, NEW d \in Decisions, Decide(r, d)
    PROVE  \/ \E p \in Proposal :
                 /\ validate_payload(p)
                 /\ Accept(r, p)
                 /\ d.decision \in {"approved", "modified"}
                 /\ p = IF d.decision = "modified" THEN candidate(r, d) ELSE proposal[r]
           \/ Refuse(r)
<1>1. proposal[r] \in Proposal /\ candidate(r, d) \in Proposal
  BY CandidateType DEF TypeInv, TypeOK
<1>2. CASE d.decision = "approved" /\ Accept(r, proposal[r])
  <2>1. validate_payload(proposal[r])
    BY <1>2 DEF Accept, Goto, TypeInv, ValidInv
  <2> QED BY <1>1, <1>2, <2>1
<1>3. CASE /\ d.decision = "modified" /\ validate_payload(candidate(r, d))
           /\ Accept(r, candidate(r, d))
  BY <1>1, <1>3
<1> QED BY <1>2, <1>3 DEF Decide

LEMMA GateStep == TypeInv /\ GateInv /\ [Next]_vars => GateInv'
<1> SUFFICES ASSUME TypeInv, GateInv, [Next]_vars PROVE GateInv'
  OBVIOUS
<1> USE DEF TypeInv
<1>1. ASSUME NEW r \in Runs,
             \/ Begin(r) \/ detect(r) \/ baseline_precondition(r) \/ inspect(r)
             \/ InvalidAnswer(r)
      PROVE  GateInv'
  <2>1. /\ pc[r] \in Early /\ \E to \in (Early \ {"gate"}) \cup Ended :
                                  pc' = [pc EXCEPT ![r] = to]
        /\ UNCHANGED <<tables, offered, proposal, answer, calls>>
    <3>1. CASE Begin(r) \/ detect(r)
      BY <3>1 DEF Begin, detect, Goto, findings, gate, Early
    <3>2. CASE baseline_precondition(r)
      BY <3>2 DEF baseline_precondition, finish, Goto, findings, gate, Early, Ended
    <3>3. CASE inspect(r)
      <4>1. UNCHANGED <<tables, offered, proposal, answer, calls>>
        BY <3>3 DEF inspect, gate
      <4>2. \/ Goto(r, "inspect", "diagnose") \/ Goto(r, "inspect", "done")
        BY <3>3 DEF inspect, finish
      <4> QED BY <4>1, <4>2 DEF Goto, Early, Ended
    <3>4. CASE InvalidAnswer(r)
      BY <3>4 DEF InvalidAnswer, finish, Goto, findings, gate, Early, Ended
    <3> QED BY <1>1, <3>1, <3>2, <3>3, <3>4
  <2>2. MovesOn
    BY <2>1 DEF MovesOn, TypeOK
  <2> QED BY <2>2, MovingOnKeepsGateInv
<1>2. ASSUME NEW r \in Runs,
             \/ ReadMarkers(r) \/ (\E ok \in BOOLEAN : WriteReturns(r, ok))
             \/ PollAnswered(r) \/ Recheck(r) \/ Raise(r)
      PROVE  GateInv'
  <2>1. MovesOn
    BY <1>2 DEF TypeOK, ReadMarkers, WriteReturns, PollAnswered, SyncPending, SyncEnded,
                SyncTimedOut, Recheck, Raise, Goto, finish, findings, gate, MovesOn, Ended
  <2> QED BY <2>1, MovingOnKeepsGateInv
<1>3. ASSUME NEW S \in SUBSET Runs, Cancel(S) PROVE GateInv'
  <2>1. MovesOn
    BY <1>3 DEF TypeOK, Cancel, findings, gate, MovesOn, Ended
  <2> QED BY <2>1, MovingOnKeepsGateInv
<1>4. ASSUME UNCHANGED vars PROVE GateInv'
  <2>1. MovesOn
    BY <1>4 DEF vars, MovesOn
  <2> QED BY <2>1, MovingOnKeepsGateInv
<1>5. ASSUME NEW r \in Runs, connection_tables(r) PROVE GateInv'
  <2>1. /\ pc[r] = "tables"
        /\ pc' \in {[pc EXCEPT ![r] = "done"], [pc EXCEPT ![r] = "baseline"]}
        /\ \A s \in Runs \ {r} : tables'[s] = tables[s]
        /\ UNCHANGED <<offered, proposal, answer, calls>>
    BY <1>5 DEF connection_tables, finish, Goto, gate, TypeOK
  <2>2. calls[r] = << >>
    BY <2>1 DEF GateInv, Early
  <2>3. ASSUME NEW s \in Runs \ {r} PROVE pc'[s] = pc[s] /\ tables'[s] = tables[s]
    BY <2>1 DEF TypeOK
  <2>4. pc'[r] \in {"done", "baseline"}
    BY <2>1 DEF TypeOK
  <2> QED BY <2>1, <2>2, <2>3, <2>4 DEF GateInv, IsAnswered, AnsweredPlan, Early
<1>6. ASSUME NEW r \in Runs, Propose(r) PROVE GateInv'
  <2>1. PICK p \in ModelOutputs : /\ proposal' = [proposal EXCEPT ![r] = p]
                                  /\ offered' = [offered EXCEPT ![r] = p]
    BY <1>6 DEF Propose
  <2>2. /\ pc[r] = "diagnose" /\ pc' = [pc EXCEPT ![r] = "gate"]
        /\ UNCHANGED <<tables, answer, calls>>
    BY <1>6 DEF Propose, Goto, findings
  <2> QED BY <2>1, <2>2 DEF GateInv, TypeOK, IsAnswered, AnsweredPlan, Early
<1>7. ASSUME NEW r \in Runs, NEW d \in Decisions, Decide(r, d) PROVE GateInv'
  <2>1. answer' = [answer EXCEPT ![r] = d] /\ UNCHANGED <<tables, offered, calls>>
    BY <1>7 DEF Decide, findings
  <2>2. CASE Refuse(r)
    <3>1. /\ pc[r] = "gate" /\ UNCHANGED proposal
          /\ pc' \in {[pc EXCEPT ![r] = "diagnose"], [pc EXCEPT ![r] = "done"]}
      BY <2>2 DEF Refuse, finish, Goto
    <3> QED BY <2>1, <3>1 DEF GateInv, TypeOK, IsAnswered, AnsweredPlan, Early
  <2>3. ASSUME NEW p \in Proposal, Accept(r, p), d.decision \in {"approved", "modified"},
               p = IF d.decision = "modified" THEN candidate(r, d) ELSE proposal[r]
        PROVE  GateInv'
    <3>1. /\ pc[r] = "gate" /\ pc' = [pc EXCEPT ![r] = "pre"]
          /\ proposal' = [proposal EXCEPT ![r] = p]
      BY <2>3 DEF Accept, Goto
    <3>2. offered[r] = proposal[r] /\ calls[r] = << >>
      BY <3>1 DEF GateInv, Early
    <3>3. IsAnswered(r)' /\ (proposal[r] = AnsweredPlan(r))'
      BY <2>1, <2>3, <3>1, <3>2 DEF TypeOK, IsAnswered, AnsweredPlan, candidate
    <3> QED BY <2>1, <3>1, <3>2, <3>3 DEF GateInv, TypeOK, IsAnswered, AnsweredPlan, Early
  <2> QED BY <1>7, <2>2, <2>3, DecideOutcome
<1>8. ASSUME NEW r \in Runs, SendWrite(r) PROVE GateInv'
  <2>1. /\ pc[r] = "act" /\ pc' = [pc EXCEPT ![r] = "sent"]
        /\ calls' = [calls EXCEPT ![r] = Append(calls[r], planned_call(proposal[r]))]
        /\ UNCHANGED <<tables, offered, proposal, answer>>
    BY <1>8 DEF SendWrite, Goto, findings, gate
  <2>2. /\ calls[r] = << >> /\ IsAnswered(r) /\ proposal[r] = AnsweredPlan(r)
        /\ proposal[r] \in Proposal /\ validate_payload(proposal[r])
        /\ proposal[r].action # "manual"
    BY <2>1 DEF GateInv, TypeOK, ValidInv
  <2>3. calls'[r] = <<planned_call(proposal[r])>>
    BY <2>1, <2>2 DEF TypeOK
  <2>4. pc'[r] = "sent"
    BY <2>1 DEF TypeOK
  <2>5. ASSUME NEW s \in Runs \ {r} PROVE pc'[s] = pc[s] /\ calls'[s] = calls[s]
    BY <2>1 DEF TypeOK
  <2> QED BY <2>1, <2>2, <2>3, <2>4, <2>5 DEF GateInv, IsAnswered, AnsweredPlan, Early
<1> QED
  BY <1>1, <1>2, <1>3, <1>4, <1>5, <1>6, <1>7, <1>8 DEF Next, Step, Diagnose

LEMMA GateInit == Init => GateInv
BY DEF Init, GateInv, NoDecision, Early

LEMMA GateInvariant == Spec => [](TypeInv /\ GateInv)
<1>1. Init => TypeInv /\ GateInv
  BY TypeInit, GateInit
<1>2. TypeInv /\ GateInv /\ [Next]_vars => (TypeInv /\ GateInv)'
  BY TypeStep, GateStep
<1> QED BY <1>1, <1>2, PTL DEF Spec

\* At most one write per run, and only the call the human answered to, whatever
\* rejections, revisions and edits came before (loop.py:249-290).
THEOREM WritesAreAnswered == Spec => []WriteIsTheOneAnswered
<1>1. GateInv => WriteIsTheOneAnswered
  BY DEF GateInv, WriteIsTheOneAnswered, IsAnswered
<1> QED BY <1>1, GateInvariant, PTL

\* No resync_tables call goes out without a table (diagnose.py:60).
THEOREM ResyncsAreScoped == Spec => []NoUnscopedResync
<1>1. ASSUME GateInv, NEW r \in Runs, NEW i \in DOMAIN calls[r],
             calls[r][i].tool = "resync_tables"
      PROVE  calls[r][i].schema # {}
  <2>1. calls[r] = <<planned_call(AnsweredPlan(r))>>
    BY <1>1 DEF GateInv
  <2>2. calls[r][i] = planned_call(AnsweredPlan(r))
    BY <1>1, <2>1
  <2> QED BY <1>1, <2>1, <2>2, PlannedCallType DEF GateInv
<1>2. GateInv => NoUnscopedResync
  BY <1>1 DEF NoUnscopedResync
<1> QED BY <1>2, GateInvariant, PTL
=============================================================================
