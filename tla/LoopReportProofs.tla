--------------------------- MODULE LoopReportProofs ---------------------------
(***************************************************************************)
(* What the incident report of AgentLoop can be trusted to say, and how    *)
(* often the model is asked, for every value of the constants.             *)
(***************************************************************************)
EXTENDS AgentLoopProofs

Writes == {"executed", "refused"}

\* What each stretch of a run knows about its report: nothing is written there
\* before the plan is accepted, and a status only at the very end.
ReportInv ==
    \A r \in Runs :
        /\ pc[r] = "done" <=> report[r].status # "none"
        /\ pc[r] \in {"diagnose", "gate", "pre", "act", "sent", "poll", "recheck"} =>
              payload[r] # {}
        /\ pc[r] \in {"pre", "act", "sent", "poll", "recheck"} =>
              report[r].approval = "approved"
        /\ pc[r] \in Early \cup {"pre", "act", "sent"} =>
              report[r].action_taken = "none"
        /\ pc[r] \in {"sent", "poll"} => calls[r] # << >>
        /\ pc[r] = "poll" => report[r].action_taken = "executed"
        /\ pc[r] = "recheck" /\ report[r].action_taken = "executed" =>
              poll[r] \in {"synced", "failed"}
        /\ pc[r] \in {"recheck", "done"} =>
              (calls[r] # << >> <=> report[r].action_taken \in Writes)
        /\ report[r].status = "resolved" =>
              /\ report[r].approval = "approved"
              /\ payload[r] # {} /\ report[r].rerun = payload[r]
              /\ report[r].still_failing = {}
              /\ report[r].action_taken = "executed" => poll[r] = "synced"

\* The runs other than r are as they were.
OthersStay(r) ==
    \A s \in Runs \ {r} :
        /\ pc'[s] = pc[s] /\ report'[s] = report[s] /\ payload'[s] = payload[s]
        /\ calls'[s] = calls[s] /\ poll'[s] = poll[s]

\* A run that ends keeps in its report what was recorded of its action.
LEMMA FinishFields ==
    ASSUME TypeOK, NEW r \in Runs, NEW rep \in Reports, NEW from, NEW status,
           finish(r, from, rep, status)
    PROVE  /\ pc[r] = from /\ pc'[r] = "done"
           /\ report'[r].status = status
           /\ report'[r].action_taken = rep.action_taken
           /\ \A s \in Runs \ {r} : pc'[s] = pc[s] /\ report'[s] = report[s]
BY DEF TypeOK, finish, Report, Goto, Reports

LEMMA ReportInit == Init => ReportInv
BY DEF Init, ReportInv, EmptyReport, Early, Writes

LEMMA ReportStep == TypeInv /\ GateInv /\ ReportInv /\ [Next]_vars => ReportInv'
<1> SUFFICES ASSUME TypeInv, GateInv, ReportInv, [Next]_vars PROVE ReportInv'
  OBVIOUS
<1> USE DEF TypeInv
<1>a. /\ pc \in [Runs -> Live \cup Ended] /\ payload \in [Runs -> SUBSET Checks]
      /\ report \in [Runs -> Reports] /\ calls \in [Runs -> Seq(Call)]
      /\ poll \in [Runs -> {"none", "synced", "failed", "timed_out"}]
  BY DEF TypeOK
<1>b. ASSUME NEW r \in Runs PROVE
        /\ report[r] \in Reports
        /\ pc[r] \in Early \cup {"pre", "act"} => calls[r] = << >>
  BY <1>a DEF GateInv, Early
<1>1. ASSUME NEW r \in Runs, Begin(r) \/ detect(r) PROVE ReportInv'
  <2>1. /\ pc[r] \in {"ready", "scan"} /\ pc'[r] \in {"scan", "tables"}
        /\ UNCHANGED <<report, payload, calls, poll>> /\ OthersStay(r)
    BY <1>1, <1>a DEF Begin, detect, Goto, findings, gate, sync, OthersStay
  <2> QED BY <2>1, <1>b DEF ReportInv, OthersStay, Early, Writes
<1>2. ASSUME NEW r \in Runs, connection_tables(r) \/ baseline_precondition(r)
      PROVE  ReportInv'
  <2>1. /\ pc[r] \in {"tables", "baseline"}
        /\ \/ pc'[r] \in {"baseline", "inspect"} /\ report'[r] = report[r]
           \/ /\ pc'[r] = "done" /\ report'[r].status \in {"no-issue", "baseline_missing"}
              /\ report'[r].action_taken = report[r].action_taken
        /\ UNCHANGED <<payload, calls, poll>> /\ OthersStay(r)
    <3>1. CASE connection_tables(r)
      <4> DEFINE rep == [report[r] EXCEPT !.detected = fivetran[r]]
      <4>1. /\ UNCHANGED <<payload, calls, poll>>
            /\ \/ finish(r, "tables", rep, "no-issue")
               \/ Goto(r, "tables", "baseline") /\ UNCHANGED report
        BY <3>1 DEF connection_tables, gate, sync
      <4>2. rep \in Reports /\ rep.action_taken = report[r].action_taken
        <5>1. fivetran[r] \in SUBSET (FivetranIssues \cup Checks)
          BY DEF TypeOK
        <5>2. rep \in Reports
          BY <1>b, <5>1, ReportFields
        <5> QED BY <1>b, <5>2 DEF Reports
      <4>3. CASE finish(r, "tables", rep, "no-issue")
        <5> HIDE DEF rep
        <5> QED BY <4>1, <4>2, <4>3, FinishFields DEF OthersStay
      <4>4. CASE Goto(r, "tables", "baseline") /\ UNCHANGED report
        BY <1>a, <4>1, <4>4 DEF Goto, OthersStay
      <4> QED BY <4>1, <4>3, <4>4
    <3>2. CASE baseline_precondition(r)
      BY <1>a, <1>b, <3>2 DEF baseline_precondition, finish, Report, Goto, findings, gate,
         sync, OthersStay, Reports
    <3> QED BY <1>2, <3>1, <3>2
  <2> QED BY <2>1, <1>b DEF ReportInv, OthersStay, Early, Writes
<1>3. ASSUME NEW r \in Runs, inspect(r) PROVE ReportInv'
  <2>1. /\ pc[r] = "inspect"
        /\ \/ /\ pc'[r] = "diagnose" /\ report'[r].status = report[r].status
              /\ payload'[r] # {}
           \/ pc'[r] = "done" /\ report'[r].status \in {"no-issue", "unresolved"}
        /\ report'[r].action_taken = report[r].action_taken
        /\ UNCHANGED <<calls, poll>> /\ OthersStay(r)
    <3> DEFINE rep(F) == [report[r] EXCEPT !.detected = fivetran[r] \cup F]
    <3>1. PICK F \in SUBSET {c \in Checks : TableOf[c] \in tables[r]} :
              IF F = {}
              THEN /\ finish(r, "inspect", rep(F), IF fivetran[r] = {} THEN "no-issue"
                                                               ELSE "unresolved")
                   /\ UNCHANGED <<stage, payload>>
              ELSE /\ Goto(r, "inspect", "diagnose")
                   /\ Report(r, rep(F))
                   /\ \E t \in PrimaryTables(F) :
                         payload' = [payload EXCEPT ![r] = FailedOn(F, t)]
                   /\ emit(r, "diagnosing")
      BY <1>3 DEF inspect
    <3>2. UNCHANGED <<calls, poll>>
      BY <1>3 DEF inspect, sync
    <3>3. /\ rep(F).status = report[r].status
          /\ rep(F).action_taken = report[r].action_taken
      BY <1>b DEF Reports
    <3>4. CASE F = {}
      <4>1. PICK status \in {"no-issue", "unresolved"} : finish(r, "inspect", rep(F), status)
        BY <3>1, <3>4
      <4>2. /\ [rep(F) EXCEPT !.status = status].status = status
            /\ [rep(F) EXCEPT !.status = status].action_taken = report[r].action_taken
        BY <1>b, <3>3 DEF Reports
      <4> HIDE DEF rep
      <4> QED BY <1>a, <3>1, <3>2, <3>4, <4>1, <4>2 DEF finish, Report, Goto, OthersStay
    <3>5. CASE F # {}
      <4>1. PICK t \in PrimaryTables(F) : payload' = [payload EXCEPT ![r] = FailedOn(F, t)]
        BY <3>1, <3>5
      <4>2. FailedOn(F, t) # {}
        BY DEF PrimaryTables
      <4> HIDE DEF rep
      <4> QED BY <1>a, <3>1, <3>2, <3>3, <3>5, <4>1, <4>2 DEF Report, Goto, OthersStay
    <3> QED BY <3>4, <3>5
  <2> QED BY <2>1, <1>b DEF ReportInv, OthersStay, Early, Writes
<1>4. ASSUME NEW r \in Runs, Propose(r) \/ InvalidAnswer(r) PROVE ReportInv'
  <2>1. /\ pc[r] = "diagnose"
        /\ \/ pc'[r] \in {"diagnose", "gate"} /\ report'[r].status = report[r].status
           \/ pc'[r] = "done" /\ report'[r].status \in {"diagnosis_failed", "unresolved"}
        /\ report'[r].action_taken = report[r].action_taken
        /\ UNCHANGED <<payload, calls, poll>> /\ OthersStay(r)
    <3>1. CASE Propose(r)
      BY <1>a, <1>b, <3>1 DEF Propose, Report, Goto, findings, gate, sync, OthersStay, Reports
    <3>2. CASE InvalidAnswer(r)
      <4> DEFINE rep0 == [report[r] EXCEPT !.verification = "diagnosis_failed"]
                 rep1 == [report[r] EXCEPT !.approval = "rejected"]
      <4>1. /\ UNCHANGED <<payload, calls, poll>>
            /\ \/ Goto(r, "diagnose", "diagnose") /\ UNCHANGED report
               \/ finish(r, "diagnose", rep0, "diagnosis_failed")
               \/ finish(r, "diagnose", rep1, "unresolved")
        BY <3>2 DEF InvalidAnswer, findings, sync
      <4>2. /\ rep0 \in Reports /\ rep0.action_taken = report[r].action_taken
            /\ rep1 \in Reports /\ rep1.action_taken = report[r].action_taken
        <5>1. rep0 \in Reports /\ rep1 \in Reports
          BY <1>b, ReportFields DEF Verdicts
        <5> QED BY <1>b, <5>1 DEF Reports
      <4>3. CASE \/ finish(r, "diagnose", rep0, "diagnosis_failed")
                 \/ finish(r, "diagnose", rep1, "unresolved")
        <5> HIDE DEF rep0, rep1
        <5> QED BY <4>1, <4>2, <4>3, FinishFields DEF OthersStay
      <4>4. CASE Goto(r, "diagnose", "diagnose") /\ UNCHANGED report
        BY <1>a, <4>1, <4>4 DEF Goto, OthersStay
      <4> QED BY <4>1, <4>3, <4>4
    <3> QED BY <1>4, <3>1, <3>2
  <2> QED BY <2>1, <1>b DEF ReportInv, OthersStay, Early, Writes
<1>5. ASSUME NEW r \in Runs, NEW d \in Decisions, Decide(r, d) PROVE ReportInv'
  <2>1. UNCHANGED <<payload, calls, poll>>
    BY <1>5 DEF Decide, findings, sync
  <2>2. CASE Refuse(r)
    <3>1. /\ pc[r] = "gate"
          /\ \/ pc'[r] = "diagnose" /\ report'[r] = report[r]
             \/ pc'[r] = "done" /\ report'[r].status = "unresolved"
          /\ report'[r].action_taken = report[r].action_taken
          /\ OthersStay(r)
      <4> DEFINE rep == [report[r] EXCEPT !.approval = "rejected"]
      <4>1. \/ Goto(r, "gate", "diagnose") /\ UNCHANGED report
            \/ finish(r, "gate", rep, "unresolved")
        BY <2>2 DEF Refuse
      <4>2. rep \in Reports /\ rep.action_taken = report[r].action_taken
        <5>1. rep \in Reports
          BY <1>b, ReportFields
        <5> QED BY <1>b, <5>1 DEF Reports
      <4>3. CASE finish(r, "gate", rep, "unresolved")
        <5> HIDE DEF rep
        <5> QED BY <2>1, <4>2, <4>3, FinishFields DEF OthersStay
      <4>4. CASE Goto(r, "gate", "diagnose") /\ UNCHANGED report
        BY <1>a, <2>1, <4>4 DEF Goto, OthersStay
      <4> QED BY <4>1, <4>3, <4>4
    <3> QED BY <2>1, <3>1, <1>b DEF ReportInv, OthersStay, Early, Writes
  <2>3. ASSUME NEW p \in Proposal, Accept(r, p) PROVE ReportInv'
    <3>1. /\ pc[r] = "gate" /\ pc'[r] = "pre"
          /\ report'[r].status = report[r].status
          /\ report'[r].action_taken = report[r].action_taken
          /\ report'[r].approval = "approved"
          /\ OthersStay(r)
      BY <1>a, <1>b, <2>1, <2>3 DEF Accept, Report, Goto, OthersStay, Reports
    <3> QED BY <2>1, <3>1, <1>b DEF ReportInv, OthersStay, Early, Writes
  <2> QED BY <1>5, <2>2, <2>3, DecideOutcome
<1>6. ASSUME NEW r \in Runs, ReadMarkers(r) \/ SendWrite(r) PROVE ReportInv'
  <2>1. CASE ReadMarkers(r)
    <3>1. /\ pc[r] = "pre"
          /\ \/ pc'[r] = "act" /\ report'[r] = report[r]
             \/ /\ pc'[r] = "recheck" /\ report'[r].status = report[r].status
                /\ report'[r].action_taken = "manual"
                /\ report'[r].approval = report[r].approval
          /\ UNCHANGED <<payload, calls, poll>> /\ OthersStay(r)
      BY <1>a, <1>b, <2>1 DEF ReadMarkers, Report, Goto, findings, gate, sync, OthersStay, Reports
    <3> QED BY <3>1, <1>b DEF ReportInv, OthersStay, Early, Writes
  <2>2. CASE SendWrite(r)
    <3>1. /\ pc[r] = "act" /\ pc'[r] = "sent"
          /\ calls' = [calls EXCEPT ![r] = Append(calls[r], planned_call(proposal[r]))]
          /\ UNCHANGED <<payload, report, poll>> /\ OthersStay(r)
      BY <1>a, <2>2 DEF SendWrite, Goto, findings, gate, sync, OthersStay
    <3>2. calls'[r] # << >>
      <4>1. calls[r] = << >>
        BY <3>1, <1>b
      <4> QED BY <1>a, <3>1, <4>1
    <3> QED BY <3>1, <3>2 DEF ReportInv, OthersStay, Early, Writes
  <2> QED BY <1>6, <2>1, <2>2
<1>7. ASSUME NEW r \in Runs, NEW ok \in BOOLEAN, WriteReturns(r, ok) PROVE ReportInv'
  <2>1. /\ pc[r] = "sent"
        /\ \/ pc'[r] = "poll" /\ report'[r].action_taken = "executed"
           \/ pc'[r] = "recheck" /\ report'[r].action_taken = "refused"
        /\ report'[r].status = report[r].status /\ report'[r].approval = report[r].approval
        /\ UNCHANGED <<payload, calls, poll>> /\ OthersStay(r)
    BY <1>a, <1>b, <1>7 DEF WriteReturns, Report, Goto, findings, gate, sync, OthersStay, Reports
  <2> QED BY <2>1 DEF ReportInv, OthersStay, Early, Writes
<1>8. ASSUME NEW r \in Runs, PollAnswered(r) PROVE ReportInv'
  <2>1. CASE SyncPending(r) \/ \E result \in {"synced", "failed"} : SyncEnded(r, result)
    <3>1. /\ pc[r] = "poll"
          /\ \/ pc'[r] = "poll"
             \/ pc'[r] = "recheck" /\ poll'[r] \in {"synced", "failed"}
          /\ UNCHANGED <<report, payload, calls>> /\ OthersStay(r)
      BY <1>a, <2>1 DEF SyncPending, SyncEnded, Goto, findings, gate, sync, OthersStay
    <3> QED BY <3>1 DEF ReportInv, OthersStay, Early, Writes
  <2>2. CASE SyncTimedOut(r)
    <3>1. /\ pc[r] = "poll" /\ pc'[r] = "done"
          /\ report'[r].status = "unresolved"
          /\ report'[r].action_taken = report[r].action_taken
          /\ UNCHANGED <<payload, calls>> /\ OthersStay(r)
      BY <1>a, <1>b, <2>2 DEF SyncTimedOut, finish, Report, Goto, findings, gate, OthersStay, Reports
    <3> QED BY <3>1 DEF ReportInv, OthersStay, Early, Writes
  <2> QED BY <1>8, <2>1, <2>2 DEF PollAnswered
<1>9. ASSUME NEW r \in Runs, Recheck(r) PROVE ReportInv'
  <2>1. PICK failing \in SUBSET payload[r] :
          finish(r, "recheck",
                 [report[r] EXCEPT !.verification = verification_result(r, failing),
                                   !.rerun = payload[r],
                                   !.still_failing = failing],
                 IF verification_result(r, failing) = "passed"
                 THEN "resolved" ELSE "unresolved")
    BY <1>9 DEF Recheck
  <2>2. /\ pc[r] = "recheck" /\ pc'[r] = "done"
        /\ report'[r].status = IF verification_result(r, failing) = "passed"
                               THEN "resolved" ELSE "unresolved"
        /\ report'[r].approval = report[r].approval
        /\ report'[r].action_taken = report[r].action_taken
        /\ report'[r].rerun = payload[r] /\ report'[r].still_failing = failing
        /\ UNCHANGED <<payload, calls, poll>> /\ OthersStay(r)
    BY <1>a, <1>b, <1>9, <2>1 DEF Recheck, finish, Report, Goto, findings, gate, sync,
       OthersStay, Reports
  <2>3. verification_result(r, failing) = "passed" =>
          /\ failing = {}
          /\ report[r].action_taken = "executed" => poll[r] # "failed"
    BY DEF verification_result
  <2> QED BY <2>2, <2>3 DEF ReportInv, OthersStay, Early, Writes
<1>10. ASSUME NEW r \in Runs, Raise(r) PROVE ReportInv'
  <2>1. /\ pc[r] \in Awaiting /\ pc'[r] = "raised"
        /\ UNCHANGED <<report, payload, calls, poll>> /\ OthersStay(r)
    BY <1>a, <1>10 DEF Raise, Awaiting, findings, gate, sync, OthersStay
  <2> QED BY <2>1 DEF ReportInv, OthersStay, Early, Writes, Awaiting
<1>11. ASSUME NEW S \in SUBSET Runs, Cancel(S) PROVE ReportInv'
  <2>1. /\ \A r \in Runs : pc'[r] = pc[r] \/ (pc[r] # "done" /\ pc'[r] = "cancelled")
        /\ UNCHANGED <<report, payload, calls, poll>>
    BY <1>a, <1>11 DEF Cancel, findings, gate, sync, Live, Awaiting
  <2> QED BY <2>1 DEF ReportInv, Early, Writes
<1>12. ASSUME UNCHANGED vars PROVE ReportInv'
  BY <1>12 DEF vars, ReportInv
<1> QED
  BY <1>1, <1>2, <1>3, <1>4, <1>5, <1>6, <1>7, <1>8, <1>9, <1>10, <1>11, <1>12
     DEF Next, Step, Diagnose

LEMMA ReportInvariant == Spec => []ReportInv
<1>1. TypeInv /\ GateInv /\ ReportInv /\ [Next]_vars => ReportInv'
  BY ReportStep
<1> QED BY <1>1, ReportInit, GateInvariant, PTL DEF Spec

\* For any tables, checks and answers, a run reported resolved was approved, had
\* every check given to the diagnosis re-run and passed, and no failed or
\* timed-out sync behind it (verify.py:163-169, loop.py:308-311).
THEOREM ResolvedMeansVerified == Spec => []ResolvedIsVerified
<1>1. ReportInv => ResolvedIsVerified
  BY DEF ReportInv, ResolvedIsVerified
<1> QED BY <1>1, ReportInvariant, PTL

\* The report of a run that came to its end tells of a write exactly when one
\* was sent (loop.py:290-291).
THEOREM ReportsTellOfWrites == Spec => []ReportTellsOfWrites
<1>1. ReportInv => ReportTellsOfWrites
  BY DEF ReportInv, ReportTellsOfWrites, Writes
<1> QED BY <1>1, ReportInvariant, PTL

-----------------------------------------------------------------------------
(* What a run may ask of the model.                                        *)

M == MAX_DIAGNOSIS_ATTEMPTS

\* A diagnosis consumes one answer more than it has had invalid ones, the first
\* one at most M, and so does the one a rejection buys.
BudgetInv ==
    \A r \in Runs :
        /\ pc[r] \in Early \ {"gate"} =>
              prompts[r] <= (IF attempt[r] = 0 THEN 0 ELSE M) + tries[r]
        /\ pc[r] = "gate" =>
              tries[r] = 0 /\ prompts[r] <= (IF attempt[r] = 0 THEN 0 ELSE M) + M
        /\ prompts[r] <= M + M

\* A step that moves runs on without asking the model or counting a refusal.
AsksNothing ==
    /\ UNCHANGED <<tries, prompts>>
    /\ \A r \in Runs :
          \/ pc'[r] = pc[r] /\ attempt'[r] = attempt[r]
          \/ pc'[r] \in {"pre", "act", "sent", "poll", "recheck"} \cup Ended
          \/ /\ pc[r] \in Early \ {"gate"} /\ pc'[r] \in Early \ {"gate"}
             /\ attempt'[r] = attempt[r]

LEMMA AskingNothingKeepsBudget == BudgetInv /\ AsksNothing => BudgetInv'
BY DEF BudgetInv, AsksNothing, Early, Ended

LEMMA BudgetInit == Init => BudgetInv
BY AttemptsAssumption DEF Init, BudgetInv, Early, M

LEMMA BudgetStep == TypeInv /\ BudgetInv /\ [Next]_vars => BudgetInv'
<1> SUFFICES ASSUME TypeInv, BudgetInv, [Next]_vars PROVE BudgetInv'
  OBVIOUS
<1> USE AttemptsAssumption DEF TypeInv
<1>a. /\ pc \in [Runs -> Live \cup Ended] /\ attempt \in [Runs -> {0, 1}]
      /\ tries \in [Runs -> 0 .. M] /\ prompts \in [Runs -> Nat] /\ M \in Nat
  BY DEF TypeOK, M
<1>1. ASSUME NEW r \in Runs,
             \/ Begin(r) \/ detect(r) \/ connection_tables(r)
             \/ baseline_precondition(r) \/ inspect(r)
      PROVE  BudgetInv'
  <2>1. /\ pc[r] \in Early \ {"gate"}
        /\ \E to \in (Early \ {"gate"}) \cup Ended : pc' = [pc EXCEPT ![r] = to]
    BY <1>1 DEF Begin, detect, connection_tables, baseline_precondition, inspect, finish,
       Goto, Early, Ended
  <2>2. UNCHANGED <<attempt, tries, prompts>>
    BY <1>1 DEF Begin, detect, connection_tables, baseline_precondition, inspect, finish,
       gate, diagnosis
  <2>3. AsksNothing
    BY <1>a, <2>1, <2>2 DEF AsksNothing
  <2> QED BY <2>3, AskingNothingKeepsBudget
<1>2. ASSUME NEW r \in Runs,
             \/ ReadMarkers(r) \/ SendWrite(r) \/ (\E ok \in BOOLEAN : WriteReturns(r, ok))
             \/ PollAnswered(r) \/ Recheck(r) \/ Raise(r)
      PROVE  BudgetInv'
  <2>1. AsksNothing
    BY <1>a, <1>2 DEF ReadMarkers, SendWrite, WriteReturns, PollAnswered, SyncPending,
       SyncEnded, SyncTimedOut, Recheck, Raise, Goto, finish, gate, diagnosis, AsksNothing,
       Ended
  <2> QED BY <2>1, AskingNothingKeepsBudget
<1>3. ASSUME NEW S \in SUBSET Runs, Cancel(S) PROVE BudgetInv'
  <2>1. AsksNothing
    BY <1>a, <1>3 DEF Cancel, gate, diagnosis, AsksNothing, Ended
  <2> QED BY <2>1, AskingNothingKeepsBudget
<1>4. ASSUME UNCHANGED vars PROVE BudgetInv'
  <2>1. AsksNothing
    BY <1>4 DEF vars, AsksNothing
  <2> QED BY <2>1, AskingNothingKeepsBudget
<1>5. ASSUME NEW r \in Runs, Propose(r) PROVE BudgetInv'
  <2>1. /\ pc[r] = "diagnose" /\ pc' = [pc EXCEPT ![r] = "gate"]
        /\ tries' = [tries EXCEPT ![r] = 0]
        /\ prompts' = [prompts EXCEPT ![r] = @ + 1]
        /\ UNCHANGED attempt
    BY <1>5 DEF Propose, Goto
  <2>2. tries[r] < M
    BY <2>1 DEF CountersInv, Ended, M
  <2>3. prompts[r] <= (IF attempt[r] = 0 THEN 0 ELSE M) + tries[r]
    BY <2>1 DEF BudgetInv, Early
  <2> QED BY <1>a, <2>1, <2>2, <2>3 DEF BudgetInv, Early
<1>6. ASSUME NEW r \in Runs, InvalidAnswer(r) PROVE BudgetInv'
  <2>1. /\ pc[r] = "diagnose"
        /\ pc' \in {[pc EXCEPT ![r] = "diagnose"], [pc EXCEPT ![r] = "done"]}
        /\ tries' = [tries EXCEPT ![r] = @ + 1]
        /\ prompts' = [prompts EXCEPT ![r] = @ + 1]
        /\ UNCHANGED attempt
    BY <1>6 DEF InvalidAnswer, finish, Goto, gate
  <2>2. tries[r] < M
    BY <2>1 DEF CountersInv, Ended, M
  <2>3. prompts[r] <= (IF attempt[r] = 0 THEN 0 ELSE M) + tries[r]
    BY <2>1 DEF BudgetInv, Early
  <2> QED BY <1>a, <2>1, <2>2, <2>3 DEF BudgetInv, Early
<1>7. ASSUME NEW r \in Runs, NEW d \in Decisions, Decide(r, d) PROVE BudgetInv'
  <2>1. UNCHANGED <<tries, prompts>>
    BY <1>7 DEF Decide, diagnosis
  <2>2. CASE Refuse(r)
    <3>1. /\ pc[r] = "gate" /\ attempt' = [attempt EXCEPT ![r] = 1]
          /\ \/ pc' = [pc EXCEPT ![r] = "diagnose"] /\ attempt[r] = 0
             \/ pc' = [pc EXCEPT ![r] = "done"]
      BY <2>2 DEF Refuse, finish, Goto
    <3> QED BY <1>a, <2>1, <3>1 DEF BudgetInv, Early
  <2>3. CASE \E p \in Proposal : Accept(r, p)
    <3>1. AsksNothing
      BY <1>a, <2>1, <2>3 DEF Accept, Goto, AsksNothing
    <3> QED BY <3>1, AskingNothingKeepsBudget
  <2> QED BY <1>7, <2>2, <2>3, DecideOutcome
<1> QED
  BY <1>1, <1>2, <1>3, <1>4, <1>5, <1>6, <1>7 DEF Next, Step, Diagnose

\* Whatever mix of invalid answers and rejections it meets, a run asks the model
\* for at most two diagnoses of MAX_DIAGNOSIS_ATTEMPTS answers (loop.py:125, 249, 269).
THEOREM PromptsAreBounded == Spec => []PromptBudget
<1>1. TypeInv /\ BudgetInv => PromptBudget
  <2>1. MAX_DIAGNOSIS_ATTEMPTS + MAX_DIAGNOSIS_ATTEMPTS = 2 * MAX_DIAGNOSIS_ATTEMPTS
    BY AttemptsAssumption
  <2> QED BY <2>1 DEF BudgetInv, PromptBudget, M
<1>2. Init => BudgetInv
  BY BudgetInit
<1>3. TypeInv /\ BudgetInv /\ [Next]_vars => BudgetInv'
  BY BudgetStep
<1> QED BY <1>1, <1>2, <1>3, GateInvariant, PTL DEF Spec
=============================================================================
