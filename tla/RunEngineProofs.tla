---------------------------- MODULE RunEngineProofs ----------------------------
(***************************************************************************)
(* Theorems about RunEngine, for any number of runs in one process, any    *)
(* decisions posted in any order, and any stops and starts of the process. *)
(* What the proofs of AgentLoop say of the loop holds inside the process:  *)
(* every step of the engine is a step of the loop, or none.                *)
(***************************************************************************)
EXTENDS RunEngine, LoopReportProofs, GateKeptProofs

\* The sets that EngineTypeOK spells out.
Futures == [gate : Gates, state : {"none", "pending", "done"},
            result : Decisions \cup {NoDecision}]
Handles == [status             : Statuses,
            pending            : Proposal,
            future             : Futures,
            decision_submitted : BOOLEAN]
Callbacks == [gate : Gates, decision : Decisions]
Stored == [status : Statuses \cup {"none", "orphaned"}, proposal : Proposal]
Entries == [run : Runs, status : Statuses,
            action_taken : {"none", "manual", "executed", "refused"}]

Acting == {"pre", "act", "sent", "poll", "recheck"}
Undecided == Early \ {"gate"}
Final == Statuses \ ACTIVE_STATUSES

\* Where a run stands in the process.
Registered(r) ==
    /\ r \in RUNS => post[r] = "accepted"
    /\ r \notin RUNS => pc[r] \in {"ready"} \cup Ended
    /\ post[r] # "accepted" => pc[r] = "ready"

\* What a gate entry has accepted: nothing before it is open, then at most one
\* decision, the one in the queue, in the future, or already the loop's answer.
AcceptedOnce(r) ==
    /\ \A g \in Gates : \/ accepted[r][g] = << >>
                        \/ \E d \in Decisions : accepted[r][g] = <<d>>
    /\ attempt[r] = 0 => accepted[r][1] = << >>
    /\ pc[r] \in Undecided => accepted[r][attempt[r]] = << >>
    /\ pc[r] \in Acting \/ calls[r] # << >> => accepted[r][attempt[r]] = <<answer[r]>>
    /\ \A cb \in ready[r] : accepted[r][cb.gate] = <<cb.decision>>

\* How the future and the latch of a run follow its gate.
Bridged(r) ==
    LET h == handle[r]
    IN  r \in RUNS =>
          /\ pc[r] = "gate" =>
                /\ h.status = "awaiting_approval" /\ h.pending = proposal[r]
                /\ h.future.gate = attempt[r] /\ h.future.state \in {"pending", "done"}
          /\ pc[r] # "gate" => h.future.state = "none"
          /\ h.future.state = "pending" /\ ~ h.decision_submitted =>
                accepted[r][attempt[r]] = << >>
          /\ h.future.state = "pending" /\ h.decision_submitted =>
                \E cb \in ready[r] : cb.gate = attempt[r]
          /\ h.future.state = "done" => accepted[r][attempt[r]] = <<h.future.result>>

\* What a poll shows of a run.
Shown(r) ==
    r \in RUNS =>
        /\ handle[r].status \in ACTIVE_STATUSES <=> pc[r] \in Live
        /\ store[r].status = handle[r].status
        /\ pc[r] \in Undecided /\ handle[r].pending # NoProposal =>
              answer[r].decision = "modified"

RunInv(r) == Registered(r) /\ AcceptedOnce(r) /\ Bridged(r) /\ Shown(r)

\* The history has the runs that have ended, each once.
HistoryInv ==
    /\ \A i \in DOMAIN history :
          /\ history[i].run \in RUNS /\ pc[history[i].run] \in Ended
          /\ history[i].status = handle[history[i].run].status
          /\ calls[history[i].run] # << >> /\ history[i].action_taken = "none" =>
                history[i].status = "error"
    /\ \A i, j \in DOMAIN history : history[i].run = history[j].run => i = j
    /\ \A r \in RUNS : pc[r] \in Ended => \E i \in DOMAIN history : history[i].run = r

LoopInv == TypeInv /\ GateInv /\ ReportInv
EngineInv == LoopInv /\ EngineTypeOK /\ (\A r \in Runs : RunInv(r)) /\ HistoryInv

-----------------------------------------------------------------------------
(* The loop's steps, as the engine sees them.                              *)

LEMMA StepEffect ==
    ASSUME TypeInv, NEW r \in Runs, Step(r)
    PROVE  /\ UNCHANGED <<attempt, answer>>
           /\ \A s \in Runs \ {r} :
                 /\ pc'[s] = pc[s] /\ stage'[s] = stage[s]
                 /\ proposal'[s] = proposal[s] /\ calls'[s] = calls[s]
           /\ pc[r] \in {"ready"} \cup Awaiting
           /\ \/ pc'[r] \in Awaiting /\ (pc[r] \in Early <=> pc'[r] \in Early)
              \/ pc'[r] = "gate" /\ pc[r] = "diagnose"
              \/ pc'[r] \in {"done", "raised"}
           /\ stage'[r] = stage[r] \/ stage'[r] \in Stages \ {"none"}
           /\ pc'[r] = "gate" => offered'[r] = proposal'[r]
           /\ pc[r] # "act" => calls' = calls
<1> USE DEF TypeInv
<1>a. /\ pc \in [Runs -> Live \cup Ended] /\ stage \in [Runs -> Stages]
      /\ proposal \in [Runs -> Proposal] /\ offered \in [Runs -> Proposal]
      /\ calls \in [Runs -> Seq(Call)]
  BY DEF TypeOK
<1>1. CASE Begin(r) \/ detect(r) \/ connection_tables(r) \/ baseline_precondition(r)
  BY <1>a, <1>1 DEF Begin, detect, connection_tables, baseline_precondition, finish, Goto,
     emit, findings, gate, Awaiting, Early, Stages
<1>2. CASE inspect(r)
  <2>1. /\ \/ Goto(r, "inspect", "diagnose") /\ emit(r, "diagnosing")
           \/ Goto(r, "inspect", "done") /\ UNCHANGED stage
        /\ UNCHANGED <<attempt, proposal, offered, answer, calls>>
    BY <1>2 DEF inspect, finish, gate
  <2> QED BY <1>a, <2>1 DEF Goto, emit, Awaiting, Early, Stages
<1>3. CASE Propose(r)
  <2>1. /\ pc[r] = "diagnose" /\ pc' = [pc EXCEPT ![r] = "gate"]
        /\ \E p \in Proposal : /\ proposal' = [proposal EXCEPT ![r] = p]
                               /\ offered' = [offered EXCEPT ![r] = p]
        /\ UNCHANGED <<stage, attempt, answer, calls>>
    BY <1>3, ModelOutputsAssumption DEF Propose, Goto
  <2> QED BY <1>a, <2>1 DEF Awaiting
<1>4. CASE InvalidAnswer(r)
  <2>1. /\ Goto(r, "diagnose", "diagnose") \/ Goto(r, "diagnose", "done")
        /\ UNCHANGED <<stage, attempt, proposal, offered, answer, calls>>
    BY <1>4 DEF InvalidAnswer, finish, gate
  <2> QED BY <1>a, <2>1 DEF Goto, Awaiting, Early
<1>5. CASE ReadMarkers(r) \/ SendWrite(r) \/ (\E ok \in BOOLEAN : WriteReturns(r, ok))
  <2>1. /\ \/ pc[r] = "pre" /\ pc' = [pc EXCEPT ![r] = "recheck"] /\ UNCHANGED calls
           \/ pc[r] = "pre" /\ pc' = [pc EXCEPT ![r] = "act"] /\ UNCHANGED calls
           \/ /\ pc[r] = "act" /\ pc' = [pc EXCEPT ![r] = "sent"]
              /\ calls' = [calls EXCEPT ![r] = Append(@, planned_call(proposal[r]))]
           \/ pc[r] = "sent" /\ pc' = [pc EXCEPT ![r] = "poll"] /\ UNCHANGED calls
           \/ pc[r] = "sent" /\ pc' = [pc EXCEPT ![r] = "recheck"] /\ UNCHANGED calls
        /\ UNCHANGED <<stage, attempt, proposal, offered, answer>>
    BY <1>5 DEF ReadMarkers, SendWrite, WriteReturns, Goto, gate
  <2> QED BY <1>a, <2>1 DEF Awaiting, Early
<1>6. CASE PollAnswered(r) \/ Recheck(r) \/ Raise(r)
  <2>1. /\ pc[r] \in Awaiting
        /\ \/ pc[r] = "poll" /\ pc' = [pc EXCEPT ![r] = "poll"]
           \/ pc[r] = "poll" /\ pc' = [pc EXCEPT ![r] = "recheck"]
           \/ pc' = [pc EXCEPT ![r] = "done"]
           \/ pc' = [pc EXCEPT ![r] = "raised"]
        /\ stage' = stage \/ stage' = [stage EXCEPT ![r] = "verifying"]
        /\ UNCHANGED <<attempt, proposal, offered, answer, calls>>
    BY <1>6 DEF PollAnswered, SyncPending, SyncEnded, SyncTimedOut, Recheck, Raise, finish,
       Goto, emit, gate, Awaiting
  <2> QED BY <1>a, <2>1 DEF Awaiting, Early, Stages
<1> QED BY <1>1, <1>2, <1>3, <1>4, <1>5, <1>6 DEF Step, Diagnose

LEMMA DecideEffect ==
    ASSUME TypeInv, NEW r \in Runs, NEW d \in Decisions, Decide(r, d)
    PROVE  /\ pc[r] = "gate" /\ answer' = [answer EXCEPT ![r] = d] /\ UNCHANGED calls
           /\ \A s \in Runs \ {r} : /\ pc'[s] = pc[s] /\ stage'[s] = stage[s]
                                    /\ proposal'[s] = proposal[s] /\ attempt'[s] = attempt[s]
           /\ \/ pc'[r] = "pre" /\ attempt'[r] = attempt[r] /\ stage'[r] = "acting"
              \/ /\ pc'[r] = "diagnose" /\ attempt[r] = 0 /\ attempt'[r] = 1
                 /\ d.decision \in {"modified", "rejected"}
              \/ pc'[r] = "done" /\ attempt'[r] = attempt[r]
<1> USE DEF TypeInv
<1>a. /\ pc \in [Runs -> Live \cup Ended] /\ stage \in [Runs -> Stages]
      /\ proposal \in [Runs -> Proposal] /\ attempt \in [Runs -> {0, 1}]
  BY DEF TypeOK
<1>1. answer' = [answer EXCEPT ![r] = d] /\ UNCHANGED calls
  BY DEF Decide
<1>2. CASE d.decision \in {"approved", "modified"} /\ \E p \in Proposal : Accept(r, p)
  <2>1. PICK p \in Proposal : Accept(r, p)
    BY <1>2
  <2> QED BY <1>a, <1>1, <2>1 DEF Accept, Goto, emit
<1>3. CASE d.decision \in {"modified", "rejected"} /\ Refuse(r)
  <2>1. /\ pc[r] = "gate" /\ attempt' = [attempt EXCEPT ![r] = 1]
        /\ \/ attempt[r] = 0 /\ pc' = [pc EXCEPT ![r] = "diagnose"]
           \/ attempt[r] # 0 /\ pc' = [pc EXCEPT ![r] = "done"]
        /\ UNCHANGED <<proposal, stage>>
    BY <1>3 DEF Refuse, finish, Goto
  <2> QED BY <1>a, <1>1, <1>3, <2>1
<1>4. proposal[r] \in Proposal /\ candidate(r, d) \in Proposal
  BY <1>a, CandidateType
<1> QED BY <1>2, <1>3, <1>4 DEF Decide

LEMMA FutureResultType ==
    ASSUME EngineInv, NEW r \in RUNS, handle[r].future.state = "done"
    PROVE  /\ r \in Runs /\ pc[r] = "gate" /\ handle[r].future.result \in Decisions
           /\ accepted[r][attempt[r]] = <<handle[r].future.result>>
<1>1. r \in Runs /\ RunInv(r)
  BY DEF EngineInv, EngineTypeOK
<1>2. pc[r] = "gate" /\ accepted[r][attempt[r]] = <<handle[r].future.result>>
  BY <1>1 DEF RunInv, Bridged
<1>3. attempt[r] \in Gates
  BY <1>1 DEF EngineInv, LoopInv, TypeInv, TypeOK, Gates
<1>4. PICK d \in Decisions : accepted[r][attempt[r]] = <<d>>
  BY <1>1, <1>2, <1>3 DEF RunInv, AcceptedOnce
<1>5. handle[r].future.result = d
  BY <1>2, <1>4
<1> QED BY <1>1, <1>2, <1>4, <1>5

\* A step of the engine is a step of the loop, or leaves the loop alone.
LEMMA EngineStepIsLoopStep == EngineInv /\ [EngineNext]_engineVars => [Next]_vars
<1> SUFFICES ASSUME EngineInv, EngineNext \/ UNCHANGED engineVars PROVE Next \/ UNCHANGED vars
  OBVIOUS
<1>1. ASSUME NEW r \in Runs, Drive(r) PROVE Next
  BY <1>1 DEF Drive, Next
<1>2. ASSUME NEW r \in Runs, Resume(r) PROVE Next
  <2>1. handle[r].future.result \in Decisions
    BY <1>2, FutureResultType DEF Resume
  <2> QED BY <1>2, <2>1 DEF Resume, Next
<1>3. CASE Stop
  <2>1. {r \in RUNS : pc[r] \in Live} \in SUBSET Runs
    BY DEF EngineInv, EngineTypeOK
  <2> QED BY <1>3, <2>1 DEF Stop, Next
<1>4. ASSUME NEW r \in Runs,
             \/ CheckCap(r) \/ UnknownConnection(r) \/ start_run(r)
             \/ (\E d \in Decisions : submit_decision(r, d)) \/ safe_set_result(r)
      PROVE  UNCHANGED vars
  BY <1>4 DEF CheckCap, UnknownConnection, start_run, submit_decision, safe_set_result
<1>5. CASE Start
  BY <1>5 DEF Start
<1>6. CASE UNCHANGED engineVars
  BY <1>6 DEF engineVars
<1> QED BY <1>1, <1>2, <1>3, <1>4, <1>5, <1>6 DEF EngineNext

LEMMA LoopInvStep == LoopInv /\ [Next]_vars => LoopInv'
BY TypeStep, GateStep, ReportStep DEF LoopInv

-----------------------------------------------------------------------------
(* What an action leaves alone.                                            *)

\* Nothing of run s changes.
SameRun(s) ==
    /\ s \in RUNS' <=> s \in RUNS
    /\ post'[s] = post[s] /\ pc'[s] = pc[s] /\ proposal'[s] = proposal[s]
    /\ attempt'[s] = attempt[s] /\ answer'[s] = answer[s] /\ calls'[s] = calls[s]
    /\ handle'[s] = handle[s] /\ ready'[s] = ready[s] /\ store'[s] = store[s]
    /\ accepted'[s] = accepted[s]

LEMMA SameRunKeepsInv ==
    ASSUME NEW s \in Runs, RunInv(s), SameRun(s) PROVE RunInv(s)'
<1>1. Registered(s)'
  BY DEF RunInv, Registered, SameRun
<1>2. AcceptedOnce(s)'
  BY DEF RunInv, AcceptedOnce, SameRun
<1>3. Bridged(s)'
  BY DEF RunInv, Bridged, SameRun
<1>4. Shown(s)'
  BY DEF RunInv, Shown, SameRun
<1> QED BY <1>1, <1>2, <1>3, <1>4 DEF RunInv

\* No run of the process ends, and none that has ended changes.
LEMMA NoEndKeepsHistory ==
    ASSUME HistoryInv, history' = history, RUNS \subseteq RUNS',
           \A s \in RUNS : pc[s] \in Ended =>
               /\ pc'[s] \in Ended /\ calls'[s] = calls[s]
               /\ handle'[s].status = handle[s].status,
           \A s \in RUNS' : pc'[s] \in Ended => s \in RUNS /\ pc[s] \in Ended
    PROVE  HistoryInv'
BY DEF HistoryInv

\* A run ends, with its entry.
LEMMA EndKeepsHistory ==
    ASSUME HistoryInv, NEW r \in RUNS, NEW e, history' = Append(history, e),
           history \in Seq([run : Runs, status : Statuses,
                            action_taken : {"none", "manual", "executed", "refused"}]),
           RUNS' = RUNS, pc[r] \notin Ended, pc'[r] \in Ended,
           e.run = r, e.status = handle'[r].status,
           calls'[r] # << >> /\ e.action_taken = "none" => e.status = "error",
           \A s \in RUNS \ {r} : /\ pc'[s] = pc[s] /\ calls'[s] = calls[s]
                                 /\ handle'[s].status = handle[s].status
    PROVE  HistoryInv'
<1>1. /\ DOMAIN history' = 1 .. Len(history) + 1
      /\ DOMAIN history = 1 .. Len(history) /\ Len(history) \in Nat
      /\ history'[Len(history) + 1] = e
      /\ \A i \in DOMAIN history : history'[i] = history[i]
  OBVIOUS
<1>2. \A i \in DOMAIN history : history[i].run # r
  BY DEF HistoryInv
<1>3. \A i \in DOMAIN history' : i \in DOMAIN history \/ i = Len(history) + 1
  BY <1>1
<1>4. ASSUME NEW i \in DOMAIN history'
      PROVE  /\ history'[i].run \in RUNS' /\ pc'[history'[i].run] \in Ended
             /\ history'[i].status = handle'[history'[i].run].status
             /\ calls'[history'[i].run] # << >> /\ history'[i].action_taken = "none" =>
                   history'[i].status = "error"
  <2>1. CASE i \in DOMAIN history
    BY <1>1, <1>2, <2>1 DEF HistoryInv
  <2>2. CASE i = Len(history) + 1
    BY <1>1, <2>2
  <2> QED BY <1>3, <2>1, <2>2
<1>5. \A i, j \in DOMAIN history' : history'[i].run = history'[j].run => i = j
  BY <1>1, <1>2, <1>3 DEF HistoryInv
<1>6. ASSUME NEW s \in RUNS', pc'[s] \in Ended
      PROVE  \E i \in DOMAIN history' : history'[i].run = s
  <2>1. CASE s = r
    <3>1. Len(history) + 1 \in DOMAIN history'
      BY <1>1
    <3> QED BY <1>1, <2>1, <3>1
  <2>2. CASE s # r
    <3>1. PICK i \in DOMAIN history : history[i].run = s
      BY <1>6, <2>2 DEF HistoryInv
    <3>2. i \in DOMAIN history' /\ history'[i].run = s
      BY <1>1, <3>1
    <3> QED BY <3>2
  <2> QED BY <2>1, <2>2
<1> QED BY <1>4, <1>5, <1>6 DEF HistoryInv

-----------------------------------------------------------------------------
(* The actions.                                                            *)

StepKeeps == EngineTypeOK' /\ (\A r \in Runs : RunInv(r)') /\ HistoryInv'

LEMMA AdmissionStep ==
    ASSUME EngineInv, NEW r \in Runs,
           CheckCap(r) \/ UnknownConnection(r) \/ start_run(r)
    PROVE  StepKeeps
<1> USE DEF EngineInv
<1>a. EngineTypeOK /\ \A s \in Runs : RunInv(s)
  OBVIOUS
<1>1. CASE CheckCap(r) \/ UnknownConnection(r)
  <2>1. /\ post[r] \in {"none", "scanning"}
        /\ \E p \in {"refused", "scanning"} : post' = [post EXCEPT ![r] = p]
        /\ UNCHANGED <<vars, up, RUNS, handle, ready, store, history, accepted>>
    BY <1>1 DEF CheckCap, UnknownConnection
  <2>2. EngineTypeOK'
    BY <2>1 DEF EngineTypeOK
  <2>3. ASSUME NEW s \in Runs \ {r} PROVE RunInv(s)'
    <3>1. SameRun(s)
      BY <2>1 DEF SameRun, vars, EngineTypeOK
    <3> QED BY <1>a, <3>1, SameRunKeepsInv
  <2>4. RunInv(r)'
    <3>1. Registered(r)'
      BY <1>a, <2>1 DEF RunInv, Registered, vars, EngineTypeOK
    <3>2. UNCHANGED <<RUNS, pc, proposal, attempt, answer, calls, handle, ready, store, accepted>>
      BY <2>1 DEF vars
    <3>3. AcceptedOnce(r)' /\ Bridged(r)' /\ Shown(r)'
      BY <1>a, <3>2 DEF RunInv, AcceptedOnce, Bridged, Shown
    <3> QED BY <3>1, <3>3 DEF RunInv
  <2>5. HistoryInv'
    BY <2>1, NoEndKeepsHistory DEF vars
  <2> QED BY <2>2, <2>3, <2>4, <2>5 DEF StepKeeps
<1>2. CASE start_run(r)
  <2>1. /\ post[r] = "scanning" /\ post' = [post EXCEPT ![r] = "accepted"]
        /\ RUNS' = RUNS \cup {r} /\ handle' = [handle EXCEPT ![r] = FreshHandle]
        /\ store' = [store EXCEPT ![r].status = "detecting"]
        /\ UNCHANGED <<vars, up, ready, history, accepted>>
    BY <1>2 DEF start_run
  <2>2. pc[r] = "ready" /\ r \notin RUNS
    BY <1>a, <2>1 DEF RunInv, Registered
  <2>3. FreshHandle.status = "detecting" /\ FreshHandle.pending = NoProposal
        /\ FreshHandle.future = NoFuture /\ NoFuture.state = "none"
    BY DEF FreshHandle, NoFuture
  <2>4. EngineTypeOK'
    <3>1. FreshHandle \in [status             : Statuses,
                           pending            : Proposal,
                           future             : [gate   : Gates,
                                                 state  : {"none", "pending", "done"},
                                                 result : Decisions \cup {NoDecision}],
                           decision_submitted : BOOLEAN]
      BY DEF FreshHandle, NoFuture, NoProposal, Proposal, Gates, Statuses, ACTIVE_STATUSES
    <3>2. [store[r] EXCEPT !.status = "detecting"]
             \in [status : Statuses \cup {"none", "orphaned"}, proposal : Proposal]
      BY DEF EngineTypeOK, Statuses, ACTIVE_STATUSES
    <3> HIDE DEF EngineInv
    <3> QED BY <1>a, <2>1, <3>1, <3>2 DEF EngineTypeOK
  <2>5. ASSUME NEW s \in Runs \ {r} PROVE RunInv(s)'
    <3>1. SameRun(s)
      BY <1>a, <2>1 DEF SameRun, vars, EngineTypeOK
    <3> QED BY <1>a, <3>1, SameRunKeepsInv
  <2>6. RunInv(r)'
    <3>1. /\ post'[r] = "accepted" /\ r \in RUNS' /\ handle'[r] = FreshHandle
          /\ store'[r].status = "detecting"
      BY <1>a, <2>1 DEF EngineTypeOK
    <3>2. UNCHANGED <<pc, proposal, attempt, answer, calls, ready, accepted>>
      BY <2>1 DEF vars
    <3>3. Registered(r)'
      BY <3>1 DEF Registered
    <3>4. AcceptedOnce(r)'
      BY <1>a, <3>2 DEF RunInv, AcceptedOnce
    <3>5. Bridged(r)'
      BY <2>2, <2>3, <3>1, <3>2 DEF Bridged
    <3>6. Shown(r)'
      BY <2>2, <2>3, <3>1, <3>2 DEF Shown, ACTIVE_STATUSES, Live
    <3> QED BY <3>3, <3>4, <3>5, <3>6 DEF RunInv
  <2>7. HistoryInv'
    <3>1. \A s \in RUNS : handle'[s] = handle[s]
      BY <1>a, <2>1, <2>2 DEF EngineTypeOK
    <3>2. pc'[r] \notin Ended /\ UNCHANGED <<pc, calls, history>>
      BY <2>1, <2>2 DEF vars, Ended
    <3> QED BY <2>1, <3>1, <3>2, NoEndKeepsHistory
  <2> QED BY <2>4, <2>5, <2>6, <2>7 DEF StepKeeps
<1> QED BY <1>1, <1>2

LEMMA EngineTypes ==
    ASSUME EngineInv
    PROVE  /\ RUNS \subseteq Runs /\ handle \in [Runs -> Handles]
           /\ ready \in [Runs -> SUBSET Callbacks]
           /\ store \in [Runs -> [status   : Statuses \cup {"none", "orphaned"},
                                  proposal : Proposal]]
           /\ accepted \in [Runs -> [Gates -> Seq(Decisions)]]
           /\ attempt \in [Runs -> Gates] /\ proposal \in [Runs -> Proposal]
           /\ pc \in [Runs -> Live \cup Ended] /\ answer \in [Runs -> Decisions \cup {NoDecision}]
           /\ \A r \in Runs : RunInv(r)
BY DEF EngineInv, EngineTypeOK, LoopInv, TypeInv, TypeOK, Handles, Futures, Callbacks, Gates

\* The updates of a handle, field by field.
LEMMA LatchedHandle ==
    ASSUME NEW h \in Handles, NEW k, k = [h EXCEPT !.decision_submitted = TRUE]
    PROVE  /\ k \in Handles /\ k.status = h.status /\ k.pending = h.pending
           /\ k.future = h.future /\ k.decision_submitted = TRUE
BY DEF Handles

LEMMA HandleWithFuture ==
    ASSUME NEW h \in Handles, NEW f \in Futures, NEW k, k = [h EXCEPT !.future = f]
    PROVE  /\ k \in Handles /\ k.status = h.status /\ k.pending = h.pending
           /\ k.future = f /\ k.decision_submitted = h.decision_submitted
BY DEF Handles, Futures

LEMMA SubmitStep ==
    ASSUME EngineInv, NEW r \in Runs, NEW d \in Decisions, submit_decision(r, d)
    PROVE  StepKeeps
<1> DEFINE g == handle[r].future.gate
           cb == [gate |-> g, decision |-> d]
<1>1. /\ r \in RUNS /\ handle[r].future.state = "pending"
      /\ ~ handle[r].decision_submitted
      /\ handle' = [handle EXCEPT ![r].decision_submitted = TRUE]
      /\ ready' = [ready EXCEPT ![r] = @ \cup {cb}]
      /\ accepted' = [accepted EXCEPT ![r][g] = Append(@, d)]
      /\ UNCHANGED <<vars, up, post, RUNS, store, history>>
  BY DEF submit_decision
<1>2. /\ pc[r] = "gate" /\ g = attempt[r] /\ accepted[r][g] = << >>
      /\ g \in Gates /\ cb \in Callbacks
  BY <1>1, EngineTypes DEF RunInv, Bridged, Callbacks, Handles
<1>3. /\ accepted'[r][g] = <<d>>
      /\ \A k \in Gates \ {g} : accepted'[r][k] = accepted[r][k]
      /\ ready'[r] = ready[r] \cup {cb}
      /\ handle'[r] = [handle[r] EXCEPT !.decision_submitted = TRUE]
  BY <1>1, <1>2, EngineTypes
<1>4. /\ handle'[r].status = handle[r].status /\ handle'[r].pending = handle[r].pending
      /\ handle'[r].future = handle[r].future /\ handle'[r].decision_submitted = TRUE
      /\ handle'[r] \in Handles
  <2>1. handle[r] \in Handles
    BY EngineTypes
  <2> QED BY <1>3, <2>1, LatchedHandle
<1>5. \A s \in Runs \ {r} : /\ handle'[s] = handle[s] /\ ready'[s] = ready[s]
                            /\ accepted'[s] = accepted[s]
  BY <1>1, EngineTypes
<1>6. UNCHANGED <<pc, proposal, attempt, answer, calls>>
  BY <1>1 DEF vars
<1> HIDE DEF cb, g
<1>7. EngineTypeOK'
  <2>1. handle' \in [Runs -> Handles]
    <3>1. handle' = [s \in Runs |-> IF s = r THEN handle'[r] ELSE handle[s]]
      BY <1>1, <1>3, EngineTypes
    <3> QED BY <1>4, <3>1, EngineTypes
  <2>2. ready' \in [Runs -> SUBSET Callbacks]
    BY <1>1, <1>2, EngineTypes
  <2>3. accepted' \in [Runs -> [Gates -> Seq(Decisions)]]
    <3>1. Append(accepted[r][g], d) \in Seq(Decisions)
      BY <1>2, EngineTypes
    <3> QED BY <1>1, <3>1, EngineTypes
  <2> QED BY <1>1, <2>1, <2>2, <2>3 DEF EngineInv, EngineTypeOK, Handles, Futures, Callbacks
<1>8. ASSUME NEW s \in Runs \ {r} PROVE RunInv(s)'
  <2>1. SameRun(s)
    BY <1>1, <1>5, <1>6 DEF SameRun
  <2> QED BY <2>1, SameRunKeepsInv, EngineTypes
<1>9. RunInv(r)'
  <2>1. Registered(r)'
    BY <1>1, <1>6, EngineTypes DEF RunInv, Registered
  <2>2. AcceptedOnce(r)'
    <3>a. RunInv(r)
      BY EngineTypes
    <3>b. AcceptedOnce(r)
      BY <3>a DEF RunInv
    <3>1. ASSUME NEW k \in Gates
          PROVE  \/ accepted'[r][k] = << >>
                 \/ \E e \in Decisions : accepted'[r][k] = <<e>>
      <4>1. CASE k = g
        BY <1>3, <4>1
      <4>2. CASE k # g
        <5>1. accepted'[r][k] = accepted[r][k]
          BY <1>3, <4>2
        <5> QED BY <3>b, <5>1 DEF AcceptedOnce
      <4> QED BY <4>1, <4>2
    <3>2. attempt[r] = 0 => accepted'[r][1] = << >>
      <4>1. attempt[r] = 0 => accepted'[r][1] = accepted[r][1]
        BY <1>2, <1>3 DEF Gates
      <4> QED BY <3>b, <4>1 DEF AcceptedOnce
    <3>3. pc[r] \notin Undecided /\ pc[r] \notin Acting /\ calls[r] = << >>
      BY <1>2 DEF Undecided, Acting, EngineInv, LoopInv, GateInv, Early
    <3>4. \A c \in ready'[r] : accepted'[r][c.gate] = <<c.decision>>
      <4>1. ASSUME NEW c \in ready[r] PROVE accepted'[r][c.gate] = <<c.decision>>
        <5>1. accepted[r][c.gate] = <<c.decision>> /\ c.gate \in Gates
          BY EngineTypes DEF RunInv, AcceptedOnce, Callbacks
        <5>2. c.gate # g
          <6>1. << >> # <<c.decision>>
            OBVIOUS
          <6> QED BY <1>2, <5>1, <6>1
        <5> QED BY <1>3, <5>1, <5>2
      <4>2. accepted'[r][cb.gate] = <<cb.decision>>
        BY <1>3 DEF cb
      <4> QED BY <1>3, <4>1, <4>2
    <3> QED BY <1>6, <3>1, <3>2, <3>3, <3>4 DEF AcceptedOnce
  <2>3. Bridged(r)'
    <3>1. cb \in ready'[r] /\ cb.gate = attempt[r]
      BY <1>2, <1>3 DEF cb
    <3>2. \E c \in ready'[r] : c.gate = attempt[r]
      BY <3>1
    <3> QED BY <1>1, <1>2, <1>4, <1>6, <3>2, EngineTypes DEF RunInv, Bridged
  <2>4. Shown(r)'
    BY <1>1, <1>4, <1>6, EngineTypes DEF RunInv, Shown
  <2> QED BY <2>1, <2>2, <2>3, <2>4 DEF RunInv
<1>10. HistoryInv'
  <2>1. \A s \in RUNS : handle'[s].status = handle[s].status
    BY <1>4, <1>5, EngineTypes
  <2> QED BY <1>1, <1>6, <2>1, NoEndKeepsHistory DEF EngineInv
<1> QED BY <1>7, <1>8, <1>9, <1>10 DEF StepKeeps

LEMMA ResultStep ==
    ASSUME EngineInv, NEW r \in Runs, safe_set_result(r)
    PROVE  StepKeeps
<1>1. PICK cb \in ready[r] :
          /\ ready' = [ready EXCEPT ![r] = @ \ {cb}]
          /\ handle' = IF /\ handle[r].future.gate = cb.gate
                          /\ handle[r].future.state = "pending"
                       THEN [handle EXCEPT ![r].future =
                               [@ EXCEPT !.state = "done", !.result = cb.decision]]
                       ELSE handle
  BY DEF safe_set_result
<1>2. /\ UNCHANGED <<vars, up, post, RUNS, store, history, accepted>>
      /\ UNCHANGED <<pc, proposal, attempt, answer, calls>>
  BY DEF safe_set_result, vars
<1>3. /\ cb \in Callbacks /\ cb.gate \in Gates /\ cb.decision \in Decisions
      /\ accepted[r][cb.gate] = <<cb.decision>>
  BY EngineTypes DEF Callbacks, RunInv, AcceptedOnce
<1>4. /\ ready' \in [Runs -> SUBSET Callbacks] /\ ready'[r] = ready[r] \ {cb}
      /\ \A s \in Runs \ {r} : ready'[s] = ready[s]
  BY <1>1, EngineTypes
<1>5. CASE ~ (handle[r].future.gate = cb.gate /\ handle[r].future.state = "pending")
  <2>1. handle' = handle
    BY <1>1, <1>5
  <2>2. EngineTypeOK'
    BY <1>2, <1>4, <2>1 DEF EngineInv, EngineTypeOK, Callbacks
  <2>3. ASSUME NEW s \in Runs \ {r} PROVE RunInv(s)'
    <3>1. SameRun(s)
      BY <1>2, <1>4, <2>1 DEF SameRun
    <3> QED BY <3>1, SameRunKeepsInv, EngineTypes
  <2>4. Registered(r)' /\ AcceptedOnce(r)' /\ Shown(r)'
    BY <1>2, <1>4, <2>1, EngineTypes DEF RunInv, Registered, AcceptedOnce, Shown
  <2>5. Bridged(r)'
    <3>1. r \in RUNS /\ handle[r].future.state = "pending" => handle[r].future.gate = attempt[r]
      BY EngineTypes DEF RunInv, Bridged
    <3>2. r \in RUNS /\ handle[r].future.state = "pending" /\ handle[r].decision_submitted =>
             \E c \in ready'[r] : c.gate = attempt[r]
      BY <1>4, <1>5, <3>1, EngineTypes DEF RunInv, Bridged
    <3> QED BY <1>2, <2>1, <3>2, EngineTypes DEF RunInv, Bridged
  <2>6. HistoryInv'
    BY <1>2, <2>1, NoEndKeepsHistory DEF EngineInv
  <2> QED BY <2>2, <2>3, <2>4, <2>5, <2>6 DEF StepKeeps, RunInv
<1>6. CASE handle[r].future.gate = cb.gate /\ handle[r].future.state = "pending"
  <2>1. handle' = [handle EXCEPT ![r].future =
                     [@ EXCEPT !.state = "done", !.result = cb.decision]]
    BY <1>1, <1>6
  <2>2. /\ handle'[r].status = handle[r].status /\ handle'[r].pending = handle[r].pending
        /\ handle'[r].future.gate = handle[r].future.gate
        /\ handle'[r].future.state = "done" /\ handle'[r].future.result = cb.decision
        /\ handle'[r] \in Handles
        /\ \A s \in Runs \ {r} : handle'[s] = handle[s]
    <3> DEFINE h == handle[r]
    <3> DEFINE f == [h.future EXCEPT !.state = "done", !.result = cb.decision]
    <3> DEFINE k == handle'[r]
    <3>1. handle' = [handle EXCEPT ![r].future = f]
      BY <2>1
    <3>2. f = [h.future EXCEPT !.state = "done", !.result = cb.decision]
      OBVIOUS
    <3> HIDE DEF f
    <3>3. h \in Handles /\ h.future \in Futures
      BY EngineTypes DEF Handles
    <3>4. k = [h EXCEPT !.future = f]
      BY <3>1, EngineTypes
    <3>5. \A s \in Runs \ {r} : handle'[s] = handle[s]
      BY <3>1, EngineTypes
    <3> HIDE DEF k, h
    <3>6. f \in Futures /\ f.gate = h.future.gate /\ f.state = "done" /\ f.result = cb.decision
      BY <1>3, <3>2, <3>3 DEF Futures
    <3>7. k \in Handles /\ k.status = h.status /\ k.pending = h.pending /\ k.future = f
      BY <3>3, <3>4, <3>6, HandleWithFuture
    <3> QED BY <3>5, <3>6, <3>7 DEF k, h
  <2>3. handle' \in [Runs -> Handles]
    <3>1. handle' = [s \in Runs |-> IF s = r THEN handle'[r] ELSE handle[s]]
      BY <2>1, <2>2, EngineTypes
    <3> QED BY <2>2, <3>1, EngineTypes
  <2>4. EngineTypeOK'
    BY <1>2, <1>4, <2>3 DEF EngineInv, EngineTypeOK, Callbacks, Handles, Futures
  <2>5. ASSUME NEW s \in Runs \ {r} PROVE RunInv(s)'
    <3>1. SameRun(s)
      BY <1>2, <1>4, <2>2 DEF SameRun
    <3> QED BY <3>1, SameRunKeepsInv, EngineTypes
  <2>6. Registered(r)' /\ AcceptedOnce(r)' /\ Shown(r)'
    BY <1>2, <1>4, <2>2, EngineTypes DEF RunInv, Registered, AcceptedOnce, Shown
  <2>7. Bridged(r)'
    BY <1>2, <1>3, <1>6, <2>2, EngineTypes DEF RunInv, Bridged
  <2>8. HistoryInv'
    <3>1. \A s \in RUNS : handle'[s].status = handle[s].status
      BY <2>2, EngineTypes
    <3> QED BY <1>2, <3>1, NoEndKeepsHistory DEF EngineInv
  <2> QED BY <2>4, <2>5, <2>6, <2>7, <2>8 DEF StepKeeps, RunInv
<1> QED BY <1>5, <1>6

LEMMA SetStatusEffect ==
    ASSUME EngineInv, NEW r \in Runs, NEW h \in Handles, NEW st \in Statuses,
           SetStatus(r, h, st)
    PROVE  /\ handle' \in [Runs -> Handles] /\ store' \in [Runs -> Stored]
           /\ handle'[r].status = st /\ handle'[r].pending = h.pending
           /\ handle'[r].future = h.future /\ store'[r].status = st
           /\ \A s \in Runs \ {r} : handle'[s] = handle[s] /\ store'[s] = store[s]
<1>1. /\ handle' = [handle EXCEPT ![r] = [h EXCEPT !.status = st]]
      /\ store' = [store EXCEPT ![r].status = st]
  BY DEF SetStatus
<1>2. handle \in [Runs -> Handles] /\ store \in [Runs -> Stored]
  BY EngineTypes DEF Stored
<1> DEFINE k == [h EXCEPT !.status = st]
<1>3. k \in Handles /\ k.status = st /\ k.pending = h.pending /\ k.future = h.future
  BY DEF Handles
<1>4. handle' = [handle EXCEPT ![r] = k]
  BY <1>1
<1> HIDE DEF k
<1>5. /\ handle' \in [Runs -> Handles] /\ handle'[r] = k
      /\ \A s \in Runs \ {r} : handle'[s] = handle[s]
  BY <1>2, <1>3, <1>4
<1>6. /\ store' \in [Runs -> Stored] /\ store'[r].status = st
      /\ \A s \in Runs \ {r} : store'[s] = store[s]
  <2>1. store[r] \in Stored
    BY <1>2
  <2> DEFINE m == [store[r] EXCEPT !.status = st]
  <2>2. m \in Stored /\ m.status = st
    BY <2>1 DEF Stored
  <2>3. store' = [store EXCEPT ![r] = m]
    BY <1>1
  <2> HIDE DEF m
  <2> QED BY <1>2, <2>2, <2>3
<1> QED BY <1>3, <1>5, <1>6

\* The parts of the invariant that a step of run r leaves to check when the loop's
\* part of it is known and the other runs stay.
LEMMA OnlyOneMoves ==
    ASSUME EngineInv, NEW r \in RUNS,
           UNCHANGED <<up, post, RUNS, ready, accepted>>,
           \A s \in Runs \ {r} :
              /\ pc'[s] = pc[s] /\ proposal'[s] = proposal[s] /\ attempt'[s] = attempt[s]
              /\ answer'[s] = answer[s] /\ calls'[s] = calls[s]
              /\ handle'[s] = handle[s] /\ store'[s] = store[s],
           handle' \in [Runs -> Handles], store' \in [Runs -> Stored],
           history' \in Seq(Entries), HistoryInv',
           AcceptedOnce(r)', Bridged(r)', Shown(r)'
    PROVE  StepKeeps
<1>1. EngineTypeOK'
  BY DEF EngineInv, EngineTypeOK, Handles, Futures, Stored, Entries
<1>2. ASSUME NEW s \in Runs \ {r} PROVE RunInv(s)'
  <2>1. SameRun(s)
    BY DEF SameRun
  <2> QED BY <2>1, SameRunKeepsInv, EngineTypes
<1>3. Registered(r)'
  <2>1. r \in Runs /\ Registered(r)
    BY EngineTypes DEF RunInv
  <2> QED BY <2>1 DEF Registered
<1> QED BY <1>1, <1>2, <1>3 DEF StepKeeps, RunInv

\* A run that has ended with an entry, in the store and in the history.
LEMMA SettleStep ==
    ASSUME EngineInv, LoopInv', NEW r \in RUNS, NEW h \in Handles, Settle(r, h),
           pc[r] \in Live, pc'[r] \in {"done", "raised"}, h.future.state = "none",
           UNCHANGED <<up, post, RUNS, ready, accepted>>,
           \A s \in Runs \ {r} :
              /\ pc'[s] = pc[s] /\ proposal'[s] = proposal[s] /\ attempt'[s] = attempt[s]
              /\ answer'[s] = answer[s] /\ calls'[s] = calls[s],
           AcceptedOnce(r)'
    PROVE  StepKeeps
<1>a. r \in Runs
  BY EngineTypes
<1>b. report'[r] \in Reports
  BY <1>a DEF LoopInv, TypeInv, TypeOK
<1> DEFINE entry == IF pc'[r] = "done"
                    THEN [run |-> r, status |-> report'[r].status,
                          action_taken |-> report'[r].action_taken]
                    ELSE [run |-> r, status |-> "error", action_taken |-> "none"]
<1>1. /\ entry \in Entries /\ entry.run = r /\ entry.status \in Final
      /\ calls'[r] # << >> /\ entry.action_taken = "none" => entry.status = "error"
  <2>1. CASE pc'[r] = "done"
    <3>1. /\ report'[r].status # "none"
          /\ calls'[r] # << >> => report'[r].action_taken \in Writes
      BY <1>a, <2>1 DEF LoopInv, ReportInv
    <3>2. /\ report'[r].status \in {"none", "no-issue", "baseline_missing", "resolved",
                                    "diagnosis_failed", "unresolved"}
          /\ report'[r].action_taken \in {"none", "manual", "executed", "refused"}
      BY <1>b DEF Reports
    <3> QED BY <1>a, <2>1, <3>1, <3>2 DEF Entries, Final, Statuses, ACTIVE_STATUSES, Writes
  <2>2. CASE pc'[r] # "done"
    BY <1>a, <2>2 DEF Entries, Final, Statuses, ACTIVE_STATUSES
  <2> QED BY <2>1, <2>2
<1>2. SetStatus(r, h, entry.status) /\ history' = Append(history, entry)
  BY DEF Settle
<1> HIDE DEF entry
<1>3. entry.status \in Statuses
  BY <1>1 DEF Final
<1>4. /\ handle' \in [Runs -> Handles] /\ store' \in [Runs -> Stored]
      /\ handle'[r].status = entry.status /\ store'[r].status = entry.status
      /\ handle'[r].future = h.future
      /\ \A s \in Runs \ {r} : handle'[s] = handle[s] /\ store'[s] = store[s]
  BY <1>a, <1>2, <1>3, SetStatusEffect
<1>5. history \in Seq(Entries)
  BY DEF EngineInv, EngineTypeOK, Entries
<1>6. HistoryInv'
  <2>1. pc[r] \notin Ended /\ pc'[r] \in Ended
    BY DEF Live, Ended, Awaiting
  <2>2. \A s \in RUNS \ {r} : s \in Runs \ {r}
    BY EngineTypes
  <2> QED BY <1>1, <1>2, <1>4, <1>5, <2>1, <2>2, EndKeepsHistory DEF EngineInv, Entries
<1>7. history' \in Seq(Entries)
  BY <1>1, <1>2, <1>5
<1>8. Bridged(r)'
  BY <1>4 DEF Bridged
<1>9. Shown(r)'
  BY <1>1, <1>4 DEF Shown, Final, Live, Awaiting, Undecided, Early
<1> QED BY <1>4, <1>6, <1>7, <1>8, <1>9, OnlyOneMoves

\* A step keeps what the gates have accepted, and a gate opens on a fresh entry.
LEMMA StepKeepsAccepted ==
    ASSUME EngineInv, NEW r \in RUNS, Step(r), UNCHANGED <<ready, accepted>>
    PROVE  AcceptedOnce(r)'
<1>1. r \in Runs /\ TypeInv /\ AcceptedOnce(r)
  BY EngineTypes DEF RunInv, EngineInv, LoopInv
<1>2. /\ attempt'[r] = attempt[r] /\ answer'[r] = answer[r]
      /\ pc[r] \in {"ready"} \cup Awaiting
      /\ \/ pc'[r] \in Awaiting /\ (pc[r] \in Early <=> pc'[r] \in Early)
         \/ pc'[r] = "gate" \/ pc'[r] \in {"done", "raised"}
      /\ pc[r] # "act" => calls'[r] = calls[r]
  BY <1>1, StepEffect
<1>3. pc'[r] \in Undecided => pc[r] \in Undecided
  BY <1>2 DEF Undecided, Early, Awaiting
<1>4. pc'[r] \in Acting \/ calls'[r] # << >> => pc[r] \in Acting \/ calls[r] # << >>
  BY <1>2 DEF Acting, Early, Awaiting
<1> QED BY <1>1, <1>2, <1>3, <1>4 DEF AcceptedOnce

LEMMA DriveStep ==
    ASSUME EngineInv, LoopInv', NEW r \in Runs, Drive(r)
    PROVE  StepKeeps
<1>1. /\ r \in RUNS /\ Step(r) /\ UNCHANGED <<up, post, RUNS, ready, accepted>>
      /\ \/ pc'[r] \in Awaiting /\ progress(r)
         \/ pc'[r] = "gate" /\ OpenGate(r)
         \/ pc'[r] \in Ended /\ Settle(r, handle[r])
  BY DEF Drive
<1>2. TypeInv /\ RunInv(r) /\ handle[r] \in Handles /\ proposal'[r] \in Proposal
  BY EngineTypes DEF EngineInv, LoopInv, TypeInv, TypeOK
<1>3. /\ UNCHANGED <<attempt, answer>>
      /\ pc[r] \in {"ready"} \cup Awaiting
      /\ \/ pc'[r] \in Awaiting /\ (pc[r] \in Early <=> pc'[r] \in Early)
         \/ pc'[r] = "gate" /\ pc[r] = "diagnose"
         \/ pc'[r] \in {"done", "raised"}
      /\ stage'[r] = stage[r] \/ stage'[r] \in Stages \ {"none"}
      /\ pc'[r] = "gate" => offered'[r] = proposal'[r]
  BY <1>1, <1>2, StepEffect
<1>4. \A s \in Runs \ {r} : /\ pc'[s] = pc[s] /\ proposal'[s] = proposal[s]
                            /\ attempt'[s] = attempt[s] /\ answer'[s] = answer[s]
                            /\ calls'[s] = calls[s]
  BY <1>1, <1>2, <1>3, StepEffect
<1>5. AcceptedOnce(r)'
  BY <1>1, StepKeepsAccepted
<1>6. handle[r].future.state = "none" /\ pc[r] \in Live /\ pc[r] # "gate" /\ pc[r] \notin Ended
  BY <1>1, <1>2, <1>3 DEF RunInv, Bridged, Live, Awaiting, Ended
<1>7. \A s \in Runs \ {r} : s \in RUNS => s \in Runs \ {r}
  OBVIOUS
<1>8. CASE pc'[r] \in Awaiting /\ progress(r)
  <2>1. /\ handle' \in [Runs -> Handles] /\ store' \in [Runs -> Stored]
        /\ handle'[r].pending = handle[r].pending /\ handle'[r].future = handle[r].future
        /\ handle'[r].status \in ACTIVE_STATUSES /\ store'[r].status = handle'[r].status
        /\ \A s \in Runs \ {r} : handle'[s] = handle[s] /\ store'[s] = store[s]
    <3>1. CASE stage'[r] # stage[r]
      <4> DEFINE st == STAGE_STATUS[stage'[r]]
      <4>1. st \in ACTIVE_STATUSES
        BY <1>3, <3>1 DEF Stages, STAGE_STATUS, ACTIVE_STATUSES
      <4>2. st \in Statuses
        BY <4>1 DEF Statuses
      <4>3. SetStatus(r, handle[r], st)
        BY <1>8, <3>1 DEF progress
      <4> HIDE DEF st
      <4> QED BY <1>2, <4>1, <4>2, <4>3, SetStatusEffect
    <3>2. CASE stage'[r] = stage[r]
      <4>1. handle' = handle /\ store' = store
        BY <1>8, <3>2 DEF progress
      <4> QED BY <1>1, <1>2, <1>6, <4>1, EngineTypes DEF RunInv, Shown, Stored
    <3> QED BY <3>1, <3>2
  <2>2. Bridged(r)'
    BY <1>6, <1>8, <2>1 DEF Bridged, Awaiting
  <2>3. Shown(r)'
    <3>1. pc'[r] \in Live /\ (pc'[r] \in Undecided => pc[r] \in Undecided)
      BY <1>3, <1>8 DEF Live, Undecided, Early, Awaiting
    <3> QED BY <1>1, <1>2, <1>3, <2>1, <3>1 DEF RunInv, Shown
  <2>4. history' = history /\ history \in Seq(Entries)
    BY <1>8 DEF progress, EngineInv, EngineTypeOK, Entries
  <2>5. HistoryInv'
    <3>1. \A s \in RUNS : pc[s] \in Ended => s \in Runs \ {r}
      BY <1>6, EngineTypes
    <3>2. \A s \in RUNS' : pc'[s] \in Ended => s \in Runs \ {r}
      BY <1>1, <1>8, EngineTypes DEF Awaiting, Ended
    <3> QED BY <1>1, <1>4, <2>1, <2>4, <3>1, <3>2, NoEndKeepsHistory DEF EngineInv
  <2> QED BY <1>1, <1>4, <1>5, <2>1, <2>2, <2>3, <2>4, <2>5, OnlyOneMoves
<1>9. CASE pc'[r] = "gate" /\ OpenGate(r)
  <2> DEFINE f == [gate |-> attempt[r], state |-> "pending", result |-> NoDecision]
             k == [status |-> "awaiting_approval", pending |-> offered'[r],
                   future |-> f, decision_submitted |-> FALSE]
             m == [status |-> "awaiting_approval", proposal |-> offered'[r]]
  <2>1. /\ handle' = [handle EXCEPT ![r] = k] /\ store' = [store EXCEPT ![r] = m]
        /\ history' = history
    BY <1>9 DEF OpenGate
  <2>2. /\ f \in Futures /\ f.gate = attempt[r] /\ f.state = "pending"
    BY EngineTypes DEF Futures
  <2> HIDE DEF f
  <2>3. /\ k \in Handles /\ k.status = "awaiting_approval" /\ k.pending = proposal'[r]
        /\ k.future = f /\ k.decision_submitted = FALSE
    BY <1>2, <1>3, <1>9, <2>2 DEF Handles, Statuses, ACTIVE_STATUSES
  <2>4. m \in Stored /\ m.status = "awaiting_approval"
    BY <1>2, <1>3, <1>9 DEF Stored, Statuses, ACTIVE_STATUSES
  <2> HIDE DEF k, m
  <2>5. /\ handle' \in [Runs -> Handles] /\ handle'[r] = k
        /\ \A s \in Runs \ {r} : handle'[s] = handle[s]
    BY <2>1, <2>3, EngineTypes
  <2>6. /\ store' \in [Runs -> Stored] /\ store'[r] = m
        /\ \A s \in Runs \ {r} : store'[s] = store[s]
    <3>1. store \in [Runs -> Stored]
      BY EngineTypes DEF Stored
    <3> QED BY <2>1, <2>4, <3>1
  <2>7. Bridged(r)'
    <3>1. accepted'[r][attempt[r]] = << >>
      BY <1>1, <1>2, <1>3, <1>9 DEF RunInv, AcceptedOnce, Undecided, Early, Awaiting
    <3> QED BY <1>3, <1>9, <2>2, <2>3, <2>5, <3>1 DEF Bridged
  <2>8. Shown(r)'
    BY <1>9, <2>3, <2>4, <2>5, <2>6 DEF Shown, ACTIVE_STATUSES, Live, Undecided
  <2>9. history \in Seq(Entries)
    BY DEF EngineInv, EngineTypeOK, Entries
  <2>10. HistoryInv'
    <3>1. \A s \in RUNS : pc[s] \in Ended => s \in Runs \ {r}
      BY <1>6, EngineTypes
    <3>2. \A s \in RUNS' : pc'[s] \in Ended => s \in Runs \ {r}
      BY <1>1, <1>9, EngineTypes DEF Ended
    <3> QED BY <1>1, <1>4, <2>1, <2>5, <3>1, <3>2, NoEndKeepsHistory DEF EngineInv
  <2> QED BY <1>1, <1>4, <1>5, <2>1, <2>5, <2>6, <2>7, <2>8, <2>9, <2>10, OnlyOneMoves
<1>10. CASE pc'[r] \in Ended /\ Settle(r, handle[r])
  <2>1. pc'[r] \in {"done", "raised"}
    BY <1>3, <1>10 DEF Ended, Awaiting
  <2> QED BY <1>1, <1>2, <1>4, <1>5, <1>6, <1>10, <2>1, SettleStep
<1> QED BY <1>1, <1>8, <1>9, <1>10

LEMMA ResumeStep ==
    ASSUME EngineInv, LoopInv', NEW r \in Runs, Resume(r)
    PROVE  StepKeeps
<1> DEFINE d == handle[r].future.result
           h == LeftGate(r, d)
<1>1. /\ r \in RUNS /\ handle[r].future.state = "done" /\ Decide(r, d)
      /\ UNCHANGED <<up, post, RUNS, ready, accepted>>
      /\ \/ pc'[r] = "pre" /\ SetStatus(r, h, STAGE_STATUS[stage'[r]]) /\ history' = history
         \/ pc'[r] = "diagnose" /\ SetStatus(r, h, h.status) /\ history' = history
         \/ pc'[r] = "done" /\ Settle(r, h)
  BY DEF Resume
<1>2. /\ pc[r] = "gate" /\ d \in Decisions /\ accepted[r][attempt[r]] = <<d>>
  BY <1>1, FutureResultType
<1>3. TypeInv /\ RunInv(r) /\ handle[r] \in Handles /\ calls[r] = << >>
  BY <1>2, EngineTypes DEF EngineInv, LoopInv, GateInv, Early
<1> HIDE DEF d
<1>4. /\ answer' = [answer EXCEPT ![r] = d] /\ UNCHANGED calls
      /\ \A s \in Runs \ {r} : /\ pc'[s] = pc[s] /\ stage'[s] = stage[s]
                               /\ proposal'[s] = proposal[s] /\ attempt'[s] = attempt[s]
      /\ \/ pc'[r] = "pre" /\ attempt'[r] = attempt[r] /\ stage'[r] = "acting"
         \/ /\ pc'[r] = "diagnose" /\ attempt[r] = 0 /\ attempt'[r] = 1
            /\ d.decision \in {"modified", "rejected"}
         \/ pc'[r] = "done" /\ attempt'[r] = attempt[r]
  BY <1>1, <1>2, <1>3, DecideEffect
<1>5. answer'[r] = d /\ \A s \in Runs \ {r} : answer'[s] = answer[s] /\ calls'[s] = calls[s]
  BY <1>4, EngineTypes
<1>6. /\ h \in Handles /\ h.future.state = "none"
      /\ d.decision = "rejected" => h.pending = NoProposal /\ h.status = "rediagnosing"
      /\ d.decision # "rejected" => h.pending = handle[r].pending
                                    /\ h.status = handle[r].status
  <2>1. NoFuture \in Futures /\ NoFuture.state = "none" /\ NoProposal \in Proposal
        /\ "rediagnosing" \in Statuses
    BY DEF NoFuture, Futures, NoProposal, Proposal, Gates, Statuses, ACTIVE_STATUSES
  <2> QED BY <1>3, <2>1 DEF LeftGate, Handles
<1> HIDE DEF h
<1>7. AcceptedOnce(r)'
  <2>1. AcceptedOnce(r)
    BY <1>3 DEF RunInv
  <2> QED BY <1>1, <1>2, <1>3, <1>4, <1>5, <2>1 DEF AcceptedOnce, Acting, Undecided, Early
<1>8. handle[r].status \in ACTIVE_STATUSES
  BY <1>1, <1>2, <1>3 DEF RunInv, Shown, Live
<1>9. CASE pc'[r] \in {"pre", "diagnose"}
  <2> DEFINE st == IF pc'[r] = "pre" THEN STAGE_STATUS[stage'[r]] ELSE h.status
  <2>1. SetStatus(r, h, st) /\ history' = history
    BY <1>1, <1>9
  <2>2. st \in ACTIVE_STATUSES
    BY <1>4, <1>6, <1>8, <1>9 DEF STAGE_STATUS, ACTIVE_STATUSES
  <2> HIDE DEF st
  <2>3. st \in Statuses
    BY <2>2 DEF Statuses
  <2>4. /\ handle' \in [Runs -> Handles] /\ store' \in [Runs -> Stored]
        /\ handle'[r].status = st /\ store'[r].status = st
        /\ handle'[r].future = h.future /\ handle'[r].pending = h.pending
        /\ \A s \in Runs \ {r} : handle'[s] = handle[s] /\ store'[s] = store[s]
    BY <1>6, <2>1, <2>3, SetStatusEffect
  <2>5. Bridged(r)'
    BY <1>6, <1>9, <2>4 DEF Bridged
  <2>6. Shown(r)'
    <3>1. pc'[r] \in Live /\ (pc'[r] \in Undecided => pc'[r] = "diagnose")
      BY <1>9 DEF Live, Awaiting, Undecided, Early
    <3>2. pc'[r] = "diagnose" /\ d.decision # "modified" => h.pending = NoProposal
      BY <1>4, <1>6
    <3> QED BY <1>5, <2>2, <2>4, <3>1, <3>2 DEF Shown
  <2>7. history \in Seq(Entries)
    BY DEF EngineInv, EngineTypeOK, Entries
  <2>8. HistoryInv'
    <3>1. \A s \in RUNS : pc[s] \in Ended => s \in Runs \ {r}
      BY <1>2, EngineTypes DEF Ended
    <3>2. \A s \in RUNS' : pc'[s] \in Ended => s \in Runs \ {r}
      BY <1>1, <1>9, EngineTypes DEF Ended
    <3> QED BY <1>1, <1>4, <1>5, <2>1, <2>4, <3>1, <3>2, NoEndKeepsHistory DEF EngineInv
  <2> QED BY <1>1, <1>4, <1>5, <1>7, <2>1, <2>4, <2>5, <2>6, <2>7, <2>8, OnlyOneMoves
<1>10. CASE pc'[r] = "done"
  <2>1. Settle(r, h) /\ pc[r] \in Live
    BY <1>1, <1>2, <1>10 DEF Live
  <2> QED BY <1>1, <1>4, <1>5, <1>6, <1>7, <1>10, <2>1, SettleStep
<1> QED BY <1>1, <1>9, <1>10

LEMMA StopStep == ASSUME EngineInv, Stop PROVE StepKeeps
<1> DEFINE S == {r \in RUNS : pc[r] \in Live}
<1>1. /\ up' = FALSE /\ EmptyMemory /\ UNCHANGED accepted
      /\ post' = [r \in Runs |-> IF post[r] = "scanning" THEN "refused" ELSE post[r]]
      /\ UNCHANGED <<attempt, answer, calls>>
  BY DEF Stop, Cancel, vars, gate, findings, sync
<1>2. pc' = [r \in Runs |-> IF r \in S THEN "cancelled" ELSE pc[r]]
  <2>1. CASE S = {}
    BY <2>1, EngineTypes DEF Stop, vars
  <2>2. CASE S # {}
    BY <2>2 DEF Stop, Cancel
  <2> QED BY <2>1, <2>2
<1>3. ASSUME NEW r \in Runs
      PROVE  pc'[r] = IF r \in RUNS /\ pc[r] \in Live THEN "cancelled" ELSE pc[r]
  BY <1>2
<1>4. /\ RUNS' = {} /\ handle' = [r \in Runs |-> FreshHandle]
      /\ ready' = [r \in Runs |-> {}] /\ store' = [r \in Runs |-> NotStored]
      /\ history' = << >>
  BY <1>1 DEF EmptyMemory
<1>5. EngineTypeOK'
  <2>1. FreshHandle \in Handles /\ NotStored \in Stored
    BY DEF FreshHandle, NotStored, Handles, Futures, Stored, NoFuture, NoProposal, Proposal,
           Gates, Statuses, ACTIVE_STATUSES
  <2>2. handle' \in [Runs -> Handles] /\ store' \in [Runs -> Stored]
        /\ ready' \in [Runs -> SUBSET Callbacks] /\ history' \in Seq(Entries)
    BY <1>4, <2>1
  <2>3. post' \in [Runs -> {"none", "scanning", "refused", "accepted"}]
        /\ accepted' \in [Runs -> [Gates -> Seq(Decisions)]]
    BY <1>1 DEF EngineInv, EngineTypeOK
  <2> QED BY <1>1, <1>4, <2>2, <2>3
          DEF EngineTypeOK, Handles, Futures, Callbacks, Stored, Entries
<1>6. ASSUME NEW r \in Runs PROVE RunInv(r)'
  <2>1. RunInv(r) /\ pc[r] \in Live \cup Ended
    BY EngineTypes
  <2>2. Registered(r)'
    <3>1. post[r] # "accepted" => pc'[r] = "ready"
      BY <1>3, <2>1 DEF RunInv, Registered
    <3>2. post'[r] # "accepted" => post[r] # "accepted"
      BY <1>1
    <3>3. pc'[r] \in {"ready"} \cup Ended
      BY <1>3, <2>1 DEF RunInv, Registered, Ended
    <3> QED BY <1>4, <3>1, <3>2, <3>3 DEF Registered
  <2>3. AcceptedOnce(r)'
    <3>1. pc'[r] \in {"ready"} \cup Ended /\ (pc'[r] = "ready" => pc[r] = "ready")
      BY <1>3, <2>1 DEF RunInv, Registered, Ended
    <3>2. pc'[r] \notin Acting /\ (pc'[r] \in Undecided => pc[r] \in Undecided)
      BY <3>1 DEF Acting, Undecided, Early, Ended
    <3> QED BY <1>1, <1>4, <2>1, <3>2 DEF RunInv, AcceptedOnce
  <2>4. Bridged(r)' /\ Shown(r)'
    BY <1>4 DEF Bridged, Shown
  <2> QED BY <2>2, <2>3, <2>4 DEF RunInv
<1>7. HistoryInv'
  BY <1>4 DEF HistoryInv
<1> QED BY <1>5, <1>6, <1>7 DEF StepKeeps

LEMMA StartStep == ASSUME EngineInv, Start PROVE StepKeeps
<1>1. /\ up' = TRUE /\ UNCHANGED <<vars, post, RUNS, handle, ready, history, accepted>>
      /\ store' = [r \in Runs |->
                     IF store[r].status \in ACTIVE_STATUSES /\ r \notin RUNS
                     THEN [store[r] EXCEPT !.status = "orphaned"] ELSE store[r]]
  BY DEF Start, sweep_orphans
<1>2. /\ UNCHANGED <<pc, proposal, attempt, answer, calls>>
      /\ \A r \in RUNS : store'[r] = store[r]
  BY <1>1, EngineTypes DEF vars
<1>3. EngineTypeOK'
  <2>1. store \in [Runs -> Stored]
    BY EngineTypes DEF Stored
  <2>2. ASSUME NEW m \in Stored PROVE [m EXCEPT !.status = "orphaned"] \in Stored
    BY DEF Stored
  <2>3. store' \in [Runs -> Stored]
    BY <1>1, <2>1, <2>2
  <2> QED BY <1>1, <2>3 DEF EngineInv, EngineTypeOK, Stored
<1>4. ASSUME NEW r \in Runs PROVE RunInv(r)'
  <2>1. Registered(r)' /\ AcceptedOnce(r)' /\ Bridged(r)'
    BY <1>1, <1>2, EngineTypes DEF RunInv, Registered, AcceptedOnce, Bridged
  <2>2. Shown(r)'
    BY <1>1, <1>2, EngineTypes DEF RunInv, Shown
  <2> QED BY <2>1, <2>2 DEF RunInv
<1>5. HistoryInv'
  BY <1>1, <1>2, NoEndKeepsHistory DEF EngineInv
<1> QED BY <1>3, <1>4, <1>5 DEF StepKeeps

LEMMA EngineStep == EngineInv /\ [EngineNext]_engineVars => EngineInv'
<1> SUFFICES ASSUME EngineInv, [EngineNext]_engineVars PROVE EngineInv'
  OBVIOUS
<1>1. LoopInv'
  BY EngineStepIsLoopStep, LoopInvStep DEF EngineInv
<1>2. ASSUME NEW r \in Runs,
             \/ CheckCap(r) \/ UnknownConnection(r) \/ start_run(r) \/ Drive(r)
             \/ (\E d \in Decisions : submit_decision(r, d)) \/ safe_set_result(r)
             \/ Resume(r)
      PROVE  StepKeeps
  BY <1>1, <1>2, AdmissionStep, DriveStep, SubmitStep, ResultStep, ResumeStep
<1>3. ASSUME UNCHANGED engineVars PROVE StepKeeps
  <2>1. /\ UNCHANGED <<pc, proposal, attempt, answer, calls>>
        /\ UNCHANGED <<up, post, RUNS, handle, ready, store, history, accepted>>
    BY <1>3 DEF engineVars, engine, vars, gate, diagnosis
  <2>2. EngineTypeOK'
    BY <2>1 DEF EngineInv, EngineTypeOK
  <2>3. ASSUME NEW s \in Runs PROVE RunInv(s)'
    <3>1. SameRun(s)
      BY <2>1 DEF SameRun
    <3> QED BY <3>1, SameRunKeepsInv, EngineTypes
  <2>4. HistoryInv'
    BY <2>1, NoEndKeepsHistory DEF EngineInv
  <2> QED BY <2>2, <2>3, <2>4 DEF StepKeeps
<1>4. StepKeeps
  BY <1>2, <1>3, StopStep, StartStep DEF EngineNext
<1> QED BY <1>1, <1>4 DEF StepKeeps, EngineInv

LEMMA EngineStart == EngineInit => EngineInv
<1> SUFFICES ASSUME EngineInit PROVE EngineInv
  OBVIOUS
<1>1. LoopInv
  BY TypeInit, GateInit, ReportInit DEF EngineInit, LoopInv
<1>2. /\ up = TRUE /\ post = [r \in Runs |-> "none"] /\ RUNS = {}
      /\ handle = [r \in Runs |-> FreshHandle] /\ ready = [r \in Runs |-> {}]
      /\ store = [r \in Runs |-> NotStored] /\ history = << >>
      /\ accepted = [r \in Runs |-> NothingAccepted]
  BY DEF EngineInit
<1>3. /\ pc = [r \in Runs |-> "ready"] /\ calls = [r \in Runs |-> << >>]
      /\ attempt = [r \in Runs |-> 0]
  BY DEF EngineInit, Init
<1>4. EngineTypeOK
  <2>1. FreshHandle \in Handles /\ NotStored \in Stored
    BY DEF FreshHandle, NotStored, Handles, Futures, Stored, NoFuture, NoProposal, Proposal,
           Gates, Statuses, ACTIVE_STATUSES
  <2>2. NothingAccepted \in [Gates -> Seq(Decisions)]
    BY DEF NothingAccepted
  <2>3. handle \in [Runs -> Handles] /\ store \in [Runs -> Stored]
        /\ accepted \in [Runs -> [Gates -> Seq(Decisions)]]
        /\ ready \in [Runs -> SUBSET Callbacks] /\ history \in Seq(Entries)
    BY <1>2, <2>1, <2>2
  <2> QED BY <1>2, <2>3 DEF EngineTypeOK, Handles, Futures, Callbacks, Stored, Entries
<1>5. ASSUME NEW r \in Runs PROVE RunInv(r)
  <2>1. \A g \in Gates : accepted[r][g] = << >>
    BY <1>2 DEF NothingAccepted
  <2>2. AcceptedOnce(r)
    BY <1>2, <1>3, <2>1 DEF AcceptedOnce, Acting, Gates
  <2> QED BY <1>2, <1>3, <2>2 DEF RunInv, Registered, Bridged, Shown
<1>6. HistoryInv
  BY <1>2 DEF HistoryInv
<1> QED BY <1>1, <1>4, <1>5, <1>6 DEF EngineInv

LEMMA EngineInvariant == EngineSpec => []EngineInv
BY EngineStart, EngineStep, PTL DEF EngineSpec

-----------------------------------------------------------------------------
(* The theorems.                                                           *)

\* Inside the process, whatever starts, stops and races there, each run behaves as
\* the loop alone does: what is proved of Spec holds of the engine (runs.py:122-149).
THEOREM EngineRunsTheLoop == EngineSpec => Spec
<1>1. EngineInit => Init
  BY DEF EngineInit
<1> QED BY <1>1, EngineInvariant, EngineStepIsLoopStep, PTL DEF EngineSpec, Spec

\* So the gate contract holds of every run of a serving process: no more than two
\* offers, a write only of a cleared plan, as its call, and once (loop.py:247-297,
\* runs.py:91-117).
THEOREM EngineKeepsContract == EngineSpec => GateKept
BY EngineRunsTheLoop, LoopKeepsContract

\* The variables of the process keep their types.
THEOREM EngineTypeCorrect == EngineSpec => []EngineTypeOK
<1>1. EngineInv => EngineTypeOK
  BY DEF EngineInv
<1> QED BY <1>1, EngineInvariant, PTL

\* A write only ever follows one accepted POST to the run's last gate, however many
\* decisions are posted, whenever they arrive (runs.py:206-230).
THEOREM WritesWerePosted == EngineSpec => []WriteWasPosted
<1>1. EngineInv => WriteWasPosted
  BY EngineTypes DEF RunInv, AcceptedOnce, WriteWasPosted
<1> QED BY <1>1, EngineInvariant, PTL

\* A gate accepts one decision, and does not lose it before the loop has it
\* (runs.py:206-230).
THEOREM GatesAcceptOnce == EngineSpec => []OneDecisionPerGate
<1>1. ASSUME EngineInv, NEW r \in Runs, NEW g \in Gates PROVE Len(accepted[r][g]) <= 1
  <2>1. AcceptedOnce(r)
    BY <1>1, EngineTypes DEF RunInv
  <2>2. CASE accepted[r][g] = << >>
    BY <2>2
  <2>3. CASE \E d \in Decisions : accepted[r][g] = <<d>>
    BY <2>3
  <2> QED BY <1>1, <2>1, <2>2, <2>3 DEF AcceptedOnce
<1>2. ASSUME EngineInv, NEW r \in Runs, pc[r] = "gate", accepted[r][attempt[r]] # << >>
      PROVE  LET d == accepted[r][attempt[r]][1]
                 f == handle[r].future
             IN  \/ [gate |-> attempt[r], decision |-> d] \in ready[r]
                       /\ f.gate = attempt[r] /\ f.state = "pending"
                 \/ f.gate = attempt[r] /\ f.state = "done" /\ f.result = d
  <2> DEFINE f == handle[r].future
             d == accepted[r][attempt[r]][1]
  <2>1. Registered(r) /\ AcceptedOnce(r) /\ Bridged(r)
    BY <1>2, EngineTypes DEF RunInv
  <2>2. r \in RUNS
    BY <1>2, <2>1 DEF Registered, Ended
  <2>3. /\ f.gate = attempt[r] /\ f.state \in {"pending", "done"}
        /\ f.state = "pending" => \E cb \in ready[r] : cb.gate = attempt[r]
        /\ f.state = "done" => accepted[r][attempt[r]] = <<f.result>>
    BY <1>2, <2>1, <2>2 DEF Bridged
  <2>4. CASE f.state = "done"
    BY <2>3, <2>4
  <2>5. CASE f.state = "pending"
    <3>1. PICK cb \in ready[r] : cb.gate = attempt[r]
      BY <2>3, <2>5
    <3>2. accepted[r][attempt[r]] = <<cb.decision>> /\ cb \in Callbacks
      BY <1>2, <2>1, <3>1, EngineTypes DEF AcceptedOnce
    <3>3. cb = [gate |-> attempt[r], decision |-> d]
      <4>1. d = cb.decision
        BY <3>2
      <4>2. cb = [gate |-> cb.gate, decision |-> cb.decision]
        BY <3>2 DEF Callbacks
      <4> QED BY <3>1, <4>1, <4>2
    <3>4. [gate |-> attempt[r], decision |-> d] \in ready[r]
      BY <3>3
    <3> HIDE DEF d
    <3> QED BY <2>3, <2>5, <3>4 DEF d
  <2> QED BY <2>3, <2>4, <2>5
<1>3. EngineInv => OneDecisionPerGate
  BY <1>1, <1>2 DEF OneDecisionPerGate
<1> QED BY <1>3, EngineInvariant, PTL

\* What a poll shows at an open gate is the proposal that an approval executes
\* (runs.py:93-104, 181-187).
THEOREM GatesShowTheProposal == EngineSpec => []GateShowsTheProposal
<1>1. ASSUME EngineInv, NEW r \in RUNS, pc[r] = "gate"
      PROVE  /\ handle[r].status = "awaiting_approval"
             /\ handle[r].pending = proposal[r]
             /\ accepted[r][attempt[r]] = << >> =>
                   handle[r].future.state = "pending" /\ ~ handle[r].decision_submitted
  <2>1. r \in Runs /\ AcceptedOnce(r) /\ Bridged(r)
    BY <1>1, EngineTypes DEF RunInv
  <2>2. ASSUME NEW cb \in ready[r], cb.gate = attempt[r]
        PROVE  accepted[r][attempt[r]] # << >>
    BY <2>1, <2>2 DEF AcceptedOnce
  <2>3. /\ handle[r].status = "awaiting_approval" /\ handle[r].pending = proposal[r]
        /\ handle[r].future.state \in {"pending", "done"}
        /\ handle[r].future.state = "pending" /\ handle[r].decision_submitted =>
              \E cb \in ready[r] : cb.gate = attempt[r]
        /\ handle[r].future.state = "done" =>
              accepted[r][attempt[r]] = <<handle[r].future.result>>
    BY <1>1, <2>1 DEF Bridged
  <2>4. handle[r].future.state = "done" => accepted[r][attempt[r]] # << >>
    <3>1. << >> # <<handle[r].future.result>>
      OBVIOUS
    <3> QED BY <2>3, <3>1
  <2> QED BY <2>2, <2>3, <2>4
<1>2. EngineInv => GateShowsTheProposal
  BY <1>1 DEF GateShowsTheProposal
<1> QED BY <1>2, EngineInvariant, PTL

\* A registered run counts against the cap exactly while its coroutine runs
\* (runs.py:34-37, api.py:44).
THEOREM ActiveMeansRunning == EngineSpec => []ActiveIsRunning
<1>1. EngineInv => ActiveIsRunning
  BY EngineTypes DEF RunInv, Shown, ActiveIsRunning
<1> QED BY <1>1, EngineInvariant, PTL

\* The mirror and the handle of a run agree at every await (runs.py:80-84, 96-97,
\* 113-116, 134-135, 139-148).
THEOREM MirrorsAgree == EngineSpec => []MirrorAgrees
<1>1. EngineInv => MirrorAgrees
  BY EngineTypes DEF RunInv, Shown, MirrorAgrees
<1> QED BY <1>1, EngineInvariant, PTL

\* Nothing accepts a decision, and only a refused edit keeps its proposal on the
\* screen, while a revised diagnosis is awaited (runs.py:107-116).
THEOREM StaleProposalsAreInert == EngineSpec => []StaleProposalIsInert
<1>1. EngineInv => StaleProposalIsInert
  BY EngineTypes DEF RunInv, Bridged, Shown, Undecided, Early, StaleProposalIsInert
<1> QED BY <1>1, EngineInvariant, PTL

\* Each run that has ended in this process is in the history once, with the status a
\* poll shows of it, and no other run is (runs.py:133-149).
THEOREM EndedRunsAreRecorded == EngineSpec => []OneHistoryEntryPerEndedRun
<1>1. ASSUME EngineInv, NEW r \in Runs
      PROVE  LET entries == {i \in DOMAIN history : history[i].run = r}
             IN  IF r \in RUNS /\ pc[r] \in Ended
                 THEN \E i \in DOMAIN history :
                         entries = {i} /\ history[i].status = handle[r].status
                 ELSE entries = {}
  <2>1. HistoryInv
    BY <1>1 DEF EngineInv
  <2>2. CASE r \in RUNS /\ pc[r] \in Ended
    <3>1. PICK i \in DOMAIN history : history[i].run = r
      BY <2>1, <2>2 DEF HistoryInv
    <3>2. {j \in DOMAIN history : history[j].run = r} = {i}
      BY <2>1, <3>1 DEF HistoryInv
    <3>3. history[i].status = handle[r].status
      BY <2>1, <3>1 DEF HistoryInv
    <3> QED BY <2>2, <3>2, <3>3
  <2>3. CASE ~ (r \in RUNS /\ pc[r] \in Ended)
    <3>1. {j \in DOMAIN history : history[j].run = r} = {}
      BY <2>1, <2>3 DEF HistoryInv
    <3> QED BY <2>3, <3>1
  <2> QED BY <2>2, <2>3
<1>2. EngineInv => OneHistoryEntryPerEndedRun
  BY <1>1 DEF OneHistoryEntryPerEndedRun
<1> QED BY <1>2, EngineInvariant, PTL

\* Only an error entry may say nothing of a write that was sent (runs.py:140-149).
THEOREM SilenceIsAnError == EngineSpec => []SilentEntriesAreErrors
<1>1. EngineInv => SilentEntriesAreErrors
  BY DEF EngineInv, HistoryInv, SilentEntriesAreErrors
<1> QED BY <1>1, EngineInvariant, PTL
=============================================================================
