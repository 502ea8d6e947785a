--------------------------- MODULE BrowserGateProofs ---------------------------
(***************************************************************************)
(* Theorems about BrowserGate, for any runs and starts of runs, one after  *)
(* another or overlapping, and any network: the page adds nothing to what  *)
(* the process does, it watches a run it sees to the end, it is never      *)
(* locked by a decision that failed, and only a fault lets it answer       *)
(* another gate entry than the one it shows. Two starts at once count as a *)
(* fault.                                                                  *)
(***************************************************************************)
EXTENDS BrowserGate, RunEngineProofs, SequenceTheorems
-----------------------------------------------------------------------------
(* The gate entries of a run, as the process shows them.                   *)

\* Gate entries only go up, and what was accepted stays so.
EngineGoesOn ==
    \A r \in Runs : /\ attempt[r] <= attempt'[r]
                    /\ \A g \in Gates : accepted[r][g] # << >> => accepted'[r][g] # << >>

LEMMA AttemptGoesUp ==
    ASSUME TypeInv, [Next]_vars, NEW r \in Runs PROVE attempt[r] <= attempt'[r]
<1>1. attempt[r] \in {0, 1}
  BY DEF TypeInv, TypeOK
<1>2. ASSUME NEW s \in Runs, Step(s) PROVE attempt' = attempt
  BY <1>2, StepEffect
<1>3. ASSUME NEW s \in Runs, NEW d \in Decisions, Decide(s, d)
      PROVE  attempt'[r] = attempt[r] \/ attempt'[r] = 1
  BY <1>3, DecideEffect
<1>4. ASSUME NEW S \in SUBSET Runs, Cancel(S) PROVE attempt' = attempt
  BY <1>4 DEF Cancel, gate
<1>5. UNCHANGED vars => attempt' = attempt
  BY DEF vars
<1>6. attempt'[r] = attempt[r] \/ attempt'[r] = 1
  BY <1>2, <1>3, <1>4, <1>5 DEF Next
<1> QED BY <1>1, <1>6

LEMMA SubmitEffect ==
    ASSUME EngineInv, NEW r \in Runs, NEW d \in Decisions, submit_decision(r, d)
    PROVE  /\ accepted'[r][attempt[r]] # << >> /\ attempt' = attempt
           /\ \A s \in Runs : \A g \in Gates :
                 accepted[s][g] # << >> => accepted'[s][g] # << >>
<1> DEFINE g == handle[r].future.gate
<1>1. /\ r \in RUNS /\ handle[r].future.state = "pending"
      /\ accepted' = [accepted EXCEPT ![r][g] = Append(@, d)] /\ attempt' = attempt
  BY DEF submit_decision, vars
<1>2. g = attempt[r] /\ g \in Gates
  BY <1>1, EngineTypes DEF RunInv, Bridged
<1> HIDE DEF g
<1>3. accepted \in [Runs -> [Gates -> Seq(Decisions)]]
  BY EngineTypes
<1>4. Append(accepted[r][g], d) # << >>
  <2>1. accepted[r][g] \in Seq(Decisions)
    BY <1>2, <1>3
  <2> QED BY <2>1, AppendProperties
<1>5. accepted'[r][g] = Append(accepted[r][g], d)
  BY <1>1, <1>2, <1>3
<1>6. ASSUME NEW s \in Runs, NEW k \in Gates, s # r \/ k # g
      PROVE  accepted'[s][k] = accepted[s][k]
  BY <1>1, <1>2, <1>3, <1>6
<1> QED BY <1>1, <1>2, <1>4, <1>5, <1>6

LEMMA GoingOn ==
    ASSUME EngineInv, [EngineNext]_engineVars PROVE EngineGoesOn
<1>1. \A r \in Runs : attempt[r] <= attempt'[r]
  BY EngineStepIsLoopStep, AttemptGoesUp DEF EngineInv, LoopInv
<1>2. ASSUME NEW r \in Runs, NEW d \in Decisions, submit_decision(r, d)
      PROVE  \A s \in Runs : \A g \in Gates :
                accepted[s][g] # << >> => accepted'[s][g] # << >>
  BY <1>2, SubmitEffect
<1>3. ASSUME NEW r \in Runs,
             \/ CheckCap(r) \/ UnknownConnection(r) \/ start_run(r) \/ Drive(r)
             \/ safe_set_result(r) \/ Resume(r)
      PROVE  accepted' = accepted
  BY <1>3 DEF CheckCap, UnknownConnection, start_run, Drive, safe_set_result, Resume
<1>4. CASE Stop \/ Start \/ UNCHANGED engineVars
  BY <1>1, <1>4 DEF Stop, Start, engineVars, engine, EngineGoesOn
<1> QED BY <1>1, <1>2, <1>3, <1>4 DEF EngineNext, EngineGoesOn

\* A run has no proposal to show before its first gate, and is diagnosed again only
\* after that gate has accepted something.
RoundInv ==
    \A r \in Runs :
        /\ pc[r] \in Undecided /\ attempt[r] = 1 => pc[r] = "diagnose"
        /\ attempt[r] = 1 => accepted[r][0] # << >>
        /\ r \in RUNS /\ pc[r] \in Undecided /\ attempt[r] = 0 =>
              handle[r].pending = NoProposal

LEMMA DiagnoseEffect ==
    ASSUME TypeInv, NEW r \in Runs, Step(r), pc[r] = "diagnose"
    PROVE  pc'[r] \in {"diagnose", "gate"} \cup Ended
<1>1. pc \in [Runs -> Live \cup Ended]
  BY DEF TypeInv, TypeOK
<1>2. ~ (\/ Begin(r) \/ detect(r) \/ connection_tables(r) \/ baseline_precondition(r)
         \/ inspect(r) \/ ReadMarkers(r) \/ SendWrite(r)
         \/ (\E ok \in BOOLEAN : WriteReturns(r, ok)) \/ PollAnswered(r) \/ Recheck(r))
  BY DEF Begin, detect, connection_tables, baseline_precondition, inspect, ReadMarkers,
         SendWrite, WriteReturns, PollAnswered, SyncPending, SyncEnded, SyncTimedOut,
         Recheck, finish, Goto
<1>3. CASE Propose(r)
  BY <1>1, <1>3 DEF Propose, Goto
<1>4. CASE InvalidAnswer(r)
  BY <1>1, <1>4 DEF InvalidAnswer, finish, Goto, Ended
<1>5. CASE Raise(r)
  BY <1>1, <1>5 DEF Raise, Ended
<1> QED BY <1>2, <1>3, <1>4, <1>5 DEF Step, Diagnose

\* For a run, a step of the process is one of its driver, the return of its gate, or
\* nothing a poll could see.
LEMMA RunMoves ==
    ASSUME EngineInv, EngineNext \/ UNCHANGED engineVars, NEW r \in Runs
    PROVE  \/ Drive(r)
           \/ Resume(r)
           \/ Stop
           \/ r \notin RUNS /\ post[r] # "accepted" /\ start_run(r)
           \/ /\ r \in RUNS <=> r \in RUNS'
              /\ pc'[r] = pc[r] /\ attempt'[r] = attempt[r]
              /\ handle'[r].status = handle[r].status
              /\ handle'[r].pending = handle[r].pending
<1> DEFINE Quiet == /\ r \in RUNS <=> r \in RUNS'
                    /\ pc'[r] = pc[r] /\ attempt'[r] = attempt[r]
                    /\ handle'[r].status = handle[r].status
                    /\ handle'[r].pending = handle[r].pending
<1>a. /\ handle \in [Runs -> Handles] /\ TypeInv /\ RUNS \subseteq Runs
  BY EngineTypes DEF EngineInv, LoopInv
<1>1. CASE UNCHANGED <<vars, RUNS, handle>>
  BY <1>1 DEF vars
<1>2. CASE UNCHANGED engineVars \/ Start
  BY <1>1, <1>2 DEF engineVars, engine, Start
<1>3. ASSUME NEW s \in Runs, CheckCap(s) \/ UnknownConnection(s) PROVE Quiet
  BY <1>3 DEF CheckCap, UnknownConnection, vars
<1>4. ASSUME NEW s \in Runs, start_run(s)
      PROVE  (r \notin RUNS /\ post[r] # "accepted" /\ start_run(r)) \/ Quiet
  <2>1. CASE s = r
    BY <1>4, <2>1, EngineTypes DEF start_run, RunInv, Registered
  <2>2. CASE s # r
    BY <1>a, <1>4, <2>2 DEF start_run, vars
  <2> QED BY <2>1, <2>2
<1>5. ASSUME NEW s \in Runs, s # r, Drive(s) PROVE Quiet
  <2>1. /\ Step(s) /\ RUNS' = RUNS /\ UNCHANGED attempt /\ pc'[r] = pc[r]
    BY <1>a, <1>5, StepEffect DEF Drive
  <2>2. handle'[r] = handle[r]
    BY <1>a, <1>5 DEF Drive, progress, OpenGate, Settle, SetStatus
  <2> QED BY <2>1, <2>2
<1>6. ASSUME NEW s \in Runs, s # r, Resume(s) PROVE Quiet
  <2>1. handle[s].future.result \in Decisions
    BY <1>6, FutureResultType DEF Resume
  <2>2. /\ RUNS' = RUNS /\ attempt'[r] = attempt[r] /\ pc'[r] = pc[r]
    BY <1>a, <1>6, <2>1, DecideEffect DEF Resume
  <2>3. handle'[r] = handle[r]
    BY <1>a, <1>6 DEF Resume, Settle, SetStatus
  <2> QED BY <2>2, <2>3
<1>7. ASSUME NEW s \in Runs, NEW d \in Decisions, submit_decision(s, d) PROVE Quiet
  <2>1. UNCHANGED <<pc, attempt, RUNS>> /\ handle' = [handle EXCEPT ![s].decision_submitted = TRUE]
    BY <1>7 DEF submit_decision, vars
  <2> QED BY <1>a, <2>1 DEF Handles
<1>8. ASSUME NEW s \in Runs, safe_set_result(s) PROVE Quiet
  <2>1. UNCHANGED <<pc, attempt, RUNS>>
    BY <1>8 DEF safe_set_result, vars
  <2>2. \/ handle' = handle
        \/ \E f : handle' = [handle EXCEPT ![s].future = f]
    BY <1>8 DEF safe_set_result
  <2> QED BY <1>a, <2>1, <2>2 DEF Handles
<1> QED BY <1>2, <1>3, <1>4, <1>5, <1>6, <1>7, <1>8 DEF EngineNext

LEMMA DriveMoves ==
    ASSUME EngineInv, EngineInv', NEW r \in Runs, Drive(r)
    PROVE  /\ r \in RUNS /\ r \in RUNS' /\ Step(r) /\ UNCHANGED <<attempt, accepted>>
           /\ \/ /\ pc'[r] \in Awaiting /\ handle'[r].pending = handle[r].pending
                 /\ \/ handle'[r] = handle[r]
                    \/ handle'[r].status # "awaiting_approval"
              \/ pc'[r] = "gate" /\ pc[r] = "diagnose"
              \/ pc'[r] \in Ended /\ handle'[r].status # "awaiting_approval"
<1>a. /\ TypeInv /\ handle \in [Runs -> Handles] /\ handle[r] \in Handles
  BY EngineTypes DEF EngineInv, LoopInv
<1>1. /\ r \in RUNS /\ RUNS' = RUNS /\ Step(r) /\ UNCHANGED <<attempt, accepted>>
      /\ stage'[r] = stage[r] \/ stage'[r] \in Stages \ {"none"}
      /\ pc'[r] = "gate" => pc[r] = "diagnose"
  BY <1>a, StepEffect DEF Drive, Awaiting
<1>2. CASE pc'[r] \in Awaiting /\ progress(r)
  <2>1. CASE stage'[r] = stage[r]
    BY <1>1, <1>2, <2>1 DEF progress
  <2>2. CASE stage'[r] # stage[r]
    <3> DEFINE st == STAGE_STATUS[stage'[r]]
    <3>1. st \in Statuses /\ st # "awaiting_approval"
      BY <1>1, <2>2 DEF Stages, STAGE_STATUS, Statuses, ACTIVE_STATUSES
    <3>2. SetStatus(r, handle[r], st)
      BY <1>2, <2>2 DEF progress
    <3> HIDE DEF st
    <3>3. handle'[r].status = st /\ handle'[r].pending = handle[r].pending
      BY <1>a, <3>1, <3>2, SetStatusEffect
    <3> QED BY <1>1, <1>2, <3>1, <3>3
  <2> QED BY <2>1, <2>2
<1>3. CASE pc'[r] \in Ended
  <2>1. handle'[r].status \notin ACTIVE_STATUSES
    <3>1. Shown(r)' /\ r \in RUNS'
      BY <1>1, EngineTypes DEF EngineInv, RunInv
    <3> QED BY <1>3, <3>1 DEF Shown, Live, Ended, Awaiting
  <2> QED BY <1>1, <1>3, <2>1 DEF ACTIVE_STATUSES
<1>4. \/ pc'[r] \in Awaiting /\ progress(r)
      \/ pc'[r] = "gate"
      \/ pc'[r] \in Ended
  BY DEF Drive
<1> QED BY <1>1, <1>2, <1>3, <1>4

LEMMA ResumeMoves ==
    ASSUME EngineInv, EngineInv', NEW r \in Runs, Resume(r)
    PROVE  /\ r \in RUNS /\ r \in RUNS' /\ pc[r] = "gate"
           /\ accepted[r][attempt[r]] # << >> /\ accepted' = accepted
           /\ \/ pc'[r] = "diagnose" /\ attempt[r] = 0 /\ attempt'[r] = 1
              \/ /\ pc'[r] \in {"pre", "done"} /\ attempt'[r] = attempt[r]
                 /\ handle'[r].status # "awaiting_approval"
<1> DEFINE d == handle[r].future.result
           h == LeftGate(r, d)
<1>1. /\ r \in RUNS /\ handle[r].future.state = "done" /\ Decide(r, d)
      /\ UNCHANGED <<RUNS, accepted>>
      /\ \/ pc'[r] = "pre" /\ SetStatus(r, h, STAGE_STATUS[stage'[r]])
         \/ pc'[r] = "diagnose"
         \/ pc'[r] = "done"
  BY DEF Resume
<1>2. /\ pc[r] = "gate" /\ d \in Decisions /\ accepted[r][attempt[r]] = <<d>>
  BY <1>1, FutureResultType
<1>3. TypeInv /\ handle[r] \in Handles
  BY EngineTypes DEF EngineInv, LoopInv
<1> HIDE DEF d
<1>4. \/ pc'[r] = "pre" /\ attempt'[r] = attempt[r] /\ stage'[r] = "acting"
      \/ pc'[r] = "diagnose" /\ attempt[r] = 0 /\ attempt'[r] = 1
      \/ pc'[r] = "done" /\ attempt'[r] = attempt[r]
  BY <1>1, <1>2, <1>3, DecideEffect
<1>5. accepted[r][attempt[r]] # << >>
  BY <1>2
<1>6. CASE pc'[r] = "pre"
  <2>1. h \in Handles
    <3>1. NoFuture \in Futures /\ NoProposal \in Proposal /\ "rediagnosing" \in Statuses
      BY DEF NoFuture, Futures, NoProposal, Proposal, Gates, Statuses, ACTIVE_STATUSES
    <3> QED BY <1>3, <3>1 DEF LeftGate, Handles
  <2>2. SetStatus(r, h, "acting") /\ "acting" \in Statuses
    BY <1>1, <1>4, <1>6 DEF STAGE_STATUS, Statuses, ACTIVE_STATUSES
  <2> HIDE DEF h
  <2>3. handle'[r].status = "acting"
    BY <2>1, <2>2, SetStatusEffect
  <2> QED BY <1>1, <1>2, <1>4, <1>5, <1>6, <2>3
<1>7. CASE pc'[r] = "done"
  <2>1. handle'[r].status \notin ACTIVE_STATUSES
    <3>1. Shown(r)' /\ r \in RUNS'
      BY <1>1, EngineTypes DEF EngineInv, RunInv
    <3> QED BY <1>7, <3>1 DEF Shown, Live, Awaiting
  <2> QED BY <1>1, <1>2, <1>4, <1>5, <1>7, <2>1 DEF ACTIVE_STATUSES
<1> QED BY <1>1, <1>2, <1>4, <1>5, <1>6, <1>7

LEMMA RoundStep ==
    ASSUME EngineInv, EngineInv', RoundInv, EngineGoesOn, EngineNext \/ UNCHANGED engineVars
    PROVE  RoundInv'
<1> SUFFICES ASSUME NEW r \in Runs
             PROVE  /\ pc'[r] \in Undecided /\ attempt'[r] = 1 => pc'[r] = "diagnose"
                    /\ attempt'[r] = 1 => accepted'[r][0] # << >>
                    /\ r \in RUNS' /\ pc'[r] \in Undecided /\ attempt'[r] = 0 =>
                          handle'[r].pending = NoProposal
  BY DEF RoundInv
<1>a. /\ TypeInv /\ attempt[r] \in Gates /\ attempt'[r] \in Gates /\ 0 \in Gates
      /\ accepted[r][0] # << >> => accepted'[r][0] # << >>
  <2>1. attempt[r] \in Gates /\ attempt'[r] \in Gates
    BY EngineTypes DEF EngineInv, LoopInv, TypeInv, TypeOK, Gates
  <2> QED BY <2>1 DEF EngineInv, LoopInv, EngineGoesOn, Gates
<1>b. /\ pc[r] \in Undecided /\ attempt[r] = 1 => pc[r] = "diagnose"
      /\ attempt[r] = 1 => accepted[r][0] # << >>
      /\ r \in RUNS /\ pc[r] \in Undecided /\ attempt[r] = 0 =>
            handle[r].pending = NoProposal
  BY DEF RoundInv
<1>1. CASE Drive(r)
  <2>1. pc'[r] \in Undecided => pc[r] \in Undecided
    <3>1. pc'[r] \in Undecided => pc[r] \in Early /\ pc[r] # "gate"
      BY <1>1, <1>a, DriveMoves, StepEffect DEF Undecided, Early, Awaiting
    <3> QED BY <3>1 DEF Undecided
  <2>2. pc'[r] \in Undecided /\ pc[r] = "diagnose" => pc'[r] = "diagnose"
    BY <1>1, <1>a, DriveMoves, DiagnoseEffect DEF Undecided, Early, Ended
  <2>3. r \in RUNS /\ attempt'[r] = attempt[r]
    BY <1>1, DriveMoves
  <2>4. pc'[r] \in Undecided => handle'[r].pending = handle[r].pending
    BY <1>1, DriveMoves DEF Undecided, Early, Ended
  <2> QED BY <1>a, <1>b, <2>1, <2>2, <2>3, <2>4
<1>2. CASE Resume(r)
  <2>1. pc'[r] \in Undecided => pc'[r] = "diagnose" /\ attempt'[r] = 1
    BY <1>2, ResumeMoves DEF Undecided, Early
  <2>2. attempt'[r] = 1 /\ attempt[r] = 0 => accepted[r][0] # << >>
    BY <1>2, ResumeMoves
  <2> QED BY <1>a, <1>b, <2>1, <2>2 DEF Gates
<1>3. CASE Stop
  <2>1. attempt'[r] = attempt[r] /\ (pc'[r] = pc[r] \/ pc'[r] = "cancelled") /\ RUNS' = {}
    BY <1>3, EngineTypes DEF Stop, Cancel, gate, vars, EmptyMemory
  <2> QED BY <1>a, <1>b, <2>1 DEF Undecided, Early
<1>4. CASE r \notin RUNS /\ post[r] # "accepted" /\ start_run(r)
  <2>1. handle'[r].pending = NoProposal /\ attempt' = attempt /\ pc' = pc
    BY <1>4, EngineTypes DEF start_run, FreshHandle, vars
  <2> QED BY <1>a, <1>b, <2>1
<1>5. CASE /\ r \in RUNS <=> r \in RUNS'
           /\ pc'[r] = pc[r] /\ attempt'[r] = attempt[r]
           /\ handle'[r].pending = handle[r].pending
  BY <1>a, <1>b, <1>5
<1> QED BY <1>1, <1>2, <1>3, <1>4, <1>5, RunMoves

-----------------------------------------------------------------------------
(* What a snapshot tells of a decision to come, and one taken.             *)

\* The run a snapshot or a decision is of stands at the gate entry it names, with
\* the proposal it names, and nothing has been accepted there.
AtGate(x) ==
    /\ x.run \in RUNS /\ pc[x.run] = "gate" /\ attempt[x.run] = x.gate
    /\ accepted[x.run][x.gate] = << >> /\ proposal[x.run] = x.proposal

\* A gate that is shown, and has or has not accepted a decision.
Unanswered(s) == GateOpen(s) /\ accepted[s.run][s.gate] = << >>
Settled(s) == GateOpen(s) /\ accepted[s.run][s.gate] # << >>

\* A gate that a poll shows unanswered is the one the run is parked at.
LEMMA UnansweredIsAtGate ==
    ASSUME EngineInv, RoundInv, NEW r \in RUNS, Unanswered(snapshot(r))
    PROVE  AtGate(snapshot(r))
<1>1. /\ r \in Runs /\ RunInv(r) /\ attempt[r] \in Gates
      /\ pc[r] \in Live \cup Ended
  BY EngineTypes
<1>2. /\ handle[r].status = "awaiting_approval" /\ handle[r].pending # NoProposal
      /\ snapshot(r).run = r
      /\ snapshot(r).gate = IF pc[r] = "diagnose" THEN 0 ELSE attempt[r]
      /\ accepted[r][snapshot(r).gate] = << >>
  BY DEF Unanswered, GateOpen, snapshot
<1>3. pc[r] \in Live
  BY <1>1, <1>2 DEF RunInv, Shown, ACTIVE_STATUSES
<1>4. pc[r] \notin Undecided
  BY <1>1, <1>2 DEF RoundInv, Gates
<1>5. pc[r] \notin Acting
  <2>1. << >> # <<answer[r]>>
    OBVIOUS
  <2> QED BY <1>1, <1>2, <2>1 DEF RunInv, AcceptedOnce, Acting
<1>6. pc[r] = "gate"
  BY <1>3, <1>4, <1>5 DEF Live, Awaiting, Undecided, Early, Acting
<1>7. snapshot(r).proposal = proposal[r]
  BY <1>1, <1>6 DEF RunInv, Bridged, snapshot
<1> QED BY <1>2, <1>6, <1>7 DEF AtGate

\* As long as the run is parked there, a poll shows an open gate.
LEMMA AtGateIsShown ==
    ASSUME EngineInv, NEW x, AtGate(x) PROVE GateOpen(snapshot(x.run))
<1>1. x.run \in Runs /\ RunInv(x.run) /\ x.run \in RUNS /\ pc[x.run] = "gate"
  BY EngineTypes DEF AtGate
<1>2. /\ handle[x.run].status = "awaiting_approval"
      /\ handle[x.run].pending = proposal[x.run]
  BY <1>1 DEF RunInv, Bridged
<1>3. proposal[x.run] # NoProposal
  BY <1>1 DEF EngineInv, LoopInv, TypeInv, ValidInv, validate_payload, VALID_ACTIONS,
              NoProposal
<1> QED BY <1>2, <1>3 DEF GateOpen, snapshot

\* No step of the process but an accepted decision moves an unanswered gate, short of
\* the end of the process.
LEMMA AtGateStays ==
    ASSUME EngineInv, EngineInv', EngineNext \/ UNCHANGED engineVars, accepted' = accepted,
           NEW x, AtGate(x), x.run \in RUNS'
    PROVE  AtGate(x)'
<1> DEFINE r == x.run
<1>1. /\ r \in Runs /\ r \in RUNS /\ pc[r] = "gate" /\ attempt[r] = x.gate
      /\ accepted[r][attempt[r]] = << >>
  BY EngineTypes DEF AtGate
<1>2. ~ Drive(r)
  BY <1>1, StepEffect DEF Drive, EngineInv, LoopInv, Awaiting
<1>3. ~ Resume(r)
  BY <1>1, ResumeMoves
<1>4. ~ Stop
  BY DEF Stop, EmptyMemory
<1>5. /\ pc'[r] = pc[r] /\ attempt'[r] = attempt[r]
      /\ handle'[r].pending = handle[r].pending
  BY <1>1, <1>2, <1>3, <1>4, RunMoves
<1>6. proposal'[r] = proposal[r]
  <2>1. RunInv(r) /\ RunInv(r)'
    BY <1>1 DEF EngineInv
  <2>2. handle[r].pending = proposal[r] /\ handle'[r].pending = proposal'[r]
    BY <1>1, <1>5, <2>1 DEF RunInv, Bridged
  <2> QED BY <1>5, <2>2
<1> QED BY <1>1, <1>5, <1>6 DEF AtGate

\* And what a poll shows of a settled gate was shown before.
LEMMA SettledWasShown ==
    ASSUME EngineInv, EngineInv', RoundInv, RoundInv', EngineNext \/ UNCHANGED engineVars,
           accepted' = accepted, NEW r \in Runs, post[r] = "accepted",
           r \in RUNS', Settled(snapshot(r))'
    PROVE  r \in RUNS /\ Settled(snapshot(r))
<1>1. /\ RunInv(r) /\ RunInv(r)' /\ attempt[r] \in Gates /\ attempt'[r] \in Gates
      /\ TypeInv /\ pc[r] \in Live \cup Ended
  <2>1. attempt'[r] \in Gates
    BY DEF EngineInv, LoopInv, TypeInv, TypeOK, Gates
  <2> QED BY <2>1, EngineTypes DEF EngineInv, LoopInv
<1>2. /\ handle'[r].status = "awaiting_approval" /\ handle'[r].pending # NoProposal
      /\ accepted[r][IF pc'[r] = "diagnose" THEN 0 ELSE attempt'[r]] # << >>
  BY DEF Settled, GateOpen, snapshot
<1>3. CASE Drive(r)
  <2>1. /\ r \in RUNS /\ Step(r) /\ attempt'[r] = attempt[r]
        /\ \/ pc'[r] \in Awaiting /\ handle'[r] = handle[r]
           \/ pc'[r] = "gate" /\ pc[r] = "diagnose"
    BY <1>2, <1>3, DriveMoves
  <2>2. ~ (pc'[r] = "gate" /\ pc[r] = "diagnose")
    BY <1>1, <1>2, <2>1 DEF RunInv, AcceptedOnce, Undecided, Early
  <2>3. pc[r] = "diagnose" <=> pc'[r] = "diagnose"
    <3>1. pc[r] \in Early <=> pc'[r] \in Early
      BY <1>1, <2>1, <2>2, StepEffect DEF Awaiting, Ended
    <3>2. pc'[r] \in Undecided => attempt[r] = 1
      BY <1>1, <1>2, <2>1 DEF RoundInv, Gates
    <3>3. pc'[r] \in Undecided => pc[r] \in Undecided
      <4>1. pc[r] # "gate"
        BY <1>1, <2>1, StepEffect DEF Awaiting
      <4> QED BY <3>1, <4>1 DEF Undecided
    <3>4. pc[r] = "diagnose" => pc'[r] \in Undecided
      BY <2>1, <2>2, <3>1 DEF Undecided, Early, Awaiting
    <3> QED BY <2>1, <3>2, <3>3, <3>4 DEF RoundInv, Undecided, Early
  <2> QED BY <1>2, <2>1, <2>2, <2>3 DEF Settled, GateOpen, snapshot
<1>4. CASE Resume(r)
  <2>1. /\ r \in RUNS /\ pc[r] = "gate" /\ accepted[r][attempt[r]] # << >>
    BY <1>4, ResumeMoves
  <2>2. handle[r].status = "awaiting_approval" /\ handle[r].pending = proposal[r]
    BY <1>1, <2>1 DEF RunInv, Bridged
  <2>3. proposal[r] # NoProposal
    BY <1>1, <2>1 DEF TypeInv, ValidInv, validate_payload, VALID_ACTIONS, NoProposal
  <2> QED BY <2>1, <2>2, <2>3 DEF Settled, GateOpen, snapshot
<1>5. ~ Stop
  BY DEF Stop, EmptyMemory
<1> QED BY <1>2, <1>3, <1>4, <1>5, RunMoves DEF Settled, GateOpen, snapshot

-----------------------------------------------------------------------------
(* The page, and what is under way.                                        *)

PostSet == [decision : {"approved", "modified", "rejected"},
            targets  : SUBSET Names, wanted : SUBSET Names,
            run      : Runs, gate : Gates, proposal : Proposal]

\* Before a page follows a run, nothing has come or is on its way to it.
BlankInv ==
    runId = NoRun => /\ followed = {} /\ ~ timer
                     /\ view = NoSnapshot /\ replies = << >>
                     /\ ~ submitting /\ clicked = 0 /\ posts = {}

\* Whatever is under way is of a run the page has followed, each of them was
\* admitted, and no other run can have been answered.
FollowInv ==
    /\ runId # NoRun => runId \in followed
    /\ \A i \in DOMAIN replies : replies[i].run \in followed
    /\ \A p \in posts : p.run \in followed
    /\ \A r \in followed : post[r] = "accepted"
    /\ \A r \in Runs \ followed : \A g \in Gates : accepted[r][g] = << >>

\* A run that is being started has not been followed.
StartInv == starting \cap followed = {}

\* A snapshot tells no untimely end, and the page believes those of its run.
EndInv ==
    /\ \A i \in DOMAIN replies :
          replies[i].status \in TERMINAL => pc[replies[i].run] \in Ended
    /\ PollsWhileLive

BrowserInv ==
    EngineInv /\ RoundInv /\ BrowserTypeOK /\ BlankInv /\ FollowInv /\ StartInv /\ EndInv

\* Where the j-th element of a sequence stood before the i-th was removed.
Place(i, j) == IF j < i THEN j ELSE j + 1

LEMMA Removal ==
    ASSUME NEW S, NEW s \in Seq(S), NEW i \in DOMAIN s
    PROVE  /\ RemoveAt(s, i) \in Seq(S)
           /\ \A j \in DOMAIN RemoveAt(s, i) :
                 /\ j \in Nat \ {0}
                 /\ Place(i, j) \in DOMAIN s
                 /\ RemoveAt(s, i)[j] = s[Place(i, j)]
<1> DEFINE a == SubSeq(s, 1, i-1)
           b == SubSeq(s, i+1, Len(s))
<1>1. /\ a \in Seq(S) /\ b \in Seq(S)
      /\ Len(a) = i - 1 /\ Len(b) = Len(s) - i
      /\ \A k \in 1 .. Len(a) : a[k] = s[k]
      /\ \A k \in 1 .. Len(b) : b[k] = s[i + k]
      /\ i \in 1 .. Len(s) /\ Len(s) \in Nat
  OBVIOUS
<1>2. RemoveAt(s, i) = a \o b
  BY DEF RemoveAt
<1> HIDE DEF a, b
<1> DEFINE c == a \o b
<1>3. /\ c \in Seq(S) /\ Len(c) = Len(a) + Len(b)
      /\ \A j \in 1 .. Len(a) + Len(b) : c[j] = IF j <= Len(a) THEN a[j] ELSE b[j - Len(a)]
  BY <1>1, ConcatProperties
<1> HIDE DEF c
<1>4. ASSUME NEW j \in DOMAIN c
      PROVE  j \in Nat \ {0} /\ Place(i, j) \in DOMAIN s /\ c[j] = s[Place(i, j)]
  <2>0. Len(a) \in Nat /\ Len(b) \in Nat
    BY <1>1
  <2>1. j \in 1 .. Len(a) + Len(b) /\ j \in Nat \ {0}
    BY <1>3, <2>0
  <2>2. CASE j < i
    <3>1. j <= Len(a) /\ j \in 1 .. Len(a) /\ Place(i, j) = j /\ j \in 1 .. Len(s)
      BY <1>1, <2>1, <2>2 DEF Place
    <3>2. c[j] = s[j] /\ j \in DOMAIN s
      BY <1>1, <1>3, <2>1, <3>1
    <3> QED BY <2>1, <3>1, <3>2
  <2>3. CASE j >= i
    <3> DEFINE k == j - Len(a)
    <3>1. k \in 1 .. Len(b) /\ ~ (j <= Len(a)) /\ i + k = j + 1 /\ Place(i, j) = j + 1
      BY <1>1, <2>0, <2>1, <2>3 DEF Place
    <3>2. c[j] = b[k]
      BY <1>3, <2>1, <3>1
    <3>3. b[k] = s[i + k] /\ j + 1 \in 1 .. Len(s)
      BY <1>1, <3>1
    <3> HIDE DEF k
    <3>4. c[j] = s[j + 1] /\ j + 1 \in DOMAIN s
      BY <1>1, <3>1, <3>2, <3>3
    <3> QED BY <2>1, <3>1, <3>4
  <2>4. j < i \/ j >= i
    BY <1>1, <2>1
  <2> QED BY <2>2, <2>3, <2>4
<1> QED BY <1>2, <1>3, <1>4 DEF c

LEMMA DecisionOfAPost ==
    ASSUME NEW p \in PostSet
    PROVE  [decision |-> p.decision, targets |-> p.targets] \in Decisions
BY DEF PostSet, Decisions

\* A step of page, network and process is a step of the process, or none.
LEMMA BrowserStepIsEngineStep ==
    EngineInv /\ BrowserTypeOK /\ [BrowserNext]_browserVars => [EngineNext]_engineVars
<1> SUFFICES ASSUME EngineInv, BrowserTypeOK, BrowserNext \/ UNCHANGED browserVars
             PROVE  EngineNext \/ UNCHANGED engineVars
  OBVIOUS
<1>1. CASE EngineMoves
  BY <1>1 DEF EngineMoves, EngineNext
<1>2. ASSUME NEW p \in posts, DeliverPost(p) PROVE EngineNext \/ UNCHANGED engineVars
  <2>1. p \in PostSet
    BY DEF BrowserTypeOK, PostSet
  <2>2. p.run \in Runs /\ [decision |-> p.decision, targets |-> p.targets] \in Decisions
    BY <2>1, DecisionOfAPost DEF PostSet
  <2> QED BY <1>2, <2>2 DEF DeliverPost, EngineNext
<1>3. ASSUME NEW r \in Runs, startRun(r) \/ startPolling(r) \/ startFails(r)
      PROVE  UNCHANGED engineVars
  BY <1>3 DEF startRun, startPolling, startFails
<1>4. CASE Poll \/ LoseReply \/ LosePost \/ AnswerArrives \/ LoseAnswer
  BY <1>4 DEF Poll, LoseReply, LosePost, AnswerArrives, LoseAnswer
<1>5. ASSUME NEW i \in DOMAIN replies, RenderReply(i) PROVE UNCHANGED engineVars
  BY <1>5 DEF RenderReply, Arrives
<1>6. ASSUME NEW T \in Edits, Edit(T) PROVE UNCHANGED engineVars
  BY <1>6 DEF Edit
<1>7. ASSUME NEW d, decide(d) PROVE UNCHANGED engineVars
  BY <1>7 DEF decide, Click
<1>8. CASE UNCHANGED browserVars
  BY <1>8 DEF browserVars
<1> QED BY <1>1, <1>2, <1>3, <1>4, <1>5, <1>6, <1>7, <1>8 DEF BrowserNext

\* A run that has ended stays ended.
LEMMA EndedStays ==
    ASSUME TypeInv, [Next]_vars, NEW r \in Runs, pc[r] \in Ended
    PROVE  pc'[r] \in Ended
<1>1. ASSUME NEW s \in Runs, Step(s) PROVE pc'[r] \in Ended
  <2>1. r # s
    BY <1>1, StepEffect DEF Awaiting, Ended
  <2> QED BY <1>1, <2>1, StepEffect
<1>2. ASSUME NEW s \in Runs, NEW d \in Decisions, Decide(s, d) PROVE pc'[r] \in Ended
  <2>1. r # s
    BY <1>2, DecideEffect DEF Ended
  <2> QED BY <1>2, <2>1, DecideEffect
<1>3. ASSUME NEW S \in SUBSET Runs, Cancel(S) PROVE pc'[r] \in Ended
  BY <1>3 DEF Cancel, Ended
<1>4. CASE UNCHANGED vars
  BY <1>4 DEF vars
<1> QED BY <1>1, <1>2, <1>3, <1>4 DEF Next

\* What a snapshot of a registered run tells: its end when it has come, and not before.
LEMMA SnapshotTells ==
    ASSUME EngineInv, NEW r \in RUNS
    PROVE  /\ snapshot(r) \in Snapshots /\ snapshot(r).run = r
           /\ snapshot(r).status \in TERMINAL <=> pc[r] \in Ended
<1>1. /\ r \in Runs /\ RunInv(r) /\ handle[r] \in Handles /\ attempt[r] \in Gates
      /\ pc[r] \in Live \cup Ended
  BY EngineTypes
<1>2. /\ handle[r].status \in Statuses /\ handle[r].pending \in Proposal
      /\ handle[r].status \in ACTIVE_STATUSES <=> pc[r] \in Live
  BY <1>1 DEF RunInv, Shown, Handles
<1>3. snapshot(r) \in Snapshots /\ snapshot(r).run = r
  BY <1>1, <1>2 DEF snapshot, Snapshots, Gates
<1>4. snapshot(r).status \in TERMINAL <=> handle[r].status \notin ACTIVE_STATUSES
  BY <1>2 DEF snapshot, TERMINAL, ACTIVE_STATUSES, Statuses
<1>5. pc[r] \in Ended <=> pc[r] \notin Live
  BY <1>1 DEF Ended, Live, Awaiting
<1> QED BY <1>2, <1>3, <1>4, <1>5

LEMMA BrowserTypeStep ==
    BrowserInv /\ [BrowserNext]_browserVars => BrowserTypeOK' /\ BlankInv'
<1> SUFFICES ASSUME BrowserInv, BrowserNext \/ UNCHANGED browserVars
             PROVE  BrowserTypeOK' /\ BlankInv'
  OBVIOUS
<1>a. EngineInv /\ BrowserTypeOK /\ BlankInv
  BY DEF BrowserInv
<1>b. replies \in Seq(Snapshots) /\ posts \subseteq PostSet /\ view \in Snapshots
  BY <1>a DEF BrowserTypeOK, PostSet
<1>c. ASSUME NEW s \in Snapshots
      PROVE  s.proposal.targets \subseteq Names /\ s.gate \in Gates
  BY DEF Snapshots, Proposal
<1>1. CASE EngineMoves \/ UNCHANGED browserVars
  <2>1. UNCHANGED <<page, network, taken>>
    BY <1>1 DEF EngineMoves, browserVars
  <2>2. /\ UNCHANGED <<runId, followed, timer, view, submitting, clicked, input, typed>>
        /\ UNCHANGED <<runBtn, starting, replies, posts, answers, faulty, misled, misdirected>>
    BY <2>1 DEF page, network, taken, latch, field, start
  <2> QED BY <1>a, <2>2 DEF BrowserTypeOK, BlankInv
<1>2. ASSUME NEW r \in Runs, startRun(r) \/ startPolling(r) \/ startFails(r)
      PROVE  BrowserTypeOK' /\ BlankInv'
  <2>1. NoSnapshot \in Snapshots
    BY DEF NoSnapshot, Snapshots, NoProposal, Proposal, Gates
  <2>2. CASE startRun(r)
    <3>1. faulty' \in BOOLEAN
      BY <1>a, <2>2 DEF startRun, BrowserTypeOK
    <3> QED BY <1>a, <2>1, <2>2, <3>1 DEF startRun, taken, latch, field, BrowserTypeOK, BlankInv
  <2>3. CASE startPolling(r)
    BY <1>a, <2>3, NoRunAssumption
       DEF startPolling, network, taken, latch, field, BrowserTypeOK, BlankInv
  <2>4. CASE startFails(r)
    BY <1>a, <2>4 DEF startFails, network, taken, latch, field, BrowserTypeOK, BlankInv
  <2> QED BY <1>2, <2>2, <2>3, <2>4
<1>3. CASE Poll
  <2>1. /\ runId \in RUNS /\ replies' = Append(replies, snapshot(runId)) /\ runId' = runId
        /\ UNCHANGED <<page, posts, answers, faulty, taken>>
    BY <1>3 DEF Poll, page
  <2>2. runId \in Runs /\ snapshot(runId) \in Snapshots
    BY <1>a, <2>1, SnapshotTells, EngineTypes
  <2>3. replies' \in Seq(Snapshots)
    BY <1>b, <2>1, <2>2
  <2> QED BY <1>a, <2>1, <2>2, <2>3, NoRunAssumption
          DEF page, start, taken, latch, field, BrowserTypeOK, BlankInv
<1>4. ASSUME NEW i \in DOMAIN replies, RenderReply(i) PROVE BrowserTypeOK' /\ BlankInv'
  <2> DEFINE s == replies[i]
  <2>1. /\ replies' = RemoveAt(replies, i) /\ render(s)
        /\ timer' = (timer /\ s.status \notin TERMINAL)
        /\ faulty' = (faulty \/ i # 1 \/ s.run # runId)
        /\ runBtn' = (runBtn \/ s.status \in TERMINAL)
        /\ UNCHANGED <<runId, followed, starting, posts, answers, taken>>
    BY <1>4 DEF RenderReply, Arrives
  <2>2. s \in Snapshots /\ replies' \in Seq(Snapshots) /\ runId # NoRun
    BY <1>a, <1>b, <2>1, Removal DEF BlankInv
  <2> HIDE DEF s
  <2>3. /\ view' \in Snapshots /\ input' \subseteq Names /\ typed' \subseteq Names
        /\ submitting' \in BOOLEAN /\ clicked' \in Gates
    <3>1. s.proposal.targets \subseteq Names
      BY <1>c, <2>2
    <3> QED BY <1>a, <2>1, <2>2, <3>1 DEF render, Latch, BrowserTypeOK, Gates
  <2> QED BY <1>a, <2>1, <2>2, <2>3 DEF taken, BrowserTypeOK, BlankInv
<1>5. CASE LoseReply
  <2>1. PICK i \in DOMAIN replies : replies' = RemoveAt(replies, i)
    BY <1>5 DEF LoseReply
  <2>2. replies' \in Seq(Snapshots) /\ runId # NoRun
    BY <1>a, <1>b, <2>1, Removal DEF BlankInv
  <2> QED BY <1>a, <1>5, <2>2
          DEF LoseReply, page, start, taken, latch, field, BrowserTypeOK, BlankInv
<1>6. ASSUME NEW T \in Edits, Edit(T) PROVE BrowserTypeOK' /\ BlankInv'
  BY <1>a, <1>6, EditsAssumption DEF Edit, network, start, taken, latch, BrowserTypeOK, BlankInv
<1>7. ASSUME NEW d \in {"approved", "modified", "rejected"}, decide(d)
      PROVE  BrowserTypeOK' /\ BlankInv'
  <2>1. /\ GateOpen(view) /\ submitting' = TRUE /\ clicked' = view.gate
        /\ \E T \in {{}, input} :
              posts' = posts \cup {[decision |-> d, targets |-> T, wanted |-> typed,
                                    run |-> runId, gate |-> view.gate,
                                    proposal |-> view.proposal]}
        /\ UNCHANGED <<runId, followed, timer, start, view, field, replies, answers, faulty, taken>>
    BY <1>7 DEF decide, Click, Post, Latch
  <2>2. runId \in Runs
    BY <1>a, <2>1 DEF BlankInv, GateOpen, NoSnapshot, BrowserTypeOK
  <2>3. view.gate \in Gates /\ view.proposal \in Proposal
    BY <1>a, <1>b, <1>c DEF BrowserTypeOK, Snapshots
  <2>4. posts' \subseteq PostSet
    <3>1. PICK T \in {{}, input} :
             posts' = posts \cup {[decision |-> d, targets |-> T, wanted |-> typed,
                                   run |-> runId, gate |-> view.gate,
                                   proposal |-> view.proposal]}
      BY <2>1
    <3>2. T \subseteq Names /\ typed \subseteq Names
      BY <1>a DEF BrowserTypeOK
    <3>3. [decision |-> d, targets |-> T, wanted |-> typed,
           run |-> runId, gate |-> view.gate,
           proposal |-> view.proposal] \in PostSet
      BY <2>2, <2>3, <3>2 DEF PostSet
    <3> QED BY <1>b, <3>1, <3>3
  <2> QED BY <1>a, <2>1, <2>2, <2>3, <2>4, NoRunAssumption
          DEF field, start, taken, BrowserTypeOK, BlankInv, PostSet
<1>8. ASSUME NEW p \in posts, DeliverPost(p) PROVE BrowserTypeOK' /\ BlankInv'
  <2>1. /\ posts' \subseteq posts /\ answers' \subseteq answers \cup {"ok", "error"}
        /\ UNCHANGED <<page, replies, faulty>>
    BY <1>8 DEF DeliverPost, Answered
  <2>2. misled' \in BOOLEAN /\ misdirected' \in BOOLEAN
    <3>1. CASE Take(p)
      BY <3>1 DEF Take
    <3>2. CASE UNCHANGED taken
      BY <1>a, <3>2 DEF taken, BrowserTypeOK
    <3> QED BY <1>8, <3>1, <3>2 DEF DeliverPost
  <2> QED BY <1>a, <2>1, <2>2 DEF page, start, latch, field, BrowserTypeOK, BlankInv
<1>9. CASE LosePost \/ LoseAnswer
  <2>1. /\ posts' \subseteq posts /\ answers' \subseteq answers \cup {"ok", "error"}
        /\ faulty' = TRUE /\ UNCHANGED <<page, replies, taken>>
    BY <1>9 DEF LosePost, LoseAnswer, Answered
  <2> QED BY <1>a, <2>1 DEF page, start, latch, field, taken, BrowserTypeOK, BlankInv
<1>10. CASE AnswerArrives
  BY <1>a, <1>10 DEF AnswerArrives, Latch, field, start, taken, BrowserTypeOK, BlankInv, Gates
<1> QED
  BY <1>1, <1>2, <1>3, <1>4, <1>5, <1>6, <1>7, <1>8, <1>9, <1>10 DEF BrowserNext

\* The process accepts nothing by itself, and forgets no admission.
LEMMA MovesAcceptNothing ==
    ASSUME EngineInv, EngineMoves
    PROVE  /\ accepted' = accepted
           /\ \A r \in Runs : post[r] = "accepted" => post'[r] = "accepted"
<1>a. post \in [Runs -> {"none", "scanning", "refused", "accepted"}]
  BY DEF EngineInv, EngineTypeOK
<1>1. ASSUME NEW r \in Runs, CheckCap(r) \/ UnknownConnection(r) \/ start_run(r)
      PROVE  accepted' = accepted /\ \A s \in Runs : post[s] = "accepted" => post'[s] = "accepted"
  BY <1>a, <1>1 DEF CheckCap, UnknownConnection, start_run
<1>2. ASSUME NEW r \in Runs, Drive(r) \/ safe_set_result(r) \/ Resume(r)
      PROVE  accepted' = accepted /\ post' = post
  BY <1>2 DEF Drive, safe_set_result, Resume
<1>3. CASE Stop \/ Start
  BY <1>3 DEF Stop, Start
<1> QED BY <1>1, <1>2, <1>3 DEF EngineMoves

\* Losing a snapshot, or rendering it, leaves others that were there.
LEMMA Remaining ==
    ASSUME BrowserTypeOK, NEW i \in DOMAIN replies, replies' = RemoveAt(replies, i),
           NEW j \in DOMAIN replies'
    PROVE  \E k \in DOMAIN replies : replies'[j] = replies[k]
<1>1. replies \in Seq(Snapshots)
  BY DEF BrowserTypeOK
<1>2. Place(i, j) \in DOMAIN replies /\ replies'[j] = replies[Place(i, j)]
  BY <1>1, Removal
<1> QED BY <1>2

LEMMA Polled ==
    ASSUME BrowserTypeOK, NEW s, replies' = Append(replies, s)
    PROVE  /\ Len(replies) \in Nat /\ DOMAIN replies = 1 .. Len(replies)
           /\ DOMAIN replies' = 1 .. Len(replies) + 1
           /\ replies'[Len(replies) + 1] = s
           /\ \A i \in DOMAIN replies : replies'[i] = replies[i]
BY DEF BrowserTypeOK

LEMMA FollowStep ==
    ASSUME BrowserInv, BrowserNext \/ UNCHANGED browserVars
    PROVE  FollowInv'
<1>a. /\ EngineInv /\ BrowserTypeOK /\ BlankInv /\ FollowInv /\ followed \subseteq Runs
      /\ posts \subseteq PostSet
  BY DEF BrowserInv, BrowserTypeOK, PostSet
\* Most actions bring in nothing new.
<1>1. ASSUME UNCHANGED <<runId, followed, accepted>>, posts' \subseteq posts,
             \A r \in Runs : post[r] = "accepted" => post'[r] = "accepted",
             \A j \in DOMAIN replies' : \E k \in DOMAIN replies : replies'[j] = replies[k]
      PROVE  FollowInv'
  BY <1>a, <1>1 DEF FollowInv
<1>2. CASE EngineMoves
  <2>1. UNCHANGED <<runId, followed, posts, replies>>
    BY <1>2 DEF EngineMoves, page, network
  <2> QED BY <1>1, <1>2, <1>a, <2>1, MovesAcceptNothing
<1>3. CASE UNCHANGED browserVars
  <2>1. UNCHANGED <<runId, followed, posts, replies, post, accepted>>
    BY <1>3 DEF browserVars, page, network, engineVars, engine
  <2> QED BY <1>1, <2>1
<1>4. ASSUME NEW r \in Runs, startRun(r) \/ startPolling(r) \/ startFails(r)
      PROVE  FollowInv'
  <2>1. /\ \/ UNCHANGED <<runId, followed>>
           \/ runId' = r /\ followed' = followed \cup {r} /\ post[r] = "accepted"
        /\ UNCHANGED <<post, accepted, replies, posts>>
    BY <1>4 DEF startRun, startPolling, startFails, engineVars, engine, network
  <2> QED BY <1>a, <2>1 DEF FollowInv
<1>5. CASE Poll
  <2>1. /\ runId \in RUNS /\ replies' = Append(replies, snapshot(runId))
        /\ UNCHANGED <<runId, followed, posts, post, accepted>>
    BY <1>5 DEF Poll, page, engineVars, engine
  <2>2. runId \in followed /\ snapshot(runId).run = runId
    BY <1>a, <2>1, NoRunAssumption, EngineTypes, SnapshotTells DEF FollowInv
  <2>3. \A j \in DOMAIN replies' : replies'[j].run \in followed
    <3> DEFINE s == snapshot(runId)
    <3> HIDE DEF s
    <3>1. \A j \in DOMAIN replies' : \/ j \in DOMAIN replies /\ replies'[j] = replies[j]
                                     \/ replies'[j] = s
      BY <1>a, <2>1, Polled DEF s
    <3> QED BY <1>a, <2>2, <3>1 DEF FollowInv, s
  <2> QED BY <1>a, <2>1, <2>3 DEF FollowInv
<1>6. ASSUME NEW i \in DOMAIN replies, RenderReply(i) PROVE FollowInv'
  <2>1. /\ replies' = RemoveAt(replies, i)
        /\ UNCHANGED <<runId, followed, posts, post, accepted>>
    BY <1>6 DEF RenderReply, Arrives, engineVars, engine
  <2> QED BY <1>1, <1>a, <2>1, Remaining
<1>7. CASE LoseReply
  <2>1. PICK i \in DOMAIN replies : replies' = RemoveAt(replies, i)
    BY <1>7 DEF LoseReply
  <2>2. UNCHANGED <<runId, followed, posts, post, accepted>>
    BY <1>7 DEF LoseReply, page, engineVars, engine
  <2> QED BY <1>1, <1>a, <2>1, <2>2, Remaining
<1>8. ASSUME NEW T \in Edits, Edit(T) PROVE FollowInv'
  <2>1. UNCHANGED <<runId, followed, posts, replies, post, accepted>>
    BY <1>8 DEF Edit, network, engineVars, engine
  <2> QED BY <1>1, <2>1
<1>9. ASSUME NEW d, decide(d) PROVE FollowInv'
  <2>1. /\ GateOpen(view) /\ UNCHANGED <<runId, followed, replies, post, accepted>>
        /\ \E T : posts' = posts \cup {[decision |-> d, targets |-> T, wanted |-> typed,
                                        run |-> runId, gate |-> view.gate,
                                        proposal |-> view.proposal]}
    BY <1>9 DEF decide, Click, Post, engineVars, engine
  <2>2. runId \in followed
    BY <1>a, <2>1 DEF BlankInv, FollowInv, GateOpen, NoSnapshot
  <2>3. \A p \in posts' : p.run \in followed
    BY <1>a, <2>1, <2>2 DEF FollowInv
  <2> QED BY <1>a, <2>1, <2>3 DEF FollowInv
<1>10. ASSUME NEW p \in posts, DeliverPost(p) PROVE FollowInv'
  <2>1. /\ posts' \subseteq posts /\ UNCHANGED <<runId, followed, replies>>
    BY <1>10 DEF DeliverPost, Answered, page
  <2>2. CASE UNCHANGED engineVars
    BY <1>1, <2>1, <2>2 DEF engineVars, engine
  <2>3. CASE submit_decision(p.run, [decision |-> p.decision, targets |-> p.targets])
    <3>1. /\ post' = post /\ p.run \in followed
          /\ \A r \in Runs \ {p.run} : accepted'[r] = accepted[r]
      BY <1>a, <2>3, EngineTypes DEF submit_decision, FollowInv
    <3> QED BY <1>a, <2>1, <3>1 DEF FollowInv
  <2> QED BY <1>10, <2>2, <2>3 DEF DeliverPost
<1>11. CASE LosePost \/ LoseAnswer \/ AnswerArrives
  <2>1. /\ posts' \subseteq posts /\ UNCHANGED <<runId, followed, replies, post, accepted>>
    BY <1>11 DEF LosePost, LoseAnswer, AnswerArrives, Answered, page, engineVars, engine
  <2> QED BY <1>1, <2>1
<1> QED
  BY <1>2, <1>3, <1>4, <1>5, <1>6, <1>7, <1>8, <1>9, <1>10, <1>11 DEF BrowserNext

\* A click that starts a run, and a start that fails, touch neither what is polled nor
\* what is on its way, and heal no fault.
LEMMA StartLeaves ==
    ASSUME NEW r, startRun(r) \/ startFails(r)
    PROVE  /\ faulty => faulty'
           /\ UNCHANGED <<runId, followed, timer, replies, posts, answers, latch>>
           /\ view' = view \/ view' = NoSnapshot
<1>1. CASE startRun(r)
  <2>1. faulty' = (faulty \/ timer \/ starting # {})
    BY <1>1 DEF startRun
  <2>2. faulty => faulty'
    BY <2>1
  <2> QED BY <1>1, <2>2 DEF startRun
<1>2. CASE startFails(r)
  <2>1. UNCHANGED <<faulty, replies, posts, answers>>
    BY <1>2 DEF startFails, network
  <2> QED BY <1>2, <2>1 DEF startFails
<1> QED BY <1>1, <1>2

LEMMA EndStep ==
    ASSUME BrowserInv, BrowserNext \/ UNCHANGED browserVars,
           \A r \in Runs : pc[r] \in Ended => pc'[r] \in Ended
    PROVE  EndInv'
<1>a. /\ EngineInv /\ BrowserTypeOK /\ BlankInv /\ FollowInv /\ EndInv
      /\ runId \in Runs \cup {NoRun} /\ faulty \in BOOLEAN
      /\ \A i \in DOMAIN replies : replies[i].run \in Runs
  BY DEF BrowserInv, BrowserTypeOK, FollowInv
\* Nothing new under way, and the page goes on as it did, or not as far.
<1>1. ASSUME UNCHANGED <<runId, followed>>, faulty => faulty', timer' = timer,
             \A j \in DOMAIN replies' : \E k \in DOMAIN replies : replies'[j] = replies[k]
      PROVE  EndInv'
  BY <1>a, <1>1 DEF EndInv, PollsWhileLive, SeesItsRun
<1>2. CASE EngineMoves \/ UNCHANGED browserVars
  <2>1. UNCHANGED <<runId, followed, faulty, timer, replies>>
    BY <1>2 DEF EngineMoves, browserVars, page, network
  <2> QED BY <1>1, <2>1
<1>3. ASSUME NEW r \in Runs, startRun(r) \/ startPolling(r) \/ startFails(r)
      PROVE  EndInv'
  <2>1. CASE startPolling(r)
    <3>1. timer' = TRUE /\ replies' = replies
      BY <2>1 DEF startPolling, network
    <3> QED BY <1>a, <3>1 DEF EndInv, PollsWhileLive
  <2>2. CASE startRun(r) \/ startFails(r)
    <3>1. (faulty => faulty') /\ UNCHANGED <<runId, followed, timer, replies>>
      BY <2>2, StartLeaves
    <3> QED BY <1>1, <3>1
  <2> QED BY <1>3, <2>1, <2>2
<1>4. CASE Poll
  <2>1. /\ runId \in RUNS /\ replies' = Append(replies, snapshot(runId))
        /\ UNCHANGED <<runId, followed, timer, faulty, pc>>
    BY <1>4 DEF Poll, page, engineVars, vars
  <2>2. /\ snapshot(runId).status \in TERMINAL => pc[runId] \in Ended
        /\ snapshot(runId).run = runId
    BY <1>a, <2>1, SnapshotTells
  <2> DEFINE s == snapshot(runId)
  <2> HIDE DEF s
  <2>3. \A i \in DOMAIN replies' : \/ i \in DOMAIN replies /\ replies'[i] = replies[i]
                                   \/ replies'[i] = s
    BY <1>a, <2>1, Polled DEF s
  <2> QED BY <1>a, <2>1, <2>2, <2>3 DEF EndInv, PollsWhileLive, SeesItsRun, s
<1>5. ASSUME NEW i \in DOMAIN replies, RenderReply(i) PROVE EndInv'
  <2>1. /\ replies' = RemoveAt(replies, i)
        /\ timer' = (timer /\ replies[i].status \notin TERMINAL)
        /\ faulty' = (faulty \/ i # 1 \/ replies[i].run # runId)
        /\ UNCHANGED <<runId, followed, pc>>
    BY <1>5 DEF RenderReply, Arrives, engineVars, vars
  <2>2. \A j \in DOMAIN replies' : \E k \in DOMAIN replies : replies'[j] = replies[k]
    BY <1>a, <2>1, Remaining
  <2>3. SeesItsRun' => SeesItsRun /\ replies[i].run = runId
    BY <1>a, <2>1 DEF SeesItsRun, FollowInv
  <2> QED BY <1>a, <2>1, <2>2, <2>3 DEF EndInv, PollsWhileLive
<1>6. CASE LoseReply
  <2>1. PICK i \in DOMAIN replies : replies' = RemoveAt(replies, i)
    BY <1>6 DEF LoseReply
  <2>2. UNCHANGED <<runId, followed, timer, faulty>>
    BY <1>6 DEF LoseReply, page
  <2> QED BY <1>1, <1>a, <2>1, <2>2, Remaining
<1>7. ASSUME NEW p \in posts, DeliverPost(p) PROVE EndInv'
  <2>1. UNCHANGED <<runId, followed, timer, faulty, replies>>
    BY <1>7 DEF DeliverPost, Answered, page
  <2> QED BY <1>1, <2>1
<1>8. CASE LosePost \/ LoseAnswer \/ AnswerArrives
  <2>1. (faulty => faulty') /\ UNCHANGED <<runId, followed, timer, replies>>
    BY <1>8 DEF LosePost, LoseAnswer, AnswerArrives, Answered, page
  <2> QED BY <1>1, <2>1
<1>9. ASSUME NEW T \in Edits, Edit(T) PROVE EndInv'
  BY <1>1, <1>9 DEF Edit, network
<1>10. ASSUME NEW d, decide(d) PROVE EndInv'
  BY <1>1, <1>10 DEF decide, Click
<1> QED
  BY <1>2, <1>3, <1>4, <1>5, <1>6, <1>7, <1>8, <1>9, <1>10 DEF BrowserNext

LEMMA StartsStep ==
    ASSUME BrowserInv, BrowserNext \/ UNCHANGED browserVars
    PROVE  StartInv'
<1>a. StartInv /\ \A r \in followed : post[r] = "accepted"
  BY DEF BrowserInv, FollowInv
<1>1. ASSUME NEW r \in Runs, startRun(r) PROVE StartInv'
  <2>1. r \notin followed /\ starting' = starting \cup {r} /\ followed' = followed
    BY <1>a, <1>1 DEF startRun
  <2> QED BY <1>a, <2>1 DEF StartInv
<1>2. ASSUME NEW r \in Runs, startPolling(r) PROVE StartInv'
  BY <1>a, <1>2 DEF startPolling, StartInv
<1>3. ASSUME starting' \subseteq starting, followed' = followed PROVE StartInv'
  BY <1>a, <1>3 DEF StartInv
<1>4. ASSUME NEW r \in Runs, startFails(r) PROVE StartInv'
  BY <1>3, <1>4 DEF startFails
<1>5. CASE EngineMoves \/ UNCHANGED browserVars \/ Poll \/ LoseReply \/ LosePost \/ LoseAnswer
  BY <1>3, <1>5 DEF EngineMoves, browserVars, Poll, LoseReply, LosePost, LoseAnswer, Answered,
     page, start
<1>6. CASE AnswerArrives
  BY <1>3, <1>6 DEF AnswerArrives, start
<1>7. ASSUME NEW i \in DOMAIN replies, RenderReply(i) PROVE StartInv'
  BY <1>3, <1>7 DEF RenderReply, Arrives
<1>8. ASSUME NEW T \in Edits, Edit(T) PROVE StartInv'
  BY <1>3, <1>8 DEF Edit, start
<1>9. ASSUME NEW d, decide(d) PROVE StartInv'
  BY <1>3, <1>9 DEF decide, Click, start
<1>10. ASSUME NEW p \in posts, DeliverPost(p) PROVE StartInv'
  BY <1>3, <1>10 DEF DeliverPost, Answered, page, start
<1> QED
  BY <1>1, <1>2, <1>4, <1>5, <1>6, <1>7, <1>8, <1>9, <1>10 DEF BrowserNext

LEMMA BrowserStart == BrowserInit => BrowserInv
<1> SUFFICES ASSUME BrowserInit PROVE BrowserInv
  OBVIOUS
<1>1. EngineInv
  BY EngineStart DEF BrowserInit
<1>2. NoSnapshot \in Snapshots
  BY DEF NoSnapshot, Snapshots, NoProposal, Proposal, Gates
<1>3. /\ runId = NoRun /\ followed = {} /\ timer = FALSE /\ view = NoSnapshot
      /\ submitting = FALSE /\ clicked = 0 /\ input = {} /\ typed = {} /\ replies = << >>
      /\ posts = {} /\ answers = {} /\ misled = FALSE /\ misdirected = FALSE
      /\ faulty = FALSE /\ runBtn = TRUE /\ starting = {}
  BY DEF BrowserInit
<1>4. BrowserTypeOK
  <2>1. replies \in Seq(Snapshots) /\ view \in Snapshots /\ clicked \in Gates
    BY <1>2, <1>3 DEF Gates
  <2>2. /\ timer \in BOOLEAN /\ submitting \in BOOLEAN /\ misled \in BOOLEAN
        /\ misdirected \in BOOLEAN /\ faulty \in BOOLEAN /\ runBtn \in BOOLEAN
    BY <1>3
  <2>3. /\ runId \in Runs \cup {NoRun} /\ followed \subseteq Runs /\ starting \subseteq Runs
        /\ input \subseteq Names /\ typed \subseteq Names
        /\ posts \subseteq PostSet /\ answers \subseteq {"ok", "error"}
    BY <1>3
  <2> QED BY <2>1, <2>2, <2>3 DEF BrowserTypeOK, PostSet
<1>5. BlankInv /\ FollowInv /\ StartInv /\ EndInv
  <2>1. accepted = [r \in Runs |-> NothingAccepted]
    BY DEF BrowserInit, EngineInit
  <2> QED BY <1>3, <2>1
          DEF BlankInv, FollowInv, StartInv, EndInv, PollsWhileLive, SeesItsRun, NothingAccepted
<1>6. RoundInv
  BY DEF BrowserInit, EngineInit, Init, RoundInv
<1> QED BY <1>1, <1>4, <1>5, <1>6 DEF BrowserInv

LEMMA BrowserStep == BrowserInv /\ [BrowserNext]_browserVars => BrowserInv'
<1> SUFFICES ASSUME BrowserInv, [BrowserNext]_browserVars PROVE BrowserInv'
  OBVIOUS
<1>1. [EngineNext]_engineVars
  BY BrowserStepIsEngineStep DEF BrowserInv
<1>2. EngineInv'
  BY <1>1, EngineStep DEF BrowserInv
<1>3. \A r \in Runs : pc[r] \in Ended => pc'[r] \in Ended
  BY <1>1, EngineStepIsLoopStep, EndedStays DEF BrowserInv, EngineInv, LoopInv
<1>4. EndInv'
  BY <1>3, EndStep
<1>5. RoundInv'
  BY <1>1, <1>2, GoingOn, RoundStep DEF BrowserInv
<1> QED BY <1>2, <1>4, <1>5, BrowserTypeStep, FollowStep, StartsStep DEF BrowserInv

LEMMA BrowserInvariant == BrowserSpec => []BrowserInv
BY BrowserStart, BrowserStep, PTL DEF BrowserSpec

-----------------------------------------------------------------------------
(* Where a decision goes, as long as there is no fault.                    *)

\* The snapshots under way that are of the run the page follows.
Own == {i \in DOMAIN replies : replies[i].run = runId}
AllOpen == \A i \in Own : GateOpen(replies[i])

\* The page can still hear of its run.
Known == runId \in RUNS \/ \E i \in Own : replies[i].status \in TERMINAL

\* Behind a snapshot of the end there are only others, and nothing is waited for.
EndsLast ==
    \A i \in Own : replies[i].status \in TERMINAL =>
        /\ posts = {} /\ "error" \notin answers
        /\ \A j \in Own : i < j => replies[j].status \in TERMINAL

\* A page that polls no more has nothing open, and leaves nothing behind.
AtRest ==
    ~ timer =>
        /\ ~ submitting /\ posts = {} /\ "error" \notin answers /\ ~ GateOpen(view)
        /\ \A i \in Own : replies[i].status \in TERMINAL

\* An unanswered gate on the page is the one the run is parked at, and everything
\* behind it shows a gate too. A settled one has the buttons disabled.
ViewTells ==
    /\ Unanswered(view) => AtGate(view) /\ AllOpen
    /\ Settled(view) => submitting

\* The same of the snapshots on their way to the page. What comes before a settled
\* gate releases no latch.
RepliesTell ==
    \A i \in Own :
        /\ Unanswered(replies[i]) =>
              AtGate(replies[i]) /\ \A j \in Own : i < j => GateOpen(replies[j])
        /\ Settled(replies[i]) =>
              submitting /\ \A j \in Own : j < i => GateOpen(replies[j])

\* There is one decision under way, for the gate the run is parked at.
PostsTell ==
    /\ posts # {} => submitting /\ AllOpen
    /\ \A p \in posts : AtGate(p)
    /\ \A p, q \in posts : p = q

\* What the next poll will find settled finds the buttons disabled.
ServerTells ==
    runId \in RUNS /\ Settled(snapshot(runId)) => submitting /\ AllOpen

\* A gate on the page is of the run the page follows.
ShowsItsRun == GateOpen(view) => view.run = runId

\* One run is started at a time, and none while another is polled.
StartsAlone ==
    /\ starting # {} => ~ timer
    /\ \A r, q \in starting : r = q

Tells == ViewTells /\ RepliesTell /\ PostsTell /\ ServerTells /\ "error" \notin answers

OrderInv ==
    ~ faulty =>
        /\ ~ misdirected
        /\ \A p \in posts : p.run = runId
        /\ ShowsItsRun
        /\ StartsAlone
        /\ AtRest
        /\ EndsLast
        /\ Known => Tells

\* The snapshots that are left are in the order they were in.
Thinned ==
    \E f \in [DOMAIN replies' -> DOMAIN replies] :
        /\ \A i \in DOMAIN replies' : replies'[i] = replies[f[i]]
        /\ \A i, j \in DOMAIN replies' : i < j => f[i] < f[j]

LEMMA RemovalThins ==
    ASSUME BrowserTypeOK, NEW i \in DOMAIN replies, replies' = RemoveAt(replies, i)
    PROVE  Thinned
<1> DEFINE f == [j \in DOMAIN replies' |-> Place(i, j)]
<1>1. replies \in Seq(Snapshots) /\ i \in Nat
  BY DEF BrowserTypeOK
<1>2. \A j \in DOMAIN replies' : /\ j \in Nat \ {0} /\ Place(i, j) \in DOMAIN replies
                                 /\ replies'[j] = replies[Place(i, j)]
  BY <1>1, Removal
<1>3. \A j, k \in DOMAIN replies' : j < k => Place(i, j) < Place(i, k)
  BY <1>1, <1>2 DEF Place
<1>4. f \in [DOMAIN replies' -> DOMAIN replies]
  BY <1>2
<1> QED BY <1>2, <1>3, <1>4 DEF Thinned

LEMMA SameThins == ASSUME BrowserTypeOK, replies' = replies PROVE Thinned
<1> DEFINE f == [j \in DOMAIN replies' |-> j]
<1>1. f \in [DOMAIN replies' -> DOMAIN replies]
  OBVIOUS
<1> QED BY <1>1 DEF Thinned

\* A run whose end is under way is not parked at a gate.
LEMMA EndedIsNotAtGate ==
    ASSUME EndInv, NEW i \in Own, replies[i].status \in TERMINAL, NEW x, x.run = runId
    PROVE  ~ AtGate(x)
BY DEF EndInv, Own, AtGate, Ended

\* A gate with nothing accepted takes a decision.
LEMMA AtGateIsPending ==
    ASSUME EngineInv, NEW x, AtGate(x)
    PROVE  LET h == handle[x.run]
           IN  /\ h.future.state = "pending" /\ ~ h.decision_submitted
               /\ h.future.gate = x.gate
<1> DEFINE r == x.run
           h == handle[r]
<1>1. /\ r \in Runs /\ r \in RUNS /\ pc[r] = "gate" /\ attempt[r] = x.gate
      /\ accepted[r][attempt[r]] = << >> /\ AcceptedOnce(r) /\ Bridged(r)
  BY EngineTypes DEF AtGate, RunInv
<1>2. /\ h.future.gate = attempt[r] /\ h.future.state \in {"pending", "done"}
      /\ h.future.state = "pending" /\ h.decision_submitted =>
            \E cb \in ready[r] : cb.gate = attempt[r]
      /\ h.future.state = "done" => accepted[r][attempt[r]] = <<h.future.result>>
  BY <1>1 DEF Bridged
<1>3. \A cb \in ready[r] : cb.gate # attempt[r]
  <2>1. ASSUME NEW cb \in ready[r], cb.gate = attempt[r] PROVE FALSE
    BY <1>1, <2>1 DEF AcceptedOnce
  <2> QED BY <2>1
<1>4. h.future.state # "done"
  <2>1. << >> # <<h.future.result>>
    OBVIOUS
  <2> QED BY <1>1, <1>2, <2>1
<1> QED BY <1>1, <1>2, <1>3, <1>4

\* The page stays as it is, snapshots may get lost, and the process goes on.
LEMMA OrderKept ==
    ASSUME BrowserInv, OrderInv, Thinned, accepted' = accepted, starting' \subseteq starting,
           UNCHANGED <<runId, view, submitting, timer, posts, answers, misdirected, faulty>>,
           runId \in RUNS' => runId \in RUNS,
           \A x : AtGate(x) /\ x.run = runId /\ runId \in RUNS' => AtGate(x)',
           runId \in RUNS' /\ Settled(snapshot(runId))' => Settled(snapshot(runId))
    PROVE  OrderInv'
<1> SUFFICES ASSUME ~ faulty' PROVE /\ ~ misdirected'
                                    /\ \A p \in posts' : p.run = runId'
                                    /\ ShowsItsRun' /\ StartsAlone'
                                    /\ AtRest' /\ EndsLast' /\ (Known' => Tells')
  BY DEF OrderInv
<1>a. /\ ~ misdirected /\ (\A p \in posts : p.run = runId)
      /\ ShowsItsRun /\ StartsAlone
      /\ AtRest /\ EndsLast /\ (Known => Tells) /\ EndInv
  BY DEF OrderInv, BrowserInv
<1>1. PICK f \in [DOMAIN replies' -> DOMAIN replies] :
         /\ \A i \in DOMAIN replies' : replies'[i] = replies[f[i]]
         /\ \A i, j \in DOMAIN replies' : i < j => f[i] < f[j]
  BY DEF Thinned
<1>2. \A i \in Own' : /\ i \in DOMAIN replies' /\ f[i] \in Own
                      /\ replies'[i] = replies[f[i]]
  BY <1>1 DEF Own
<1>3. AtRest' /\ EndsLast' /\ ShowsItsRun' /\ StartsAlone'
  BY <1>a, <1>1, <1>2 DEF AtRest, EndsLast, ShowsItsRun, StartsAlone
<1>4. ASSUME Known' PROVE Tells'
  <2>1. Known /\ Tells
    BY <1>a, <1>2, <1>4 DEF Known
  <2>2. \A s : (Unanswered(s)' <=> Unanswered(s)) /\ (Settled(s)' <=> Settled(s))
    BY DEF Unanswered, Settled
  <2>3. ASSUME NEW x, AtGate(x), x.run = runId PROVE AtGate(x)'
    <3>1. CASE runId \in RUNS'
      BY <2>3, <3>1
    <3>2. CASE runId \notin RUNS'
      <4>1. PICK i \in Own' : replies'[i].status \in TERMINAL
        BY <1>4, <3>2 DEF Known
      <4>2. f[i] \in Own /\ replies[f[i]].status \in TERMINAL
        BY <1>2, <4>1
      <4> QED BY <1>a, <2>3, <4>2, EndedIsNotAtGate
    <3> QED BY <3>1, <3>2
  <2>4. AllOpen => AllOpen'
    BY <1>2 DEF AllOpen
  <2>5. ViewTells'
    <3>1. Unanswered(view) => view.run = runId
      BY <1>a DEF Unanswered, ShowsItsRun
    <3>2. Unanswered(view) => AtGate(view)'
      BY <2>1, <2>3, <3>1 DEF Tells, ViewTells
    <3>3. view' = view
      OBVIOUS
    <3>4. (Unanswered(view))' => Unanswered(view)
      BY <2>2, <3>3 DEF Unanswered
    <3>5. (Settled(view))' => Settled(view)
      BY <2>2, <3>3 DEF Settled
    <3> QED BY <2>1, <2>4, <3>2, <3>3, <3>4, <3>5 DEF Tells, ViewTells
  <2>6. RepliesTell'
    <3>1. ASSUME NEW i \in Own'
          PROVE  LET k == f[i]
                 IN  /\ (Unanswered(replies[i]))' => Unanswered(replies[k])
                     /\ (Settled(replies[i]))' => Settled(replies[k])
                     /\ AtGate(replies[k]) => (AtGate(replies[i]))'
                     /\ k \in Own
      <4> DEFINE k == f[i]
      <4>1. k \in Own /\ replies'[i] = replies[k] /\ replies[k].run = runId
        BY <1>2 DEF Own
      <4> HIDE DEF k
      <4>2. PICK x : x = replies[k]
        OBVIOUS
      <4>3. x.run = runId /\ replies'[i] = x
        BY <4>1, <4>2
      <4>4. AtGate(x) => AtGate(x)'
        BY <2>3, <4>3
      <4>5. AtGate(replies[k]) => (AtGate(replies[i]))'
        BY <4>2, <4>3, <4>4 DEF AtGate
      <4>6. /\ (Unanswered(replies[i]))' => Unanswered(replies[k])
            /\ (Settled(replies[i]))' => Settled(replies[k])
        BY <4>1 DEF Unanswered, Settled
      <4> QED BY <4>1, <4>5, <4>6 DEF k
    <3>2. \A i, j \in Own' : i < j => f[i] < f[j] /\ replies'[j] = replies[f[j]]
      BY <1>1, <1>2
    <3> QED BY <1>2, <2>1, <3>1, <3>2 DEF Tells, RepliesTell
  <2>7. PostsTell'
    <3>1. \A p \in posts : AtGate(p)'
      BY <1>a, <2>1, <2>3 DEF Tells, PostsTell
    <3> QED BY <2>1, <2>4, <3>1 DEF Tells, PostsTell
  <2>8. ServerTells'
    BY <2>1, <2>4 DEF Tells, ServerTells
  <2> QED BY <2>1, <2>5, <2>6, <2>7, <2>8 DEF Tells
<1> QED BY <1>a, <1>3, <1>4

\* A step of the process that takes no decision.
LEMMA OrderMoves ==
    ASSUME BrowserInv, BrowserInv', OrderInv, EngineMoves
    PROVE  OrderInv'
<1>a. /\ EngineInv /\ EngineInv' /\ RoundInv /\ RoundInv' /\ BrowserTypeOK
      /\ BlankInv /\ FollowInv
  BY DEF BrowserInv
<1>1. /\ UNCHANGED <<runId, view, submitting, timer, posts, answers, misdirected, faulty>>
      /\ replies' = replies /\ starting' = starting
  BY DEF EngineMoves, page, network, taken, latch, start
<1>2. accepted' = accepted /\ EngineNext
  BY <1>a, MovesAcceptNothing DEF EngineMoves, EngineNext
<1>3. Thinned
  BY <1>1, <1>a, SameThins
<1>4. ASSUME runId \in RUNS' PROVE runId \in Runs /\ post[runId] = "accepted"
  <2>1. runId \in Runs
    <3>1. RUNS' \subseteq Runs
      BY <1>a DEF EngineInv, EngineTypeOK
    <3> QED BY <1>4, <3>1
  <2>2. runId \in followed
    BY <1>a, <2>1, NoRunAssumption DEF FollowInv
  <2> QED BY <1>a, <2>1, <2>2 DEF FollowInv
<1>5. runId \in RUNS' => runId \in RUNS
  <2>1. ASSUME NEW r \in Runs, post[r] = "accepted", r \in RUNS' PROVE r \in RUNS
    <3>1. CASE Drive(r) \/ Resume(r)
      BY <3>1 DEF Drive, Resume
    <3>2. CASE Stop
      BY <2>1, <3>2 DEF Stop, EmptyMemory
    <3> QED BY <1>2, <1>a, <2>1, <3>1, <3>2, RunMoves
  <2> QED BY <1>4, <2>1
<1>6. \A x : AtGate(x) /\ x.run = runId /\ runId \in RUNS' => AtGate(x)'
  BY <1>2, <1>a, AtGateStays
<1>7. runId \in RUNS' /\ Settled(snapshot(runId))' => Settled(snapshot(runId))
  <2>1. ASSUME NEW r \in Runs, post[r] = "accepted", r \in RUNS', Settled(snapshot(r))'
        PROVE  Settled(snapshot(r))
    BY <1>2, <1>a, <2>1, SettledWasShown
  <2> DEFINE r == runId
  <2>2. PICK c : c = runId
    OBVIOUS
  <2>3. c \in RUNS' /\ Settled(snapshot(c))' => Settled(snapshot(c))
    BY <1>4, <2>1, <2>2
  <2>4. Settled(snapshot(runId))' => Settled(snapshot(c))'
    BY <1>1, <2>2 DEF snapshot, Settled
  <2> QED BY <2>2, <2>3, <2>4
<1> QED BY <1>1, <1>2, <1>3, <1>5, <1>6, <1>7, OrderKept

\* A step that leaves the process and the page alone, and at most loses a snapshot.
LEMMA OrderIdle ==
    ASSUME BrowserInv, OrderInv, Thinned, UNCHANGED engineVars, starting' \subseteq starting,
           UNCHANGED <<runId, view, submitting, timer, posts, answers, misdirected, faulty>>
    PROVE  OrderInv'
<1>1. UNCHANGED <<RUNS, pc, attempt, accepted, handle, proposal>>
  BY DEF engineVars, engine, vars
<1>2. \A x : AtGate(x) => AtGate(x)'
  BY <1>1 DEF AtGate
<1>3. Settled(snapshot(runId))' => Settled(snapshot(runId))
  BY <1>1 DEF Settled, snapshot
<1> QED BY <1>1, <1>2, <1>3, OrderKept

\* A run is started with the page at rest: nothing is open any more.
LEMMA OrderStartRun ==
    ASSUME BrowserInv, OrderInv, NEW r \in Runs, startRun(r)
    PROVE  OrderInv'
<1> SUFFICES ASSUME ~ faulty' PROVE /\ ~ misdirected'
                                    /\ \A p \in posts' : p.run = runId'
                                    /\ ShowsItsRun' /\ StartsAlone'
                                    /\ AtRest' /\ EndsLast' /\ (Known' => Tells')
  BY DEF OrderInv
<1>1. /\ ~ faulty /\ ~ timer /\ starting = {}
      /\ starting' = starting \cup {r} /\ view' = NoSnapshot
      /\ UNCHANGED <<runId, timer, submitting, replies, posts, answers, misdirected>>
      /\ UNCHANGED <<RUNS, pc, attempt, accepted, handle, proposal>>
  BY DEF startRun, latch, taken, engineVars, engine, vars
<1>2. /\ ~ submitting /\ posts = {} /\ "error" \notin answers /\ ~ misdirected
      /\ \A i \in Own : replies[i].status \in TERMINAL
      /\ EndsLast /\ (Known => Tells)
  BY <1>1 DEF OrderInv, AtRest
<1>3. Own' = Own /\ (Known' <=> Known)
  BY <1>1 DEF Own, Known
<1>4. ~ GateOpen(NoSnapshot) /\ \A i \in Own : ~ GateOpen(replies[i])
  BY <1>2 DEF GateOpen, NoSnapshot, TERMINAL
<1>5. ShowsItsRun' /\ StartsAlone'
  BY <1>1, <1>4 DEF ShowsItsRun, StartsAlone
<1>6. AtRest' /\ EndsLast'
  BY <1>1, <1>2, <1>3, <1>4 DEF AtRest, EndsLast
<1>7. ASSUME Known PROVE Tells'
  <2>1. ViewTells'
    BY <1>1, <1>4 DEF ViewTells, Unanswered, Settled
  <2>2. RepliesTell'
    BY <1>1, <1>3, <1>4 DEF RepliesTell, Unanswered, Settled
  <2>3. PostsTell'
    BY <1>1, <1>2 DEF PostsTell
  <2>4. ServerTells'
    <3>1. (Settled(snapshot(runId)))' <=> Settled(snapshot(runId))
      BY <1>1 DEF Settled, snapshot
    <3>2. ~ (runId \in RUNS /\ Settled(snapshot(runId)))
      BY <1>2, <1>7 DEF Tells, ServerTells
    <3> QED BY <1>1, <3>1, <3>2 DEF ServerTells
  <2> QED BY <1>1, <1>2, <2>1, <2>2, <2>3, <2>4 DEF Tells
<1> QED BY <1>1, <1>2, <1>3, <1>5, <1>6, <1>7

\* And the run that is followed from then on has shown nothing yet.
LEMMA OrderStartPolling ==
    ASSUME BrowserInv, OrderInv, NEW r \in Runs, startPolling(r)
    PROVE  OrderInv'
<1> SUFFICES ASSUME ~ faulty' PROVE /\ ~ misdirected'
                                    /\ \A p \in posts' : p.run = runId'
                                    /\ ShowsItsRun' /\ StartsAlone'
                                    /\ AtRest' /\ EndsLast' /\ (Known' => Tells')
  BY DEF OrderInv
<1>1. /\ r \in starting /\ starting' = starting \ {r} /\ runId' = r /\ timer' = TRUE
      /\ UNCHANGED <<view, submitting, replies, posts, answers, misdirected, faulty>>
      /\ UNCHANGED <<RUNS, pc, attempt, accepted, handle, proposal>>
  BY DEF startPolling, latch, network, taken, engineVars, engine, vars
<1>2. /\ ~ submitting /\ posts = {} /\ "error" \notin answers /\ ~ misdirected
      /\ starting' = {} /\ ~ GateOpen(view)
  BY <1>1 DEF OrderInv, AtRest, StartsAlone
<1>b. r \notin followed
  BY <1>1 DEF BrowserInv, StartInv
<1>3. Own' = {}
  BY <1>1, <1>b DEF Own, BrowserInv, FollowInv
<1>4. ~ (Settled(snapshot(runId)))'
  <2>1. \A g \in Gates : accepted[r][g] = << >>
    BY <1>b DEF BrowserInv, FollowInv
  <2>2. (snapshot(r)).gate \in Gates /\ attempt[r] \in Gates
    BY EngineTypes DEF snapshot, Gates, BrowserInv
  <2>3. ~ Settled(snapshot(r))
    BY <2>1, <2>2 DEF Settled, snapshot
  <2> QED BY <1>1, <2>3 DEF Settled, snapshot
<1>5. ShowsItsRun' /\ StartsAlone'
  BY <1>1, <1>2 DEF ShowsItsRun, StartsAlone, GateOpen
<1>6. AtRest' /\ EndsLast'
  BY <1>1, <1>3 DEF AtRest, EndsLast
<1>7. ViewTells' /\ RepliesTell' /\ PostsTell' /\ ServerTells'
  BY <1>1, <1>2, <1>3, <1>4
     DEF ViewTells, RepliesTell, PostsTell, ServerTells, Unanswered, Settled
<1> QED BY <1>1, <1>2, <1>5, <1>6, <1>7 DEF Tells

LEMMA OrderPoll ==
    ASSUME BrowserInv, OrderInv, Poll
    PROVE  OrderInv'
<1> SUFFICES ASSUME ~ faulty' PROVE /\ ~ misdirected'
                                    /\ \A p \in posts' : p.run = runId'
                                    /\ ShowsItsRun' /\ StartsAlone'
                                    /\ AtRest' /\ EndsLast' /\ (Known' => Tells')
  BY DEF OrderInv
<1> DEFINE s == snapshot(runId)
<1>1. /\ timer /\ runId \in RUNS /\ replies' = Append(replies, s)
      /\ UNCHANGED <<runId, view, submitting, timer, posts, answers, misdirected, faulty>>
      /\ UNCHANGED <<starting, RUNS, pc, attempt, accepted, handle, proposal>>
  BY DEF Poll, page, start, latch, taken, engineVars, engine, vars
<1>2. EngineInv /\ RoundInv /\ EndInv /\ BrowserTypeOK
  BY DEF BrowserInv
<1>3. /\ s.run = runId /\ (s.status \in TERMINAL <=> pc[runId] \in Ended)
  BY <1>1, <1>2, SnapshotTells
<1>4. /\ ~ misdirected /\ (\A p \in posts : p.run = runId)
      /\ ShowsItsRun /\ StartsAlone
      /\ AtRest /\ EndsLast /\ Known /\ Tells
  BY <1>1 DEF OrderInv, Known
<1>5. Unanswered(s) => AtGate(s)
  BY <1>1, <1>2, UnansweredIsAtGate
<1>6. ASSUME NEW x, AtGate(x), x.run = runId PROVE GateOpen(s) /\ pc[runId] \notin Ended
  BY <1>2, <1>6, AtGateIsShown DEF AtGate, Ended
<1>7. (snapshot(runId))' = s
  BY <1>1 DEF snapshot
<1> HIDE DEF s
<1>8. PICK n :
      /\ n \in DOMAIN replies' /\ replies'[n] = s
      /\ \A i \in DOMAIN replies : i \in DOMAIN replies' /\ replies'[i] = replies[i]
      /\ \A i \in DOMAIN replies' : i \in DOMAIN replies \/ i = n
      /\ \A i \in DOMAIN replies : i < n
      /\ ~ n < n
      /\ \A i \in DOMAIN replies : ~ n < i
  <2>1. PICK n : n = Len(replies) + 1
    OBVIOUS
  <2> QED BY <1>1, <1>2, <2>1, Polled
<1>9. /\ \A i \in Own' : i = n \/ i \in Own
      /\ \A i \in Own : i \in Own' /\ i \in DOMAIN replies /\ replies'[i] = replies[i]
      /\ n \in Own'
  BY <1>1, <1>3, <1>8 DEF Own
<1>10. ASSUME NEW i \in Own PROVE replies[i].run = runId
  BY DEF Own
<1>11. AtRest' /\ ShowsItsRun' /\ StartsAlone'
  BY <1>1, <1>4 DEF AtRest, ShowsItsRun, StartsAlone
<1>12. EndsLast'
  <2>1. ASSUME NEW i \in Own, replies[i].status \in TERMINAL PROVE s.status \in TERMINAL
    BY <1>2, <1>3, <1>10, <2>1 DEF EndInv, Own
  <2>2. ASSUME s.status \in TERMINAL PROVE posts = {} /\ "error" \notin answers
    <3>1. \A p \in posts : AtGate(p) /\ p.run = runId
      BY <1>4 DEF Tells, PostsTell
    <3> QED BY <1>3, <1>4, <1>6, <2>2, <3>1 DEF Tells
  <2> QED BY <1>1, <1>4, <1>8, <1>9, <2>1, <2>2 DEF EndsLast
<1>13. \A x : (AtGate(x)' <=> AtGate(x)) /\ (Unanswered(x)' <=> Unanswered(x))
              /\ (Settled(x)' <=> Settled(x))
  BY <1>1 DEF AtGate, Unanswered, Settled
<1>14. AllOpen /\ GateOpen(s) => AllOpen'
  BY <1>8, <1>9 DEF AllOpen
<1>15. ViewTells'
  <2>1. Unanswered(view) => AtGate(view) /\ view.run = runId
    BY <1>4 DEF Tells, ViewTells, Unanswered, ShowsItsRun
  <2>2. Unanswered(view) => GateOpen(s) /\ AllOpen
    BY <1>4, <1>6, <2>1 DEF Tells, ViewTells
  <2>3. /\ (Unanswered(view))' <=> Unanswered(view)
        /\ (Settled(view))' <=> Settled(view)
        /\ (AtGate(view))' <=> AtGate(view)
    BY <1>1 DEF AtGate, Unanswered, Settled
  <2> QED BY <1>1, <1>4, <1>14, <2>1, <2>2, <2>3 DEF Tells, ViewTells
<1>16. RepliesTell'
  <2>1. ASSUME NEW i \in Own
        PROVE  /\ (Unanswered(replies[i]))' <=> Unanswered(replies[i])
               /\ (Settled(replies[i]))' <=> Settled(replies[i])
               /\ (AtGate(replies[i]))' <=> AtGate(replies[i])
    BY <1>1, <1>9 DEF AtGate, Unanswered, Settled
  <2>2. /\ (Unanswered(replies[n]))' <=> Unanswered(s)
        /\ (Settled(replies[n]))' <=> Settled(s)
        /\ (AtGate(replies[n]))' <=> AtGate(s)
    BY <1>1, <1>8 DEF AtGate, Unanswered, Settled
  <2>3. ASSUME NEW i \in Own, Unanswered(replies[i]) PROVE GateOpen(s)
    BY <1>4, <1>6, <1>10, <2>3 DEF Tells, RepliesTell
  <2>4. Settled(s) => submitting /\ AllOpen
    BY <1>1, <1>4 DEF Tells, ServerTells, s
  <2> QED BY <1>1, <1>4, <1>5, <1>8, <1>9, <2>1, <2>2, <2>3, <2>4
          DEF Tells, RepliesTell, AllOpen
<1>17. PostsTell'
  <2>1. \A p \in posts : AtGate(p) /\ p.run = runId
    BY <1>4 DEF Tells, PostsTell
  <2>2. posts # {} => GateOpen(s)
    BY <1>6, <2>1
  <2> QED BY <1>1, <1>4, <1>13, <1>14, <2>1, <2>2 DEF Tells, PostsTell
<1>18. ServerTells'
  <2>1. (Settled(snapshot(runId)))' <=> Settled(s)
    BY <1>1, <1>7 DEF Settled
  <2>2. Settled(s) => GateOpen(s)
    BY DEF Settled
  <2> QED BY <1>1, <1>4, <1>14, <2>1, <2>2 DEF Tells, ServerTells, s
<1> QED BY <1>1, <1>4, <1>11, <1>12, <1>15, <1>16, <1>17, <1>18 DEF Tells

LEMMA OrderRender ==
    ASSUME BrowserInv, OrderInv, NEW i \in DOMAIN replies, RenderReply(i)
    PROVE  OrderInv'
<1> SUFFICES ASSUME ~ faulty' PROVE /\ ~ misdirected'
                                    /\ \A p \in posts' : p.run = runId'
                                    /\ ShowsItsRun' /\ StartsAlone'
                                    /\ AtRest' /\ EndsLast' /\ (Known' => Tells')
  BY DEF OrderInv
<1>1. /\ i = 1 /\ replies[1].run = runId /\ ~ faulty
      /\ replies' = RemoveAt(replies, 1) /\ view' = replies[1]
      /\ timer' = (timer /\ replies[1].status \notin TERMINAL)
      /\ submitting' = (submitting /\ GateOpen(replies[1]))
      /\ UNCHANGED <<runId, starting, posts, answers, misdirected>>
      /\ UNCHANGED <<RUNS, pc, attempt, accepted, handle, proposal>>
  BY DEF RenderReply, Arrives, render, Latch, taken, engineVars, engine, vars
<1>2. PICK s : s = replies[1]
  OBVIOUS
<1>3. /\ 1 \in Own /\ view' = s /\ s.run = runId
      /\ timer' = (timer /\ s.status \notin TERMINAL)
      /\ submitting' = (submitting /\ GateOpen(s))
  BY <1>1, <1>2 DEF Own
<1>4. \A j \in DOMAIN replies' : /\ j \in Nat \ {0} /\ j + 1 \in DOMAIN replies
                                 /\ replies'[j] = replies[j + 1]
  <2>1. \A j \in DOMAIN replies' : /\ j \in Nat \ {0} /\ Place(1, j) \in DOMAIN replies
                                   /\ replies'[j] = replies[Place(1, j)]
    BY <1>1, Removal DEF BrowserInv, BrowserTypeOK
  <2>2. \A j \in Nat \ {0} : Place(1, j) = j + 1
    BY DEF Place
  <2> QED BY <2>1, <2>2
<1>5. \A j \in Own' : /\ j + 1 \in Own /\ 1 < j + 1 /\ replies'[j] = replies[j + 1]
  BY <1>1, <1>4 DEF Own
<1>6. \A j, k \in Own' : j < k => j + 1 < k + 1
  BY <1>4 DEF Own
<1>7. /\ ~ misdirected /\ (\A p \in posts : p.run = runId) /\ StartsAlone
      /\ AtRest /\ EndsLast /\ (Known => Tells)
  BY <1>1 DEF OrderInv
<1>12. ShowsItsRun' /\ StartsAlone'
  BY <1>1, <1>3, <1>7 DEF ShowsItsRun, StartsAlone
<1>8. s.status \in TERMINAL => ~ GateOpen(s)
  BY DEF TERMINAL, GateOpen
<1>9. AtRest'
  <2>1. CASE ~ timer
    <3>1. s.status \in TERMINAL /\ \A j \in Own' : replies'[j].status \in TERMINAL
      BY <1>2, <1>3, <1>5, <1>7, <2>1 DEF AtRest
    <3> QED BY <1>1, <1>3, <1>7, <1>8, <2>1, <3>1 DEF AtRest
  <2>2. CASE s.status \in TERMINAL
    <3>1. posts = {} /\ "error" \notin answers /\ \A j \in Own' : replies'[j].status \in TERMINAL
      BY <1>2, <1>3, <1>5, <1>7, <2>2 DEF EndsLast
    <3> QED BY <1>1, <1>3, <1>8, <2>2, <3>1 DEF AtRest
  <2> QED BY <1>3, <2>1, <2>2 DEF AtRest
<1>10. EndsLast'
  BY <1>1, <1>5, <1>6, <1>7 DEF EndsLast
<1>11. ASSUME Known' PROVE Tells'
  <2>1. Known
    BY <1>1, <1>5, <1>11 DEF Known
  <2>2. ViewTells /\ RepliesTell /\ PostsTell /\ ServerTells /\ "error" \notin answers
    BY <1>7, <2>1 DEF Tells
  <2>3. AllOpen => GateOpen(s) /\ AllOpen'
    BY <1>2, <1>3, <1>5 DEF AllOpen
  <2>4. ViewTells'
    <3>1. Unanswered(s) => AtGate(s) /\ AllOpen'
      BY <1>2, <1>3, <1>5, <2>2 DEF RepliesTell, AllOpen
    <3>2. Settled(s) => submitting'
      BY <1>2, <1>3, <2>2 DEF RepliesTell, Settled
    <3>3. /\ (Unanswered(view))' <=> Unanswered(s)
          /\ (Settled(view))' <=> Settled(s)
          /\ (AtGate(view))' <=> AtGate(s)
      BY <1>1, <1>3 DEF Unanswered, Settled, AtGate
    <3> QED BY <3>1, <3>2, <3>3 DEF ViewTells
  <2>5. RepliesTell'
    <3>1. ASSUME NEW j \in Own'
          PROVE  /\ (Unanswered(replies[j]))' <=> Unanswered(replies[j + 1])
                 /\ (Settled(replies[j]))' <=> Settled(replies[j + 1])
                 /\ (AtGate(replies[j]))' <=> AtGate(replies[j + 1])
      BY <1>1, <1>5 DEF Unanswered, Settled, AtGate
    <3>2. ASSUME NEW j \in Own', Settled(replies[j + 1]) PROVE submitting'
      BY <1>2, <1>3, <1>5, <2>2, <3>2 DEF RepliesTell
    <3> QED BY <1>5, <1>6, <2>2, <3>1, <3>2 DEF RepliesTell
  <2>6. PostsTell'
    <3>1. \A p \in posts : AtGate(p)'
      BY <1>1, <2>2 DEF PostsTell, AtGate
    <3> QED BY <1>1, <1>3, <2>2, <2>3, <3>1 DEF PostsTell
  <2>7. ServerTells'
    <3>1. (Settled(snapshot(runId)))' <=> Settled(snapshot(runId))
      BY <1>1 DEF Settled, snapshot
    <3> QED BY <1>1, <1>3, <2>2, <2>3, <3>1 DEF ServerTells
  <2> QED BY <1>1, <2>2, <2>4, <2>5, <2>6, <2>7 DEF Tells
<1> QED BY <1>1, <1>7, <1>9, <1>10, <1>11, <1>12

LEMMA OrderDecide ==
    ASSUME BrowserInv, OrderInv, NEW d, decide(d)
    PROVE  OrderInv'
<1> SUFFICES ASSUME ~ faulty' PROVE /\ ~ misdirected'
                                    /\ \A p \in posts' : p.run = runId'
                                    /\ ShowsItsRun' /\ StartsAlone'
                                    /\ AtRest' /\ EndsLast' /\ (Known' => Tells')
  BY DEF OrderInv
<1>1. /\ GateOpen(view) /\ ~ submitting /\ submitting' = TRUE
      /\ \E T : posts' = posts \cup {[decision |-> d, targets |-> T, wanted |-> typed,
                                      run |-> runId, gate |-> view.gate,
                                      proposal |-> view.proposal]}
      /\ UNCHANGED <<runId, view, timer, starting, replies, answers, misdirected, faulty>>
      /\ UNCHANGED <<RUNS, pc, attempt, accepted, handle, proposal>>
  BY DEF decide, Click, Post, Latch, start, taken, engineVars, engine, vars
<1>2. PICK p : /\ posts' = posts \cup {p} /\ p.run = runId /\ p.gate = view.gate
              /\ p.proposal = view.proposal
  <2>1. PICK T : posts' = posts \cup {[decision |-> d, targets |-> T, wanted |-> typed,
                                      run |-> runId, gate |-> view.gate,
                                      proposal |-> view.proposal]}
    BY <1>1
  <2>2. PICK p : p = [decision |-> d, targets |-> T, wanted |-> typed,
                      run |-> runId, gate |-> view.gate,
                      proposal |-> view.proposal]
    OBVIOUS
  <2> QED BY <2>1, <2>2
<1>3. /\ ~ misdirected /\ (\A q \in posts : q.run = runId) /\ view.run = runId
      /\ ShowsItsRun' /\ StartsAlone'
      /\ AtRest /\ EndsLast /\ (Known => Tells) /\ EndInv
  BY <1>1 DEF OrderInv, ShowsItsRun, StartsAlone, BrowserInv
<1>4. Own' = Own /\ (Known' <=> Known) /\ (AllOpen' <=> AllOpen)
  BY <1>1 DEF Own, Known, AllOpen
<1>5. ASSUME Known PROVE AtGate(view) /\ AllOpen /\ posts = {}
  BY <1>1, <1>3, <1>5 DEF Tells, ViewTells, PostsTell, Settled, Unanswered
<1>6. AtRest'
  BY <1>1, <1>3 DEF AtRest
<1>7. EndsLast'
  <2>1. ASSUME NEW i \in Own, replies[i].status \in TERMINAL PROVE FALSE
    <3>1. Known
      BY <2>1 DEF Known
    <3> QED BY <1>3, <1>5, <2>1, <3>1, EndedIsNotAtGate
  <2> QED BY <1>1, <1>4, <2>1 DEF EndsLast
<1>8. ASSUME Known PROVE Tells'
  <2>1. ViewTells /\ RepliesTell /\ PostsTell /\ ServerTells /\ "error" \notin answers
    BY <1>3, <1>8 DEF Tells
  <2>2. ViewTells'
    <3>1. /\ (Unanswered(view))' <=> Unanswered(view)
          /\ (Settled(view))' <=> Settled(view)
          /\ (AtGate(view))' <=> AtGate(view)
      BY <1>1 DEF Unanswered, Settled, AtGate
    <3> QED BY <1>1, <1>4, <2>1, <3>1 DEF ViewTells
  <2>3. RepliesTell'
    <3>1. ASSUME NEW i \in Own
          PROVE  /\ (Unanswered(replies[i]))' <=> Unanswered(replies[i])
                 /\ (Settled(replies[i]))' <=> Settled(replies[i])
                 /\ (AtGate(replies[i]))' <=> AtGate(replies[i])
      BY <1>1 DEF Unanswered, Settled, AtGate
    <3> QED BY <1>1, <1>4, <2>1, <3>1 DEF RepliesTell
  <2>4. PostsTell'
    <3>1. AtGate(p)'
      BY <1>1, <1>2, <1>3, <1>5, <1>8 DEF AtGate
    <3> QED BY <1>1, <1>2, <1>4, <1>5, <1>8, <3>1 DEF PostsTell
  <2>5. ServerTells'
    <3>1. (Settled(snapshot(runId)))' <=> Settled(snapshot(runId))
      BY <1>1 DEF Settled, snapshot
    <3> QED BY <1>1, <1>4, <2>1, <3>1 DEF ServerTells
  <2> QED BY <1>1, <2>1, <2>2, <2>3, <2>4, <2>5 DEF Tells
<1> QED BY <1>1, <1>2, <1>3, <1>4, <1>6, <1>7, <1>8

LEMMA OrderDeliver ==
    ASSUME BrowserInv, OrderInv, NEW p \in posts, DeliverPost(p)
    PROVE  OrderInv'
<1> SUFFICES ASSUME ~ faulty' PROVE /\ ~ misdirected'
                                    /\ \A q \in posts' : q.run = runId'
                                    /\ ShowsItsRun' /\ StartsAlone'
                                    /\ AtRest' /\ EndsLast' /\ (Known' => Tells')
  BY DEF OrderInv
<1> DEFINE d == [decision |-> p.decision, targets |-> p.targets]
<1>1. /\ posts' = posts \ {p} /\ UNCHANGED <<runId, view, timer, starting, submitting, replies, faulty>>
      /\ \/ submit_decision(p.run, d) /\ Take(p) /\ answers' = answers \cup {"ok"}
         \/ /\ p.run \notin RUNS \/ handle[p.run].future.state # "pending"
                                 \/ handle[p.run].decision_submitted
            /\ UNCHANGED <<engineVars, taken>> /\ answers' = answers \cup {"error"}
  BY DEF DeliverPost, Answered, page, start, latch
<1>2. /\ ~ misdirected /\ (\A q \in posts : q.run = runId)
      /\ ShowsItsRun /\ StartsAlone
      /\ AtRest /\ EndsLast /\ (Known => Tells) /\ EngineInv /\ BrowserTypeOK
      /\ posts \subseteq PostSet
  BY <1>1 DEF OrderInv, BrowserInv, BrowserTypeOK, PostSet
<1>3. p.run = runId /\ p \in PostSet /\ runId \in Runs
  BY <1>2 DEF PostSet
<1>4. timer /\ timer' = timer /\ Own' = Own /\ \A i \in Own : replies[i].status \notin TERMINAL
  BY <1>1, <1>2 DEF AtRest, EndsLast, Own
<1>5. ASSUME Known PROVE AtGate(p) /\ submitting /\ AllOpen /\ posts = {p}
  BY <1>2, <1>5 DEF Tells, PostsTell
<1>6. AtRest' /\ EndsLast' /\ ShowsItsRun' /\ StartsAlone'
  BY <1>1, <1>2, <1>4 DEF AtRest, EndsLast, ShowsItsRun, StartsAlone
<1>7. CASE UNCHANGED <<engineVars, taken>> /\ ( \/ p.run \notin RUNS
                                                \/ handle[p.run].future.state # "pending"
                                                \/ handle[p.run].decision_submitted)
  <2>1. ~ Known
    <3>1. ASSUME Known PROVE FALSE
      <4>1. AtGate(p)
        BY <1>5, <3>1
      <4> QED BY <1>2, <1>7, <4>1, AtGateIsPending DEF AtGate
    <3> QED BY <3>1
  <2>2. ~ Known' /\ misdirected' = misdirected
    BY <1>1, <1>4, <1>7, <2>1 DEF Known, engineVars, engine, taken
  <2> QED BY <1>1, <1>2, <1>6, <2>2
<1>8. CASE submit_decision(p.run, d) /\ Take(p) /\ answers' = answers \cup {"ok"}
  <2>1. /\ runId \in RUNS /\ d \in Decisions
        /\ UNCHANGED <<RUNS, pc, attempt>>
    BY <1>3, <1>8, DecisionOfAPost DEF submit_decision, vars
  <2>2. Known /\ AtGate(p) /\ submitting /\ AllOpen /\ posts = {p} /\ Tells
    BY <1>2, <1>5, <2>1 DEF Known
  <2>3. handle[p.run].future.gate = p.gate
    BY <1>2, <2>2, AtGateIsPending
  <2>4. ~ misdirected'
    BY <1>2, <1>8, <2>2, <2>3 DEF Take, AtGate
  <2>5. /\ accepted'[runId][attempt[runId]] # << >>
        /\ \A g \in Gates : accepted[runId][g] # << >> => accepted'[runId][g] # << >>
    BY <1>2, <1>3, <1>8, <2>1, SubmitEffect
  \* The gate that was the only one unanswered is settled now.
  <2>6. ASSUME NEW s, s.run = runId, s.gate \in Gates, Unanswered(s) => AtGate(s)
        PROVE  ~ Unanswered(s)'
    BY <2>5, <2>6 DEF Unanswered, AtGate
  <2>7. ASSUME NEW s \in Snapshots PROVE s.gate \in Gates
    BY DEF Snapshots
  <2>8. view \in Snapshots /\ \A i \in Own : replies[i] \in Snapshots /\ replies[i].run = runId
    BY <1>2 DEF BrowserTypeOK, Own
  <2>9. submitting' /\ AllOpen' /\ posts' = {}
    BY <1>1, <1>4, <2>2 DEF AllOpen
  <2>10. ViewTells'
    <3>1. ~ (Unanswered(view))'
      <4>1. CASE ~ GateOpen(view)
        BY <1>1, <4>1 DEF Unanswered
      <4>2. CASE GateOpen(view)
        <5>1. view.run = runId /\ view.gate \in Gates /\ (Unanswered(view) => AtGate(view))
          BY <1>2, <2>2, <2>7, <2>8, <4>2 DEF Tells, ViewTells, ShowsItsRun
        <5>2. PICK s : s = view
          OBVIOUS
        <5>3. ~ Unanswered(s)'
          BY <2>6, <5>1, <5>2
        <5> QED BY <1>1, <5>2, <5>3 DEF Unanswered
      <4> QED BY <4>1, <4>2
    <3> QED BY <2>9, <3>1 DEF ViewTells
  <2>11. RepliesTell'
    <3>1. ASSUME NEW i \in Own PROVE ~ (Unanswered(replies[i]))'
      <4>1. PICK s : s = replies[i]
        OBVIOUS
      <4>2. s.run = runId /\ s.gate \in Gates /\ (Unanswered(s) => AtGate(s))
        BY <2>2, <2>7, <2>8, <4>1 DEF Tells, RepliesTell
      <4>3. ~ Unanswered(s)'
        BY <2>6, <4>2
      <4> QED BY <1>1, <4>1, <4>3 DEF Unanswered
    <3> QED BY <1>4, <2>9, <3>1 DEF RepliesTell, AllOpen
  <2>12. PostsTell' /\ ServerTells'
    BY <2>9 DEF PostsTell, ServerTells
  <2>13. "error" \notin answers'
    BY <1>8, <2>2 DEF Tells
  <2> QED BY <1>1, <1>2, <1>6, <2>4, <2>10, <2>11, <2>12, <2>13 DEF Tells
<1> QED BY <1>1, <1>7, <1>8

LEMMA OrderAnswer ==
    ASSUME BrowserInv, OrderInv, AnswerArrives
    PROVE  OrderInv'
<1> SUFFICES ASSUME ~ faulty' PROVE /\ ~ misdirected'
                                    /\ \A p \in posts' : p.run = runId'
                                    /\ ShowsItsRun' /\ StartsAlone'
                                    /\ AtRest' /\ EndsLast' /\ (Known' => Tells')
  BY DEF OrderInv
<1>1. PICK a \in answers :
         /\ answers' = answers \ {a} /\ submitting' = (submitting /\ a = "ok")
         /\ UNCHANGED <<runId, timer, view, starting, replies, posts, faulty, misdirected>>
         /\ UNCHANGED <<RUNS, pc, attempt, accepted, handle, proposal>>
  BY DEF AnswerArrives, Latch, start, taken, engineVars, engine, vars
<1>2. /\ ~ misdirected /\ (\A p \in posts : p.run = runId)
      /\ ShowsItsRun /\ StartsAlone
      /\ AtRest /\ EndsLast /\ (Known => Tells) /\ answers \subseteq {"ok", "error"}
      /\ submitting \in BOOLEAN
  BY <1>1 DEF OrderInv, BrowserInv, BrowserTypeOK
<1>3. Own' = Own /\ (Known' <=> Known)
  BY <1>1 DEF Own, Known
<1>4. AtRest' /\ EndsLast' /\ ShowsItsRun' /\ StartsAlone'
  BY <1>1, <1>2, <1>3 DEF AtRest, EndsLast, ShowsItsRun, StartsAlone
<1>5. ASSUME Known PROVE Tells'
  <2>1. ViewTells /\ RepliesTell /\ PostsTell /\ ServerTells /\ "error" \notin answers
    BY <1>2, <1>5 DEF Tells
  <2>2. submitting' = submitting /\ "error" \notin answers'
    BY <1>1, <1>2, <2>1
  <2>3. AllOpen' <=> AllOpen
    BY <1>1, <1>3 DEF AllOpen
  <2>4. /\ ViewTells' <=> ViewTells
        /\ PostsTell' <=> PostsTell
        /\ ServerTells' <=> ServerTells
    BY <1>1, <2>2, <2>3
       DEF ViewTells, PostsTell, ServerTells, Unanswered, Settled, AtGate, snapshot
  <2>5. RepliesTell'
    BY <1>1, <1>3, <2>1, <2>2 DEF RepliesTell, Unanswered, Settled, AtGate
  <2> QED BY <2>1, <2>2, <2>4, <2>5 DEF Tells
<1> QED BY <1>1, <1>2, <1>3, <1>4, <1>5

LEMMA OrderStart == BrowserInit => OrderInv
<1> SUFFICES ASSUME BrowserInit PROVE OrderInv
  OBVIOUS
<1>1. /\ replies = << >> /\ posts = {} /\ answers = {} /\ view = NoSnapshot
      /\ ~ submitting /\ ~ misdirected /\ RUNS = {} /\ starting = {}
  BY DEF BrowserInit, EngineInit
<1>2. Own = {} /\ ~ GateOpen(NoSnapshot)
  BY <1>1 DEF Own, GateOpen, NoSnapshot
<1>3. AtRest /\ EndsLast /\ ShowsItsRun /\ StartsAlone /\ ~ Known
  BY <1>1, <1>2 DEF AtRest, EndsLast, ShowsItsRun, StartsAlone, Known
<1> QED BY <1>1, <1>3 DEF OrderInv

LEMMA OrderStep ==
    ASSUME BrowserInv, BrowserInv', OrderInv, BrowserNext \/ UNCHANGED browserVars
    PROVE  OrderInv'
<1>a. BrowserTypeOK
  BY DEF BrowserInv
<1>1. CASE UNCHANGED browserVars
  <2>1. /\ UNCHANGED engineVars /\ replies' = replies /\ starting' = starting
        /\ UNCHANGED <<runId, view, submitting, timer, posts, answers, misdirected, faulty>>
    BY <1>1 DEF browserVars, page, start, network, taken, latch
  <2> QED BY <1>a, <2>1, SameThins, OrderIdle
<1>2. CASE LoseReply
  <2>1. PICK i \in DOMAIN replies : replies' = RemoveAt(replies, i)
    BY <1>2 DEF LoseReply
  <2>2. /\ UNCHANGED engineVars /\ starting' = starting
        /\ UNCHANGED <<runId, view, submitting, timer, posts, answers, misdirected, faulty>>
    BY <1>2 DEF LoseReply, page, start, latch, taken
  <2> QED BY <1>a, <2>1, <2>2, RemovalThins, OrderIdle
<1>3. ASSUME NEW T \in Edits, Edit(T) PROVE OrderInv'
  <2>1. /\ UNCHANGED engineVars /\ replies' = replies /\ starting' = starting
        /\ UNCHANGED <<runId, view, submitting, timer, posts, answers, misdirected, faulty>>
    BY <1>3 DEF Edit, start, network, latch, taken
  <2> QED BY <1>a, <2>1, SameThins, OrderIdle
<1>4. CASE LosePost \/ LoseAnswer
  BY <1>4 DEF LosePost, LoseAnswer, OrderInv
<1>5. ASSUME NEW r \in Runs, startFails(r) PROVE OrderInv'
  <2>1. /\ UNCHANGED engineVars /\ replies' = replies /\ starting' \subseteq starting
        /\ UNCHANGED <<runId, view, submitting, timer, posts, answers, misdirected, faulty>>
    BY <1>5 DEF startFails, network, latch, taken
  <2> QED BY <1>a, <2>1, SameThins, OrderIdle
<1> QED BY <1>1, <1>2, <1>3, <1>4, <1>5, OrderMoves, OrderStartRun, OrderStartPolling,
           OrderPoll, OrderRender, OrderDecide, OrderDeliver, OrderAnswer DEF BrowserNext
-----------------------------------------------------------------------------
(* The latch.                                                              *)

\* No gate on the page or on its way is of an entry the run has not reached, and
\* a latch that is set has its decision, or an error, under way, or was taken.
LatchInv ==
    /\ ~ submitting => clicked = 0
    /\ \A i \in DOMAIN replies : replies[i].gate <= attempt[replies[i].run]
    /\ SeesItsRun =>
          /\ GateOpen(view) => view.gate <= attempt[runId]
          /\ clicked <= attempt[runId]
          /\ submitting => \/ posts # {} \/ "error" \in answers
                           \/ \E g \in clicked .. 1 : accepted[runId][g] # << >>

LEMMA LatchStart == BrowserInit => LatchInv
BY DEF BrowserInit, LatchInv, SeesItsRun

LEMMA LatchStep ==
    ASSUME BrowserInv, BrowserInv', OrderInv, LatchInv, EngineGoesOn,
           BrowserNext \/ UNCHANGED browserVars
    PROVE  LatchInv'
<1>a. /\ EngineInv /\ EngineInv' /\ BlankInv /\ FollowInv /\ LatchInv /\ BrowserTypeOK
      /\ runId \in Runs \cup {NoRun} /\ submitting \in BOOLEAN /\ clicked \in Gates
      /\ replies \in Seq(Snapshots) /\ view \in Snapshots /\ posts \subseteq PostSet
      /\ \A i \in DOMAIN replies : replies[i].run \in Runs
  BY DEF BrowserInv, BrowserTypeOK, FollowInv, PostSet
<1>b. SeesItsRun => runId \in Runs
  BY <1>a DEF SeesItsRun
<1>c. ASSUME NEW r \in Runs
      PROVE  /\ attempt[r] \in Gates /\ attempt'[r] \in Gates /\ attempt[r] <= attempt'[r]
             /\ \A g \in Gates : accepted[r][g] # << >> => accepted'[r][g] # << >>
             /\ \A x \in Gates : x <= attempt[r] => x <= attempt'[r]
             /\ 0 <= attempt'[r]
  <2>1. attempt'[r] \in Gates /\ attempt[r] \in Gates
    BY <1>a, EngineTypes DEF EngineInv, LoopInv, TypeInv, TypeOK, Gates
  <2> QED BY <2>1 DEF EngineGoesOn, Gates
<1>d. ASSUME NEW s \in Snapshots PROVE s.gate \in Gates
  BY DEF Snapshots
<1>e. \A i \in DOMAIN replies : replies[i].gate <= attempt'[replies[i].run]
  BY <1>a, <1>c, <1>d DEF LatchInv
\* Most actions leave the page's latch and what it waits for alone, or release it.
<1>1. ASSUME UNCHANGED <<runId, followed, posts>>, faulty => faulty',
             \/ UNCHANGED <<submitting, clicked>> /\ ("error" \in answers => "error" \in answers')
             \/ submitting' = FALSE /\ clicked' = 0,
             \/ view' = view
             \/ \E i \in DOMAIN replies :
                   view' = replies[i] /\ (SeesItsRun' => replies[i].run = runId)
             \/ ~ GateOpen(view)',
             \A j \in DOMAIN replies' : \/ \E k \in DOMAIN replies : replies'[j] = replies[k]
                                        \/ replies'[j].gate <= attempt'[replies'[j].run]
      PROVE  LatchInv'
  <2>1. \A j \in DOMAIN replies' : replies'[j].gate <= attempt'[replies'[j].run]
    BY <1>1, <1>e
  <2>2. ASSUME SeesItsRun'
        PROVE  /\ GateOpen(view)' => view'.gate <= attempt'[runId]
               /\ clicked' <= attempt'[runId]
               /\ submitting' => \/ posts # {} \/ "error" \in answers'
                                 \/ \E g \in clicked' .. 1 : accepted'[runId][g] # << >>
    <3>1. SeesItsRun
      BY <1>1, <2>2 DEF SeesItsRun
    <3>2. /\ runId \in Runs /\ (GateOpen(view) => view.gate <= attempt[runId])
          /\ clicked <= attempt[runId]
          /\ submitting => \/ posts # {} \/ "error" \in answers
                           \/ \E g \in clicked .. 1 : accepted[runId][g] # << >>
      BY <1>a, <1>b, <3>1 DEF LatchInv
    <3>3. GateOpen(view)' => view'.gate <= attempt'[runId]
      <4>1. CASE view' = view
        BY <1>a, <1>c, <1>d, <3>2, <4>1 DEF GateOpen
      <4>2. CASE \E i \in DOMAIN replies :
                    view' = replies[i] /\ (SeesItsRun' => replies[i].run = runId)
        BY <1>e, <2>2, <4>2
      <4> QED BY <1>1, <4>1, <4>2
    <3>4. clicked' <= attempt'[runId]
      BY <1>1, <1>a, <1>c, <3>2
    <3>5. ASSUME NEW g \in clicked .. 1, accepted[runId][g] # << >>
          PROVE  accepted'[runId][g] # << >>
      <4>1. g \in Gates
        BY <1>a DEF Gates
      <4> QED BY <1>c, <3>2, <3>5, <4>1
    <3>6. submitting' => \/ posts # {} \/ "error" \in answers'
                         \/ \E g \in clicked' .. 1 : accepted'[runId][g] # << >>
      BY <1>1, <3>2, <3>5
    <3> QED BY <3>3, <3>4, <3>6
  <2>3. ~ submitting' => clicked' = 0
    BY <1>1, <1>a DEF LatchInv
  <2> QED BY <1>1, <2>1, <2>2, <2>3 DEF LatchInv
<1>2. CASE EngineMoves \/ UNCHANGED browserVars
  <2>1. UNCHANGED <<page, network, taken>>
    BY <1>2 DEF EngineMoves, browserVars
  <2> QED BY <1>1, <2>1 DEF page, network, latch
<1>3. ASSUME NEW r \in Runs, startRun(r) \/ startFails(r) PROVE LatchInv'
  <2>1. ~ GateOpen(NoSnapshot)
    BY DEF GateOpen, NoSnapshot
  <2>2. /\ UNCHANGED <<runId, followed, submitting, clicked, replies, posts, answers>>
        /\ faulty => faulty'
        /\ view' = view \/ view' = NoSnapshot
    BY <1>3, StartLeaves DEF latch
  <2>3. view' = NoSnapshot => ~ GateOpen(view)'
    BY <2>1 DEF GateOpen
  <2> QED BY <1>1, <2>2, <2>3
<1>14. ASSUME NEW r \in Runs, startPolling(r) PROVE LatchInv'
  <2>1. /\ r \in starting /\ r \notin followed /\ runId' = r /\ followed' = followed \cup {r}
        /\ UNCHANGED <<view, submitting, clicked, replies, faulty>>
    BY <1>14 DEF startPolling, latch, network, BrowserInv, StartInv
  \* Either this is the first run, or the page is at rest.
  <2>2. SeesItsRun' => ~ submitting /\ ~ GateOpen(view)
    <3>1. CASE followed' = {r}
      <4>1. runId = NoRun
        BY <1>a, <2>1, <3>1 DEF FollowInv
      <4> QED BY <1>a, <4>1 DEF BlankInv, GateOpen, NoSnapshot
    <3>2. CASE ~ faulty
      BY <2>1, <3>2 DEF OrderInv, StartsAlone, AtRest
    <3> QED BY <2>1, <3>1, <3>2 DEF SeesItsRun
  <2>3. ~ submitting => clicked = 0 /\ 0 <= attempt'[r]
    BY <1>a, <1>c DEF LatchInv
  <2>4. (GateOpen(view))' <=> GateOpen(view)
    BY <2>1 DEF GateOpen
  <2> QED BY <1>a, <1>e, <2>1, <2>2, <2>3, <2>4 DEF LatchInv
<1>4. CASE Poll
  <2>1. /\ runId \in RUNS /\ replies' = Append(replies, snapshot(runId)) /\ attempt' = attempt
        /\ UNCHANGED <<page, posts, answers, faulty>>
    BY <1>4 DEF Poll, engineVars, vars
  <2>2. PICK s : s = snapshot(runId)
    OBVIOUS
  <2>3. s.run = runId /\ s.gate <= attempt'[runId]
    <3>1. runId \in Runs /\ s.run = runId /\ attempt[runId] \in Gates
      BY <1>a, <2>1, <2>2, SnapshotTells, EngineTypes
    <3>2. s.gate = 0 \/ s.gate = attempt[runId]
      BY <2>2 DEF snapshot
    <3> QED BY <2>1, <3>1, <3>2 DEF Gates
  <2>4. \A j \in DOMAIN replies' : \/ j \in DOMAIN replies /\ replies'[j] = replies[j]
                                   \/ replies'[j] = s
    BY <1>a, <2>1, <2>2, Polled
  <2> QED BY <1>1, <2>1, <2>3, <2>4 DEF page, latch
<1>5. ASSUME NEW i \in DOMAIN replies, RenderReply(i) PROVE LatchInv'
  <2>1. /\ replies' = RemoveAt(replies, i) /\ view' = replies[i]
        /\ Latch(submitting /\ GateOpen(replies[i]), clicked)
        /\ faulty' = (faulty \/ i # 1 \/ replies[i].run # runId)
        /\ UNCHANGED <<runId, followed, posts, answers>>
    BY <1>5 DEF RenderReply, Arrives, render
  <2>2. \A j \in DOMAIN replies' : \E k \in DOMAIN replies : replies'[j] = replies[k]
    BY <1>a, <2>1, Remaining
  <2>3. \/ UNCHANGED <<submitting, clicked>>
        \/ submitting' = FALSE /\ clicked' = 0
    BY <1>a, <2>1 DEF Latch
  <2>4. SeesItsRun' => replies[i].run = runId
    BY <1>a, <2>1 DEF SeesItsRun, FollowInv
  <2> QED BY <1>1, <2>1, <2>2, <2>3, <2>4
<1>6. CASE LoseReply
  <2>1. PICK i \in DOMAIN replies : replies' = RemoveAt(replies, i)
    BY <1>6 DEF LoseReply
  <2>2. \A j \in DOMAIN replies' : \E k \in DOMAIN replies : replies'[j] = replies[k]
    BY <1>a, <2>1, Remaining
  <2> QED BY <1>1, <1>6, <2>2 DEF LoseReply, page, latch
<1>7. ASSUME NEW T \in Edits, Edit(T) PROVE LatchInv'
  BY <1>1, <1>7 DEF Edit, start, latch, network
<1>8. CASE LoseAnswer
  BY <1>1, <1>8 DEF LoseAnswer, page, latch
<1>9. CASE AnswerArrives
  <2>1. PICK a \in answers : answers' = answers \ {a} /\ Latch(submitting /\ a = "ok", clicked)
    BY <1>9 DEF AnswerArrives
  <2>2. \/ UNCHANGED <<submitting, clicked>> /\ ("error" \in answers => "error" \in answers')
        \/ submitting' = FALSE /\ clicked' = 0
    BY <1>a, <2>1 DEF Latch
  <2> QED BY <1>1, <1>9, <2>2 DEF AnswerArrives
<1>10. ASSUME NEW d, decide(d) PROVE LatchInv'
  <2>1. /\ submitting' = TRUE /\ clicked' = view.gate /\ posts' # {} /\ GateOpen(view)
        /\ UNCHANGED <<runId, followed, view, replies, faulty, attempt>>
    BY <1>10 DEF decide, Click, Post, Latch, engineVars, vars
  <2> QED BY <1>a, <2>1 DEF LatchInv, SeesItsRun, GateOpen
<1>11. ASSUME UNCHANGED <<page, replies, attempt>>, faulty => faulty',
              "error" \in answers' \/ (SeesItsRun => accepted'[runId][attempt[runId]] # << >>)
       PROVE  LatchInv'
  <2>1. UNCHANGED <<runId, followed, view, submitting, clicked>>
    BY <1>11 DEF page, latch
  <2>2. SeesItsRun' => SeesItsRun
    BY <1>11, <2>1 DEF SeesItsRun
  <2>3. ASSUME SeesItsRun, "error" \notin answers'
        PROVE  \E g \in clicked .. 1 : accepted'[runId][g] # << >>
    <3>1. runId \in Runs /\ clicked <= attempt[runId] /\ attempt[runId] \in Gates
      BY <1>a, <1>b, <1>c, <2>3 DEF LatchInv
    <3>2. attempt[runId] \in clicked .. 1
      BY <1>a, <3>1 DEF Gates
    <3> QED BY <1>11, <2>3, <3>2
  <2> QED BY <1>a, <1>11, <2>1, <2>2, <2>3 DEF LatchInv, GateOpen
<1>12. CASE LosePost
  BY <1>11, <1>12 DEF LosePost, Answered, engineVars, vars
<1>13. ASSUME NEW p \in posts, DeliverPost(p) PROVE LatchInv'
  <2>1. CASE Answered(p, "error") /\ UNCHANGED <<engineVars, faulty>>
    BY <1>11, <2>1 DEF Answered, engineVars, vars
  <2>2. CASE submit_decision(p.run, [decision |-> p.decision, targets |-> p.targets])
             /\ Answered(p, "ok") /\ faulty' = faulty
    <3>1. p.run \in Runs /\ [decision |-> p.decision, targets |-> p.targets] \in Decisions
      BY <1>a, DecisionOfAPost DEF PostSet
    <3>2. accepted'[p.run][attempt[p.run]] # << >> /\ attempt' = attempt
      BY <1>a, <2>2, <3>1, SubmitEffect
    <3>3. SeesItsRun => p.run = runId
      BY <1>a DEF SeesItsRun, FollowInv, OrderInv
    <3> QED BY <1>11, <2>2, <3>2, <3>3 DEF Answered
  <2> QED BY <1>13, <2>1, <2>2 DEF DeliverPost
<1> QED
  BY <1>2, <1>3, <1>4, <1>5, <1>6, <1>7, <1>8, <1>9, <1>10, <1>12, <1>13,
     <1>14 DEF BrowserNext

-----------------------------------------------------------------------------
(* The theorems.                                                           *)

\* The page and what lies on its way keep their types.
THEOREM BrowserTypeCorrect == BrowserSpec => []BrowserTypeOK
<1>1. BrowserInv => BrowserTypeOK
  BY DEF BrowserInv
<1> QED BY <1>1, BrowserInvariant, PTL

\* Whatever a page posts and the network does with it, the process does only what
\* it does for POSTs in general: what is proved of EngineSpec holds behind the page
\* (api.py:66-81, index.html:274-305).
THEOREM PageKeepsTheEngine == BrowserSpec => EngineKept
<1>1. BrowserInit => EngineInit
  BY DEF BrowserInit
<1>2. BrowserInv /\ [BrowserNext]_browserVars => [EngineNext]_engineVars
  BY BrowserStepIsEngineStep DEF BrowserInv
<1> QED BY <1>1, <1>2, BrowserInvariant, PTL DEF BrowserSpec, EngineKept, EngineSpec

\* Through the page and its network too, the gate contract is kept: a run writes
\* only what the decision at its last gate asks for (loop.py:185-239).
COROLLARY PageKeepsContract == BrowserSpec => GateKept
<1> QED BY PageKeepsTheEngine, EngineKeepsContract DEF EngineKept

\* However clicks, losses and late arrivals interleave, a write follows the one POST
\* its last gate accepted (runs.py:206-230, act.py).
COROLLARY PageWritesWerePosted == BrowserSpec => []WriteWasPosted
<1> QED BY PageKeepsTheEngine, WritesWerePosted DEF EngineKept

\* A page polls until its run is over: its first run in whatever order the snapshots
\* come back and whatever else is being started, any later one as long as snapshots
\* come in order and runs are started one at a time (index.html:150-188).
THEOREM PollingOutlivesTheRun == BrowserSpec => []PollsWhileLive
<1>1. BrowserInv => PollsWhileLive
  BY DEF BrowserInv, EndInv
<1> QED BY <1>1, BrowserInvariant, PTL

\* What the page shows is in step with its run, until a fault.
LEMMA OrderInvariant == BrowserSpec => [](BrowserInv /\ OrderInv)
<1>1. BrowserInv /\ OrderInv /\ [BrowserNext]_browserVars => (BrowserInv /\ OrderInv)'
  BY BrowserStep, OrderStep
<1> QED BY <1>1, BrowserStart, OrderStart, PTL DEF BrowserSpec

\* Only a fault of the network, or a run started on top of another, takes a decision
\* to another gate entry than the one it was made at, although a decision names none:
\* not the polls of the page, its clicks and the races of its decisions with the run
\* (index.html:150-226, 274-290, runs.py:206-230).
THEOREM WrongGatesNeedFaults == BrowserSpec => []WrongGateNeedsFault
<1>1. OrderInv => WrongGateNeedsFault
  BY DEF OrderInv, WrongGateNeedsFault
<1> QED BY <1>1, OrderInvariant, PTL

\* A click on a page that has all its answers and still waits was taken, at its gate
\* or a later one: the page is never locked by a decision that failed, whatever the
\* network does on its first run, and on a later one until a fault
\* (index.html:222-226, 285-288).
THEOREM LatchedClicksWereTaken == BrowserSpec => []LatchMeansTaken
<1>1. /\ BrowserInv /\ BrowserInv' /\ OrderInv /\ LatchInv /\ [BrowserNext]_browserVars
      => LatchInv'
  BY BrowserStepIsEngineStep, GoingOn, LatchStep DEF BrowserInv
<1>2. LatchInv => LatchMeansTaken
  BY DEF LatchInv, LatchMeansTaken
<1> QED BY <1>1, <1>2, LatchStart, OrderInvariant, PTL DEF BrowserSpec

==============================================================================
