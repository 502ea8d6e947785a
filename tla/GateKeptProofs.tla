---------------------------- MODULE GateKeptProofs ----------------------------
(***************************************************************************)
(* AgentLoop implements GateContract and PollContract, for every value of  *)
(* the constants: the phase of a run, the plan it carries, whether it was  *)
(* revised, its calls, and its wait for a sync move as they allow.         *)
(***************************************************************************)
EXTENDS AgentLoopProofs

phase == [r \in Runs |-> Phase(r)]
revised == [r \in Runs |-> attempt[r] = 1]

\* The step of one run as the contract sees it.
LEMMA PhaseStep ==
    ASSUME TypeOK, NEW r \in Runs, NEW to, pc' = [pc EXCEPT ![r] = to]
    PROVE  /\ phase' = [phase EXCEPT ![r] = Phase(r)']
           /\ Phase(r)' = Phase(r) => phase' = phase
BY DEF TypeOK, phase, Phase

LEMMA SamePhase ==
    ASSUME UNCHANGED <<pc, attempt, proposal, calls>>
    PROVE  UNCHANGED Contract!vars
BY DEF Contract!vars, Phase

\* A run that moves on within its phase, or ends, without touching the plan.
LEMMA QuietStep ==
    ASSUME TypeOK, NEW r \in Runs, NEW to, pc' = [pc EXCEPT ![r] = to],
           to \in Ended \/ Phase(r)' = Phase(r),
           UNCHANGED <<attempt, proposal, calls>>
    PROVE  Contract!Close({r}) \/ UNCHANGED Contract!vars
<1>1. CASE to \in Ended
  <2>1. phase' = [s \in Runs |-> IF s \in {r} THEN "closed" ELSE phase[s]]
    BY <1>1 DEF TypeOK, phase, Phase
  <2>2. revised' = revised /\ {r} # {}
    BY DEF revised
  <2> QED BY <2>1, <2>2 DEF Contract!Close, phase, revised
<1>2. CASE Phase(r)' = Phase(r)
  <2>1. phase' = phase /\ revised' = revised
    BY <1>2, PhaseStep DEF revised
  <2> QED BY <2>1 DEF Contract!vars, phase, revised
<1> QED BY <1>1, <1>2

LEMMA ContractInit == Init => Contract!Init
<1> SUFFICES ASSUME Init PROVE Contract!Init
  OBVIOUS
<1>1. \A r \in Runs : Phase(r) = "idle" /\ (attempt[r] = 1) = FALSE
  BY DEF Init, Phase, Ended
<1> QED BY <1>1 DEF Init, Contract!Init, Contract!NoProposal, NoProposal

LEMMA ContractStep == TypeInv /\ GateInv /\ [Next]_vars => [Contract!Next]_(Contract!vars)
<1> SUFFICES ASSUME TypeInv, GateInv, [Next]_vars
             PROVE  Contract!Next \/ UNCHANGED Contract!vars
  OBVIOUS
<1> USE DEF TypeInv
<1>a. /\ pc \in [Runs -> Live \cup Ended] /\ attempt \in [Runs -> {0, 1}]
      /\ proposal \in [Runs -> Proposal] /\ calls \in [Runs -> Seq(Call)]
  BY DEF TypeOK
<1>1. ASSUME NEW r \in Runs, NEW to, pc' = [pc EXCEPT ![r] = to],
             to \in Ended \/ Phase(r)' = Phase(r),
             UNCHANGED <<attempt, proposal, calls>>
      PROVE  Contract!Next \/ UNCHANGED Contract!vars
  <2>1. Contract!Close({r}) \/ UNCHANGED Contract!vars
    BY <1>1, QuietStep
  <2>2. {r} \in SUBSET Runs
    OBVIOUS
  <2> QED BY <2>1, <2>2 DEF Contract!Next
<1>2. ASSUME NEW r \in Runs,
             \/ Begin(r) \/ detect(r) \/ connection_tables(r)
             \/ baseline_precondition(r) \/ inspect(r) \/ InvalidAnswer(r)
      PROVE  Contract!Next \/ UNCHANGED Contract!vars
  <2>1. /\ pc[r] \in Early \ {"gate"}
        /\ \E to \in (Early \ {"gate"}) \cup Ended : pc' = [pc EXCEPT ![r] = to]
        /\ UNCHANGED <<attempt, proposal, calls>>
    BY <1>2 DEF Begin, detect, connection_tables, baseline_precondition, inspect,
       InvalidAnswer, finish, Goto, gate, Early, Ended
  <2>2. PICK to \in (Early \ {"gate"}) \cup Ended : pc' = [pc EXCEPT ![r] = to]
    BY <2>1
  <2>3. to \in Ended \/ Phase(r)' = Phase(r)
    BY <1>a, <2>1, <2>2 DEF Phase, Early, Ended
  <2> QED BY <1>1, <2>1, <2>2, <2>3
<1>3. ASSUME NEW r \in Runs,
             \/ (\E ok \in BOOLEAN : WriteReturns(r, ok))
             \/ PollAnswered(r) \/ Recheck(r) \/ Raise(r)
      PROVE  Contract!Next \/ UNCHANGED Contract!vars
  <2>1. /\ \/ /\ pc[r] \in {"sent", "poll", "recheck"}
              /\ \E to \in {"poll", "recheck", "done"} : pc' = [pc EXCEPT ![r] = to]
           \/ pc' = [pc EXCEPT ![r] = "raised"]
        /\ UNCHANGED <<attempt, proposal, calls>>
    BY <1>3 DEF WriteReturns, PollAnswered, SyncPending, SyncEnded, SyncTimedOut, Recheck,
       Raise, Goto, finish, gate
  <2>2. PICK to \in {"poll", "recheck"} \cup Ended :
             /\ pc' = [pc EXCEPT ![r] = to]
             /\ to \in Ended \/ pc[r] \in {"sent", "poll", "recheck"}
    BY <2>1 DEF Ended
  <2>3. to \in Ended \/ Phase(r)' = Phase(r)
    BY <1>a, <2>2 DEF Phase, Ended
  <2> QED BY <1>1, <2>1, <2>2, <2>3
<1>4. ASSUME NEW S \in SUBSET Runs, Cancel(S)
      PROVE  Contract!Next \/ UNCHANGED Contract!vars
  <2>1. /\ S # {} /\ pc' = [r \in Runs |-> IF r \in S THEN "cancelled" ELSE pc[r]]
        /\ UNCHANGED <<attempt, proposal, calls>>
    BY <1>4 DEF Cancel, gate
  <2>2. /\ phase' = [r \in Runs |-> IF r \in S THEN "closed" ELSE phase[r]]
        /\ revised' = revised
    BY <1>a, <2>1 DEF phase, revised, Phase, Ended
  <2>3. Contract!Close(S)
    BY <2>1, <2>2 DEF Contract!Close, phase, revised
  <2> QED BY <2>3 DEF Contract!Next
<1>5. ASSUME UNCHANGED vars PROVE Contract!Next \/ UNCHANGED Contract!vars
  BY <1>5, SamePhase DEF vars
<1>6. ASSUME NEW r \in Runs, Propose(r) PROVE Contract!Next \/ UNCHANGED Contract!vars
  <2>1. PICK p \in ModelOutputs : validate_payload(p) /\ proposal' = [proposal EXCEPT ![r] = p]
    BY <1>6 DEF Propose
  <2>2. /\ pc[r] = "diagnose" /\ pc' = [pc EXCEPT ![r] = "gate"]
        /\ UNCHANGED <<attempt, calls>>
    BY <1>6 DEF Propose, Goto
  <2>3. /\ phase[r] = "idle" /\ phase' = [phase EXCEPT ![r] = "offered"]
        /\ revised' = revised
    BY <1>a, <2>2 DEF phase, revised, Phase, Ended
  <2>4. Contract!Offer(r)
    BY <2>1, <2>2, <2>3 DEF Contract!Offer, phase, revised, Contract!validate_payload,
       validate_payload, Contract!VALID_ACTIONS, VALID_ACTIONS
  <2> QED BY <2>4 DEF Contract!Next
<1>7. ASSUME NEW r \in Runs, NEW d \in Decisions, Decide(r, d)
      PROVE  Contract!Next \/ UNCHANGED Contract!vars
  <2>0. UNCHANGED calls
    BY <1>7 DEF Decide
  <2>1. ASSUME NEW p \in Proposal, validate_payload(p), Accept(r, p),
               p = IF d.decision = "modified" THEN candidate(r, d) ELSE proposal[r]
        PROVE  Contract!Next
    <3>1. /\ pc[r] = "gate" /\ pc' = [pc EXCEPT ![r] = "pre"]
          /\ proposal' = [proposal EXCEPT ![r] = p] /\ UNCHANGED attempt
      BY <2>1 DEF Accept, Goto
    <3>2. /\ phase[r] = "offered" /\ phase' = [phase EXCEPT ![r] = "cleared"]
          /\ revised' = revised
      BY <1>a, <3>1 DEF phase, revised, Phase, Ended
    <3>3. CASE d.decision # "modified"
      <4>1. proposal' = proposal
        BY <1>a, <2>1, <3>1, <3>3
      <4>2. Contract!Clear(r)
        BY <2>0, <3>2, <4>1 DEF Contract!Clear, phase, revised
      <4> QED BY <4>2 DEF Contract!Next
    <3>4. CASE d.decision = "modified"
      <4> DEFINE T == (d.targets \cap tables[r]) \cap KnownTables
      <4>1. p = [proposal[r] EXCEPT !.targets = T] /\ T \in SUBSET KnownTables
        BY <2>1, <3>4 DEF candidate
      <4>2. proposal' = [proposal EXCEPT ![r].targets = T]
        BY <1>a, <3>1, <4>1
      <4>3. Contract!validate_payload([proposal[r] EXCEPT !.targets = T])
        BY <2>1, <4>1 DEF Contract!validate_payload, validate_payload,
           Contract!VALID_ACTIONS, VALID_ACTIONS
      <4> HIDE DEF T
      <4>4. Contract!ClearNarrowed(r)
        BY <2>0, <3>2, <4>1, <4>2, <4>3 DEF Contract!ClearNarrowed, phase, revised
      <4> QED BY <4>4 DEF Contract!Next
    <3> QED BY <3>3, <3>4
  <2>2. CASE Refuse(r)
    <3>1. /\ pc[r] = "gate"
          /\ pc' = [pc EXCEPT ![r] = IF attempt[r] = 0 THEN "diagnose" ELSE "done"]
          /\ attempt' = [attempt EXCEPT ![r] = 1] /\ UNCHANGED proposal
      BY <2>2 DEF Refuse, finish, Goto
    <3>2. /\ phase[r] = "offered"
          /\ phase' = [phase EXCEPT ![r] = IF revised[r] THEN "closed" ELSE "idle"]
          /\ revised' = [revised EXCEPT ![r] = TRUE]
      <4>1. revised[r] = (attempt[r] = 1)
        BY DEF revised
      <4>2. phase[r] = "offered"
        BY <3>1 DEF phase, Phase, Ended
      <4>3. phase' = [phase EXCEPT ![r] = IF revised[r] THEN "closed" ELSE "idle"]
        <5>1. phase' = [phase EXCEPT ![r] = IF attempt[r] = 1 THEN "closed" ELSE "idle"]
          <6>1. CASE attempt[r] = 0
            <7>1. pc' = [pc EXCEPT ![r] = "diagnose"]
              BY <3>1, <6>1
            <7>2. phase' = [phase EXCEPT ![r] = "idle"]
              BY <1>a, <7>1 DEF phase, Phase, Ended
            <7> QED BY <6>1, <7>2
          <6>2. CASE attempt[r] = 1
            <7>1. pc' = [pc EXCEPT ![r] = "done"]
              BY <3>1, <6>2
            <7>2. phase' = [phase EXCEPT ![r] = "closed"]
              BY <1>a, <7>1 DEF phase, Phase, Ended
            <7> QED BY <6>2, <7>2
          <6> QED BY <1>a, <6>1, <6>2
        <5> QED BY <4>1, <5>1, Zenon
      <4>4. \A s \in Runs : (attempt'[s] = 1) = IF s = r THEN TRUE ELSE attempt[s] = 1
        BY <1>a, <3>1
      <4>5. revised' = [revised EXCEPT ![r] = TRUE]
        BY <4>4 DEF revised
      <4> QED BY <4>2, <4>3, <4>5, Zenon
    <3>3. Contract!Refuse(r)
      BY <2>0, <3>1, <3>2 DEF Contract!Refuse, phase, revised
    <3> QED BY <3>3 DEF Contract!Next
  <2> QED BY <1>7, <2>1, <2>2, DecideOutcome
<1>8. ASSUME NEW r \in Runs, ReadMarkers(r) PROVE Contract!Next \/ UNCHANGED Contract!vars
  <2>1. /\ pc[r] = "pre" /\ UNCHANGED <<attempt, proposal, calls>>
        /\ \/ proposal[r].action = "manual" /\ pc' = [pc EXCEPT ![r] = "recheck"]
           \/ pc' = [pc EXCEPT ![r] = "act"]
    BY <1>8 DEF ReadMarkers, Goto, gate
  <2>2. CASE proposal[r].action = "manual" /\ pc' = [pc EXCEPT ![r] = "recheck"]
    <3>1. /\ phase[r] = "cleared" /\ phase' = [phase EXCEPT ![r] = "acted"]
          /\ revised' = revised
      BY <1>a, <2>1, <2>2 DEF phase, revised, Phase, Ended
    <3>2. Contract!Execute(r)
      BY <2>1, <2>2, <3>1 DEF Contract!Execute, phase, revised
    <3> QED BY <3>2 DEF Contract!Next
  <2>3. CASE pc' = [pc EXCEPT ![r] = "act"]
    <3>1. Phase(r)' = Phase(r)
      BY <1>a, <2>1, <2>3 DEF Phase, Ended
    <3> QED BY <1>1, <2>1, <2>3, <3>1
  <2> QED BY <2>1, <2>2, <2>3
<1>9. ASSUME NEW r \in Runs, SendWrite(r) PROVE Contract!Next \/ UNCHANGED Contract!vars
  <2>1. /\ pc[r] = "act" /\ pc' = [pc EXCEPT ![r] = "sent"]
        /\ calls' = [calls EXCEPT ![r] = Append(@, planned_call(proposal[r]))]
        /\ UNCHANGED <<attempt, proposal>>
    BY <1>9 DEF SendWrite, Goto, gate
  <2>2. proposal[r].action # "manual"
    BY <2>1 DEF ValidInv
  <2>3. /\ phase[r] = "cleared" /\ phase' = [phase EXCEPT ![r] = "acted"]
        /\ revised' = revised
    BY <1>a, <2>1 DEF phase, revised, Phase, Ended
  <2>4. Contract!planned_call(proposal[r]) = planned_call(proposal[r])
    BY DEF Contract!planned_call, planned_call, Contract!request_body, request_body,
       Contract!ACTION_TO_TOOL, ACTION_TO_TOOL, Contract!NoCall, NoCall
  <2>5. Contract!Execute(r)
    BY <2>1, <2>2, <2>3, <2>4 DEF Contract!Execute, phase, revised
  <2> QED BY <2>5 DEF Contract!Next
<1> QED
  BY <1>2, <1>3, <1>4, <1>5, <1>6, <1>7, <1>8, <1>9 DEF Next, Step, Diagnose

\* Every behaviour of the loop, for any runs, tables, model answers, decisions and
\* service failures, is one the gate contract allows: no more than two offers, a
\* write only of a cleared plan, as its call, and once (loop.py:247-297).
THEOREM LoopKeepsContract == Spec => GateKept
<1>1. Init => Contract!Init
  BY ContractInit
<1>2. TypeInv /\ GateInv /\ [Next]_vars => [Contract!Next]_(Contract!vars)
  BY ContractStep
<1> QED BY <1>1, <1>2, GateInvariant, PTL DEF Spec, GateKept, Contract!Spec
-----------------------------------------------------------------------------
(* The poll contract.                                                      *)

wait == [r \in Runs |-> Wait(r)]

\* A run is yet to wait until the tool has answered its write.
BeforeWaiting == Early \cup {"pre", "act", "sent"}

\* A run that moves without a poll is still before its wait, or has no wait to come.
LEMMA NoPollStep ==
    ASSUME TypeOK, NEW r \in Runs, NEW to, pc' = [pc EXCEPT ![r] = to],
           \/ to \in {"recheck"} \cup Ended
           \/ pc[r] \in BeforeWaiting /\ to \in BeforeWaiting,
           UNCHANGED <<polls, poll>>
    PROVE  Polling!Next \/ UNCHANGED Polling!vars
<1>1. CASE to \in {"recheck"} \cup Ended
  <2>1. wait' = [s \in Runs |-> IF s \in {r} THEN "over" ELSE wait[s]]
    BY <1>1 DEF TypeOK, wait, Wait, Ended
  <2>2. Polling!Leave({r}) /\ {r} \in SUBSET Runs
    BY <2>1 DEF Polling!Leave, wait
  <2> QED BY <2>2 DEF Polling!Next
<1>2. CASE pc[r] \in BeforeWaiting /\ to \in BeforeWaiting
  <2>1. wait' = wait
    BY <1>2 DEF TypeOK, wait, Wait, BeforeWaiting, Early, Ended
  <2> QED BY <2>1 DEF Polling!vars, wait
<1> QED BY <1>1, <1>2

\* One poll answered: the contract's, result by result.
LEMMA PollAnsweredStep ==
    ASSUME TypeOK, NEW r \in Runs, PollAnswered(r)
    PROVE  Polling!Next
<1>1. /\ pc[r] = "poll" /\ wait[r] = "waiting"
      /\ polls' = [polls EXCEPT ![r] = polls[r] + 1] /\ polls[r] \in Nat
  BY DEF PollAnswered, SyncPending, SyncEnded, SyncTimedOut, finish, Goto, wait, Wait, TypeOK
<1>2. CASE SyncPending(r)
  <2>1. wait' = wait
    BY <1>1, <1>2 DEF SyncPending, Goto, TypeOK, wait, Wait
  <2>2. polls[r] < MaxPolls
    BY <1>1, <1>2, MaxPollsAssumption DEF SyncPending
  <2>3. Polling!PollAgain(r)
    BY <1>1, <1>2, <2>1, <2>2 DEF SyncPending, Polling!PollAgain, wait
  <2> QED BY <2>3 DEF Polling!Next
<1>3. ASSUME NEW result \in Polling!Results, NEW to \in {"recheck", "done"},
             pc' = [pc EXCEPT ![r] = to], poll' = [poll EXCEPT ![r] = result]
      PROVE  Polling!Next
  <2>1. wait' = [wait EXCEPT ![r] = "over"]
    BY <1>1, <1>3 DEF TypeOK, wait, Wait, Ended
  <2>2. Polling!Tell(r, result)
    BY <1>1, <1>3, <2>1 DEF Polling!Tell, wait
  <2> QED BY <2>2 DEF Polling!Next
<1>4. ASSUME NEW result \in {"synced", "failed"}, SyncEnded(r, result) PROVE Polling!Next
  BY <1>3, <1>4 DEF SyncEnded, Goto, Polling!Results
<1>5. CASE SyncTimedOut(r)
  BY <1>3, <1>5 DEF SyncTimedOut, finish, Goto, Polling!Results
<1> QED BY <1>2, <1>4, <1>5 DEF PollAnswered

LEMMA PollingStep == TypeInv /\ [Next]_vars => [Polling!Next]_(Polling!vars)
<1> SUFFICES ASSUME TypeInv, [Next]_vars PROVE Polling!Next \/ UNCHANGED Polling!vars
  OBVIOUS
<1>a. TypeOK
  BY DEF TypeInv
<1>1. ASSUME NEW r \in Runs,
             \/ Begin(r) \/ detect(r) \/ connection_tables(r)
             \/ baseline_precondition(r) \/ inspect(r) \/ InvalidAnswer(r) \/ Propose(r)
      PROVE  Polling!Next \/ UNCHANGED Polling!vars
  <2>1. /\ pc[r] \in Early
        /\ \E to \in Early \cup Ended : pc' = [pc EXCEPT ![r] = to]
        /\ UNCHANGED <<polls, poll>>
    BY <1>1 DEF Begin, detect, connection_tables, baseline_precondition, inspect,
       InvalidAnswer, Propose, finish, Goto, sync, Early, Ended
  <2> QED BY <1>a, <2>1, NoPollStep DEF BeforeWaiting
<1>2. ASSUME NEW r \in Runs, NEW d \in Decisions, Decide(r, d)
      PROVE  Polling!Next \/ UNCHANGED Polling!vars
  <2>1. /\ pc[r] = "gate"
        /\ \E to \in {"pre", "diagnose", "done"} : pc' = [pc EXCEPT ![r] = to]
        /\ UNCHANGED <<polls, poll>>
    BY <1>2 DEF Decide, Accept, Refuse, finish, Goto, sync
  <2> QED BY <1>a, <2>1, NoPollStep DEF BeforeWaiting, Early, Ended
<1>3. ASSUME NEW r \in Runs, ReadMarkers(r) \/ SendWrite(r) \/ Recheck(r) \/ Raise(r)
      PROVE  Polling!Next \/ UNCHANGED Polling!vars
  <2>1. /\ \E to \in {"act", "sent", "recheck", "done", "raised"} :
               /\ pc' = [pc EXCEPT ![r] = to]
               /\ to \in {"act", "sent"} => pc[r] \in {"pre", "act"}
        /\ UNCHANGED <<polls, poll>>
    BY <1>3 DEF ReadMarkers, SendWrite, Recheck, Raise, finish, Goto, sync
  <2> QED BY <1>a, <2>1, NoPollStep DEF BeforeWaiting, Ended
<1>4. ASSUME NEW r \in Runs, NEW ok \in BOOLEAN, WriteReturns(r, ok)
      PROVE  Polling!Next \/ UNCHANGED Polling!vars
  <2>1. /\ pc[r] = "sent" /\ pc' = [pc EXCEPT ![r] = IF ok THEN "poll" ELSE "recheck"]
        /\ UNCHANGED <<polls, poll>>
    BY <1>4 DEF WriteReturns, Goto, sync
  <2>2. CASE ok
    <3>1. wait[r] = "before" /\ wait' = [wait EXCEPT ![r] = "waiting"]
      BY <1>a, <2>1, <2>2 DEF TypeOK, wait, Wait, Ended
    <3>2. Polling!StartWaiting(r)
      BY <2>1, <3>1 DEF Polling!StartWaiting, wait
    <3> QED BY <3>2 DEF Polling!Next
  <2>3. CASE ~ ok
    BY <1>a, <2>1, <2>3, NoPollStep
  <2> QED BY <2>2, <2>3
<1>5. ASSUME NEW S \in SUBSET Runs, Cancel(S) PROVE Polling!Next
  <2>1. /\ pc' = [r \in Runs |-> IF r \in S THEN "cancelled" ELSE pc[r]]
        /\ UNCHANGED <<polls, poll>>
    BY <1>5 DEF Cancel, sync
  <2>2. wait' = [r \in Runs |-> IF r \in S THEN "over" ELSE wait[r]]
    BY <1>a, <2>1 DEF TypeOK, wait, Wait, Ended
  <2>3. Polling!Leave(S)
    BY <2>1, <2>2 DEF Polling!Leave, wait
  <2> QED BY <2>3 DEF Polling!Next
<1>6. CASE UNCHANGED vars
  BY <1>6 DEF vars, sync, Polling!vars, Wait
<1> QED BY <1>a, <1>1, <1>2, <1>3, <1>4, <1>5, <1>6, PollAnsweredStep DEF Next, Step, Diagnose

\* The loop waits, polls and has its result as the poll contract allows, which is
\* what it takes of a poll whose outcome it leaves open (loop.py:292-307).
THEOREM LoopKeepsPollContract == Spec => WaitKept
<1>1. Init => Polling!Init
  <2>1. ASSUME Init PROVE \A r \in Runs : Wait(r) = "before"
    BY <2>1 DEF Init, Wait, Ended
  <2> QED BY <2>1 DEF Init, Polling!Init
<1>2. TypeInv /\ [Next]_vars => [Polling!Next]_(Polling!vars)
  BY PollingStep
<1> QED BY <1>1, <1>2, GateInvariant, PTL DEF Spec, WaitKept, Polling!Spec
==============================================================================
