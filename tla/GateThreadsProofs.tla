--------------------------- MODULE GateThreadsProofs ---------------------------
(***************************************************************************)
(* Theorems about GateThreads, for any number of calls from any number of  *)
(* threads, and any number of gate entries.                                *)
(***************************************************************************)
EXTENDS GateThreads, TLAPS

Holding == {"read", "open", "free", "latched", "ok"}

\* The gate is open exactly while approval() is between its two ends; what a call
\* holds is the future of an entry there has been; what was scheduled, and what a
\* future has got, comes from a call that holds that future and was told ok.
HeldInv ==
    /\ loop \in {"arming", "parked"} => approval_future = entry
    /\ loop \in {"working", "left"} => approval_future = 0
    /\ \A c \in Calls : pc[c] \in Holding => fut[c] \in 1 .. entry
    /\ \A i \in DOMAIN ready : pc[ready[i]] = "ok"
    /\ \A g \in Futures : result[g] # NoCall =>
          pc[result[g]] = "ok" /\ fut[result[g]] = g

\* An ok is kept: its callback is in the queue, or its future has a result.
KeptInv ==
    \A c \in Calls : pc[c] = "ok" =>
        (\E i \in DOMAIN ready : ready[i] = c) \/ result[fut[c]] # NoCall

\* A latch that was not set late was set by a call of the present entry.
LatchInv ==
    loop = "parked" /\ decision_submitted /\ ~ late =>
        \E c \in Calls : fut[c] = entry /\ pc[c] \in {"latched", "ok"}

ThreadInv == TypeOK /\ HeldInv /\ KeptInv /\ LatchInv

LEMMA ThreadInit == Init => ThreadInv
<1> SUFFICES ASSUME Init PROVE ThreadInv
  OBVIOUS
<1>1. ready = << >> /\ ready \in Seq(Calls)
  BY DEF Init
<1>2. TypeOK
  <2>1. /\ entry \in 0 .. MaxEntries /\ approval_future \in {0, entry}
        /\ fut \in [Calls -> 0 .. entry]
    BY MaxEntriesAssumption DEF Init
  <2>2. /\ result \in [Futures -> Calls \cup {NoCall}]
        /\ pc \in [Calls -> {"called", "read", "open", "free", "latched", "ok", "refused"}]
        /\ loop \in {"working", "arming", "parked", "left"}
    BY DEF Init
  <2>3. decision_submitted \in BOOLEAN /\ late \in BOOLEAN
    BY DEF Init
  <2> QED BY <1>1, <2>1, <2>2, <2>3 DEF TypeOK
<1>3. HeldInv /\ KeptInv /\ LatchInv
  BY <1>1 DEF Init, HeldInv, KeptInv, LatchInv, Holding
<1> QED BY <1>2, <1>3 DEF ThreadInv

\* The loop's thread.
LEMMA LoopStep ==
    ASSUME ThreadInv, OpenGate \/ Arm \/ Resume \/ Leave
    PROVE  ThreadInv'
<1> USE MaxEntriesAssumption DEF ThreadInv
<1>1. UNCHANGED <<result, ready, pc, fut>>
  BY DEF OpenGate, Arm, Resume, Leave, calls
<1>2. /\ entry' \in entry .. MaxEntries
      /\ entry' # entry => loop' = "arming"
      /\ loop' \in {"arming", "parked"} => approval_future' = entry'
      /\ loop' \in {"working", "left"} => approval_future' = 0
      /\ loop' \in {"working", "arming", "parked", "left"}
  BY DEF OpenGate, Arm, Resume, Leave, TypeOK, HeldInv
<1>3. decision_submitted' \in BOOLEAN /\ late' \in BOOLEAN
  BY DEF OpenGate, Arm, Resume, Leave, TypeOK, latch
<1>4. loop' = "parked" => ~ decision_submitted'
  BY DEF OpenGate, Arm, Resume, Leave, TypeOK
<1>5. TypeOK'
  BY <1>1, <1>2, <1>3 DEF TypeOK, Futures
<1>6. HeldInv'
  BY <1>1, <1>2 DEF TypeOK, HeldInv, Holding
<1>7. KeptInv' /\ LatchInv'
  BY <1>1, <1>4 DEF KeptInv, LatchInv
<1> QED BY <1>5, <1>6, <1>7

LEMMA CallbackStep == ThreadInv /\ safe_set_result => ThreadInv'
<1> SUFFICES ASSUME ThreadInv, safe_set_result PROVE ThreadInv'
  OBVIOUS
<1> USE MaxEntriesAssumption, NoCallAssumption DEF ThreadInv
<1> DEFINE c == Head(ready)
<1>1. /\ ready # << >> /\ ready' = Tail(ready) /\ ready \in Seq(Calls)
      /\ result' = IF result[fut[c]] = NoCall
                   THEN [result EXCEPT ![fut[c]] = c] ELSE result
      /\ UNCHANGED <<loop, entry, approval_future, decision_submitted, late, pc, fut>>
  BY DEF safe_set_result, TypeOK, run, latch, calls
<1>2. c = ready[1] /\ c \in Calls /\ 1 \in DOMAIN ready
  BY <1>1
<1>3. pc[c] = "ok" /\ fut[c] \in Futures
  BY <1>1, <1>2 DEF HeldInv, Holding, TypeOK, Futures
<1>4. /\ DOMAIN ready' = 1 .. Len(ready) - 1
      /\ \A i \in DOMAIN ready' : ready'[i] = ready[i + 1] /\ i + 1 \in DOMAIN ready
      /\ \A i \in DOMAIN ready : i = 1 \/ (i - 1 \in DOMAIN ready' /\ ready'[i - 1] = ready[i])
  BY <1>1
<1>5. /\ result' \in [Futures -> Calls \cup {NoCall}]
      /\ result'[fut[c]] # NoCall
      /\ \A g \in Futures : \/ result'[g] = result[g]
                            \/ g = fut[c] /\ result'[g] = c
      /\ \A g \in Futures : result[g] # NoCall => result'[g] # NoCall
  BY <1>1, <1>2, <1>3 DEF TypeOK
<1> HIDE DEF c
<1>6. TypeOK'
  BY <1>1, <1>5 DEF TypeOK, Futures
<1>7. HeldInv'
  BY <1>1, <1>3, <1>4, <1>5 DEF HeldInv
<1>8. KeptInv'
  <2> SUFFICES ASSUME NEW d \in Calls, pc[d] = "ok"
               PROVE  (\E i \in DOMAIN ready' : ready'[i] = d) \/ result'[fut[d]] # NoCall
    BY <1>1 DEF KeptInv
  <2>1. fut[d] \in Futures
    BY DEF HeldInv, Holding, TypeOK, Futures
  <2>2. CASE \E i \in DOMAIN ready : ready[i] = d
    <3>1. PICK i \in DOMAIN ready : ready[i] = d
      BY <2>2
    <3> QED BY <1>2, <1>4, <1>5, <3>1
  <2>3. CASE result[fut[d]] # NoCall
    BY <1>5, <2>1, <2>3
  <2> QED BY <2>2, <2>3 DEF KeptInv
<1>9. LatchInv'
  BY <1>1 DEF LatchInv
<1> QED BY <1>6, <1>7, <1>8, <1>9

LEMMA CallStep ==
    ASSUME ThreadInv, NEW c \in Calls, submit_decision(c)
    PROVE  ThreadInv'
<1> USE MaxEntriesAssumption, NoCallAssumption DEF ThreadInv
<1>a. /\ pc \in [Calls -> {"called", "read", "open", "free", "latched", "ok", "refused"}]
      /\ fut \in [Calls -> 0 .. entry] /\ entry \in 0 .. MaxEntries
  BY DEF TypeOK
<1>1. CASE ReadFuture(c)
  <2>1. /\ pc[c] = "called"
        /\ pc' = [pc EXCEPT ![c] = IF approval_future = 0 THEN "refused" ELSE "read"]
        /\ fut' = [fut EXCEPT ![c] = approval_future]
        /\ approval_future \in 0 .. entry
        /\ UNCHANGED <<loop, entry, approval_future, result, decision_submitted, late, ready>>
    BY <1>1 DEF ReadFuture, Goto, run, latch, TypeOK
  <2>2. /\ \A d \in Calls \ {c} : pc'[d] = pc[d] /\ fut'[d] = fut[d]
        /\ pc'[c] \in {"refused", "read"} /\ (pc'[c] = "read" => fut'[c] \in 1 .. entry)
    BY <1>a, <2>1
  <2>3. TypeOK'
    BY <1>a, <2>1 DEF TypeOK
  <2>4. HeldInv'
    BY <2>1, <2>2 DEF TypeOK, HeldInv, Holding
  <2>5. KeptInv' /\ LatchInv'
    BY <2>1, <2>2 DEF KeptInv, LatchInv
  <2> QED BY <2>3, <2>4, <2>5
<1>2. CASE TestDone(c) \/ TestLatch(c)
  <2>1. /\ pc[c] \in {"read", "open"}
        /\ \E to \in {"refused", "open", "free"} : pc' = [pc EXCEPT ![c] = to]
        /\ UNCHANGED <<loop, entry, approval_future, result, decision_submitted, late,
                       ready, fut>>
    BY <1>2 DEF TestDone, TestLatch, Goto, run, latch
  <2>2. TypeOK'
    BY <1>a, <2>1 DEF TypeOK
  <2>3. HeldInv' /\ KeptInv' /\ LatchInv'
    BY <1>a, <2>1 DEF TypeOK, HeldInv, KeptInv, LatchInv, Holding
  <2> QED BY <2>2, <2>3
<1>3. CASE SetLatch(c)
  <2>1. /\ pc[c] = "free" /\ pc' = [pc EXCEPT ![c] = "latched"]
        /\ decision_submitted' = TRUE /\ late' = (fut[c] # approval_future)
        /\ UNCHANGED <<loop, entry, approval_future, result, ready, fut>>
    BY <1>3 DEF SetLatch, Goto, run
  <2>2. TypeOK'
    BY <1>a, <2>1 DEF TypeOK
  <2>3. HeldInv' /\ KeptInv'
    BY <1>a, <2>1 DEF TypeOK, HeldInv, KeptInv, Holding
  <2>4. LatchInv'
    <3>1. pc'[c] = "latched"
      BY <1>a, <2>1
    <3>2. ASSUME loop = "parked", ~ late' PROVE fut'[c] = entry
      BY <2>1, <3>2 DEF HeldInv
    <3> QED BY <2>1, <3>1, <3>2 DEF LatchInv
  <2> QED BY <2>2, <2>3, <2>4
<1>4. CASE Schedule(c)
  <2>1. /\ pc[c] = "latched" /\ pc' = [pc EXCEPT ![c] = "ok"]
        /\ ready' = Append(ready, c) /\ ready \in Seq(Calls)
        /\ UNCHANGED <<loop, entry, approval_future, result, decision_submitted, late, fut>>
    BY <1>4 DEF Schedule, Goto, run, latch, TypeOK
  <2>2. /\ DOMAIN ready' = 1 .. Len(ready) + 1
        /\ ready'[Len(ready) + 1] = c
        /\ \A i \in DOMAIN ready : i \in DOMAIN ready' /\ ready'[i] = ready[i]
        /\ \A i \in DOMAIN ready' : i \in DOMAIN ready \/ ready'[i] = c
    BY <2>1
  <2>3. pc'[c] = "ok" /\ \A d \in Calls \ {c} : pc'[d] = pc[d]
    BY <1>a, <2>1
  <2>4. TypeOK'
    BY <1>a, <2>1 DEF TypeOK
  <2>5. HeldInv'
    <3>1. \A i \in DOMAIN ready' : pc'[ready'[i]] = "ok"
      BY <2>1, <2>2, <2>3 DEF HeldInv
    <3>2. \A g \in Futures : result[g] # NoCall => pc'[result[g]] = "ok"
      BY <2>1, <2>3 DEF HeldInv, TypeOK
    <3> QED BY <2>1, <2>3, <3>1, <3>2 DEF HeldInv, Holding
  <2>6. KeptInv'
    <3> SUFFICES ASSUME NEW d \in Calls, pc'[d] = "ok"
                 PROVE  (\E i \in DOMAIN ready' : ready'[i] = d) \/ result[fut[d]] # NoCall
      BY <2>1 DEF KeptInv
    <3>1. CASE d = c
      <4>1. Len(ready) + 1 \in DOMAIN ready'
        BY <2>1, <2>2
      <4> QED BY <2>2, <3>1, <4>1
    <3>2. CASE d # c
      BY <2>2, <2>3, <3>2 DEF KeptInv
    <3> QED BY <3>1, <3>2
  <2>7. LatchInv'
    BY <2>1, <2>3 DEF LatchInv
  <2> QED BY <2>4, <2>5, <2>6, <2>7
<1> QED BY <1>1, <1>2, <1>3, <1>4 DEF submit_decision

LEMMA ThreadStep == ThreadInv /\ [Next]_vars => ThreadInv'
<1>1. ASSUME ThreadInv, UNCHANGED vars PROVE ThreadInv'
  BY <1>1 DEF ThreadInv, vars, TypeOK, HeldInv, KeptInv, LatchInv
<1> QED BY <1>1, LoopStep, CallbackStep, CallStep DEF Next

LEMMA ThreadInvariant == Spec => []ThreadInv
<1> QED BY ThreadInit, ThreadStep, PTL DEF Spec

\* The gate, its latch, its queue and what the calls hold keep their types.
THEOREM ThreadTypeCorrect == Spec => []TypeOK
<1>1. ThreadInv => TypeOK
  BY DEF ThreadInv
<1> QED BY <1>1, ThreadInvariant, PTL

\* However many threads race, and however late each of them is, a future gets the
\* decision of a call that was made while its gate entry was open (runs.py:217, 224).
THEOREM DecisionsStayAtTheirGate == Spec => []AnswersItsGate
<1>1. ThreadInv => AnswersItsGate
  BY DEF ThreadInv, HeldInv, AnswersItsGate
<1> QED BY <1>1, ThreadInvariant, PTL

\* The latch keeps every decision out of an open gate only after a call of an
\* earlier entry came late to it (runs.py:103-104, 218-224).
THEOREM OnlyLateCallsWedge == Spec => []WedgeNeedsALateCall
<1>1. ASSUME ThreadInv, Wedged, ~ late PROVE FALSE
  <2>1. PICK c \in Calls : fut[c] = entry /\ pc[c] \in {"latched", "ok"}
    BY <1>1 DEF ThreadInv, LatchInv, Wedged
  <2>2. pc[c] = "ok"
    BY <1>1, <2>1 DEF Wedged
  <2> QED BY <1>1, <2>1, <2>2 DEF ThreadInv, KeptInv, Wedged
<1>2. ThreadInv => WedgeNeedsALateCall
  BY <1>1 DEF WedgeNeedsALateCall
<1> QED BY <1>2, ThreadInvariant, PTL
=============================================================================
