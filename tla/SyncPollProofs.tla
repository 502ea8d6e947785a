--------------------------- MODULE SyncPollProofs ---------------------------
(***************************************************************************)
(* The meaning of a poll's result, for every number of runs and syncs and  *)
(* every interval, timeout and latency.                                    *)
(***************************************************************************)
EXTENDS SyncPoll, TLAPS

\* Markers only move forward: a sync under way is newer than both of them.
ConnectionInv ==
    /\ markers.succeeded_at <= syncs /\ markers.failed_at <= syncs
    /\ running # 0 => markers.succeeded_at < running /\ markers.failed_at < running

\* What a run at an await knows: the syncs that ended meanwhile are newer than
\* its markers, and if those are right, a marker moved only by such a sync.
WaitInv(r) ==
    /\ base[r].succeeded_at <= markers.succeeded_at
    /\ base[r].failed_at <= markers.failed_at
    /\ outcome[r] = "none"
    /\ \A i \in ended[r].succeeded :
          base[r].succeeded_at < i /\ i <= markers.succeeded_at
    /\ \A i \in ended[r].failed :
          base[r].failed_at < i /\ i <= markers.failed_at
    /\ ~ misread[r].markers =>
          /\ markers.succeeded_at \in {base[r].succeeded_at} \cup ended[r].succeeded
          /\ markers.failed_at \in {base[r].failed_at} \cup ended[r].failed

\* A poll to come still fits in the timeout.
ClockInv(r) ==
    /\ pc[r] \in {"pre", "act", "sent"} => polls[r] = 0 /\ elapsed[r] = 0
    /\ pc[r] = "poll" => polls[r] * Interval <= elapsed[r] /\ elapsed[r] <= Timeout

ResultInv(r) ==
    /\ outcome[r] = "synced" => ended[r].failed = {}
    /\ outcome[r] = "timed_out" /\ ~ misread[r].poll =>
          ended[r].succeeded = {} /\ ended[r].failed = {}
    /\ ~ misread[r].markers =>
          /\ outcome[r] = "synced" => ended[r].succeeded # {}
          /\ outcome[r] = "failed" => ended[r].failed # {}
    /\ (polls[r] - 1) * Interval <= Timeout

SyncInv ==
    /\ TypeOK
    /\ ConnectionInv
    /\ \A r \in Runs :
          /\ pc[r] = "pre" => /\ outcome[r] = "none"
                              /\ ended[r] = [succeeded |-> {}, failed |-> {}]
          /\ pc[r] \in Waiting => WaitInv(r)
          /\ ClockInv(r)
          /\ ResultInv(r)

LEMMA SyncInit == Init => SyncInv
<1> SUFFICES ASSUME Init PROVE SyncInv
  OBVIOUS
<1>1. TypeOK
  BY MaxSyncsAssumption DEF Init, TypeOK, Markers, NoMarkers
<1>2. ConnectionInv
  BY DEF Init, ConnectionInv, NoMarkers
<1>3. ASSUME NEW r \in Runs PROVE ClockInv(r) /\ ResultInv(r)
  <2>1. (0 - 1) * Interval <= Timeout
    BY TimingAssumption
  <2> QED BY <2>1, TimingAssumption DEF Init, ClockInv, ResultInv
<1> QED BY <1>1, <1>2, <1>3 DEF Init, SyncInv, Waiting

\* A run no variable of which changes keeps its part while the connection does.
LEMMA RunUntouched ==
    ASSUME SyncInv, NEW r \in Runs, UNCHANGED markers,
           pc'[r] = pc[r], base'[r] = base[r], polls'[r] = polls[r],
           elapsed'[r] = elapsed[r], outcome'[r] = outcome[r],
           ended'[r] = ended[r], misread'[r] = misread[r]
    PROVE  /\ (pc[r] = "pre" => /\ outcome[r] = "none"
                                /\ ended[r] = [succeeded |-> {}, failed |-> {}])'
           /\ (pc[r] \in Waiting => WaitInv(r))'
           /\ ClockInv(r)' /\ ResultInv(r)'
BY DEF SyncInv, WaitInv, ClockInv, ResultInv, Waiting

\* A sync that starts is newer than every marker.
LEMMA StartKeepsConnection ==
    ASSUME SyncInv, StartsSync
    PROVE  /\ ConnectionInv' /\ UNCHANGED markers
           /\ syncs' \in 0 .. MaxSyncs /\ running' \in 0 .. syncs'
           /\ syncs + 1 \in 0 .. MaxSyncs
BY MaxSyncsAssumption DEF SyncInv, TypeOK, Markers, ConnectionInv, StartsSync

\* What a details call brings back is never ahead of the markers.
LEMMA FieldsType ==
    ASSUME TypeOK, NEW answered \in BOOLEAN
    PROVE  /\ _sync_fields(answered) \in Markers
           /\ answered => _sync_fields(answered) = markers
           /\ ~ answered => _sync_fields(answered) = NoMarkers
BY MaxSyncsAssumption DEF TypeOK, Markers, NoMarkers, _sync_fields

\* When a sync ends, the runs that wait on one remember it.
LEMMA SyncEndsStep ==
    ASSUME SyncInv, NEW ok \in BOOLEAN, SyncEnds(ok)
    PROVE  SyncInv'
<1> USE DEF SyncInv
<1>1. running \in 1 .. MaxSyncs /\ running <= syncs
  BY MaxSyncsAssumption DEF TypeOK, SyncEnds
<1>2. markers' \in Markers
  BY <1>1 DEF TypeOK, Markers, SyncEnds
<1>3. ASSUME NEW r \in Runs
      PROVE  ended'[r] \in [succeeded : SUBSET (1 .. MaxSyncs),
                            failed : SUBSET (1 .. MaxSyncs)]
  BY <1>1 DEF TypeOK, SyncEnds
<1>4. ended' = [r \in Runs |-> ended'[r]]
  BY DEF SyncEnds
<1>5. TypeOK'
  <2>1. syncs' = syncs /\ running' = 0 /\ running' \in 0 .. syncs'
    BY <1>1 DEF TypeOK, SyncEnds
  <2>2. ended' \in [Runs -> [succeeded : SUBSET (1 .. MaxSyncs),
                            failed : SUBSET (1 .. MaxSyncs)]]
    BY <1>3, <1>4
  <2> QED BY <1>2, <2>1, <2>2 DEF TypeOK, SyncEnds
<1>6. ConnectionInv'
  BY <1>1 DEF TypeOK, Markers, ConnectionInv, SyncEnds
<1>7. ASSUME NEW r \in Runs, pc[r] \notin Waiting
      PROVE  ended'[r] = ended[r]
  BY <1>7 DEF SyncEnds
<1>8. ASSUME NEW r \in Runs, pc[r] \in Waiting
      PROVE  WaitInv(r)' /\ ResultInv(r)'
  <2>1. WaitInv(r) /\ ResultInv(r) /\ ConnectionInv
    BY <1>8
  <2>2. /\ base[r].succeeded_at \in Nat /\ base[r].failed_at \in Nat
        /\ markers.succeeded_at \in Nat /\ markers.failed_at \in Nat
        /\ ended[r].succeeded \subseteq Nat /\ ended[r].failed \subseteq Nat
        /\ running \in Nat
    BY <1>1 DEF TypeOK, Markers
  <2>3. CASE ok
    <3>1. /\ markers'.succeeded_at = running /\ markers'.failed_at = markers.failed_at
          /\ ended'[r].succeeded = ended[r].succeeded \cup {running}
          /\ ended'[r].failed = ended[r].failed
      BY <1>8, <2>3 DEF SyncEnds, TypeOK, Markers
    <3> QED BY <1>1, <2>1, <2>2, <3>1 DEF SyncEnds, WaitInv, ResultInv, ConnectionInv
  <2>4. CASE ~ ok
    <3>1. /\ markers'.failed_at = running
          /\ markers'.succeeded_at = markers.succeeded_at
          /\ ended'[r].failed = ended[r].failed \cup {running}
          /\ ended'[r].succeeded = ended[r].succeeded
      BY <1>8, <2>4 DEF SyncEnds, TypeOK, Markers
    <3> QED BY <1>1, <2>1, <2>2, <3>1 DEF SyncEnds, WaitInv, ResultInv, ConnectionInv
  <2> QED BY <2>3, <2>4
<1>9. ASSUME NEW r \in Runs PROVE ClockInv(r)'
  BY DEF SyncEnds, ClockInv
<1>10. ASSUME NEW r \in Runs, pc[r] \notin Waiting PROVE ResultInv(r)'
  BY <1>7, <1>10 DEF SyncEnds, ResultInv
<1>11. UNCHANGED <<pc, outcome>>
  BY DEF SyncEnds
<1> QED BY <1>5, <1>6, <1>7, <1>8, <1>9, <1>10, <1>11 DEF Waiting

\* A run reads its markers, writes, or hears of the write.
LEMMA BeforeThePoll ==
    ASSUME SyncInv, NEW r \in Runs,
           ReadMarkers(r) \/ SendWrite(r) \/ WriteReturns(r) \/ Raise(r)
    PROVE  SyncInv'
<1> USE DEF SyncInv
<1>1. ASSUME ReadMarkers(r) PROVE SyncInv'
  <2>1. PICK answered \in BOOLEAN :
           /\ base' = [base EXCEPT ![r] = _sync_fields(answered)]
           /\ misread' = [misread EXCEPT ![r].markers = ~ answered]
    BY <1>1 DEF ReadMarkers
  <2>2. /\ pc[r] = "pre" /\ pc' = [pc EXCEPT ![r] = "act"]
        /\ UNCHANGED <<connection, polls, elapsed, outcome, own, ended>>
    BY <1>1 DEF ReadMarkers, Goto
  <2>3. TypeOK'
    BY <2>1, <2>2, FieldsType DEF TypeOK, connection, Waiting
  <2>4. ConnectionInv'
    BY <2>2 DEF ConnectionInv, connection
  <2>5. /\ outcome[r] = "none" /\ ended[r] = [succeeded |-> {}, failed |-> {}]
        /\ pc'[r] = "act" /\ base'[r] = _sync_fields(answered)
        /\ misread'[r].markers = ~ answered /\ misread'[r].poll = misread[r].poll
    BY <2>1, <2>2 DEF TypeOK
  <2>6. WaitInv(r)'
    <3>1. /\ UNCHANGED markers /\ outcome'[r] = "none"
          /\ ended'[r].succeeded = {} /\ ended'[r].failed = {}
          /\ markers.succeeded_at \in Nat /\ markers.failed_at \in Nat
      BY <2>2, <2>5 DEF connection, TypeOK, Markers
    <3>2. CASE answered
      <4>1. base'[r] = markers'
        BY <2>5, <3>1, <3>2, FieldsType
      <4>2. markers'.succeeded_at \in Nat /\ markers'.failed_at \in Nat
        BY <3>1
      <4> QED BY <3>1, <4>1, <4>2 DEF WaitInv
    <3>3. CASE ~ answered
      <4>1. base'[r].succeeded_at = 0 /\ base'[r].failed_at = 0
        BY <2>5, <3>3, FieldsType DEF NoMarkers
      <4>2. misread'[r].markers
        BY <2>5, <3>3
      <4>3. markers'.succeeded_at \in Nat /\ markers'.failed_at \in Nat
        BY <3>1
      <4> QED BY <3>1, <4>1, <4>2, <4>3 DEF WaitInv
    <3> QED BY <3>2, <3>3
  <2>7. ClockInv(r)' /\ ResultInv(r)'
    BY <2>2, <2>5 DEF ClockInv, ResultInv
  <2>8. ASSUME NEW s \in Runs \ {r}
        PROVE  pc'[s] = pc[s] /\ base'[s] = base[s] /\ misread'[s] = misread[s]
    BY <2>1, <2>2 DEF TypeOK
  <2> QED BY <2>2, <2>3, <2>4, <2>5, <2>6, <2>7, <2>8, RunUntouched
          DEF connection, Waiting
<1>2. ASSUME SendWrite(r) PROVE SyncInv'
  <2>1. /\ pc[r] = "act" /\ pc' = [pc EXCEPT ![r] = "sent"]
        /\ UNCHANGED <<base, polls, elapsed, outcome, ended, misread>>
    BY <1>2 DEF SendWrite, Goto
  <2>2. /\ ConnectionInv' /\ UNCHANGED markers
        /\ syncs' \in 0 .. MaxSyncs /\ running' \in 0 .. syncs'
        /\ own' \in [Runs -> 0 .. MaxSyncs]
    <3>1. CASE StartsSync /\ own' = [own EXCEPT ![r] = syncs + 1]
      BY <3>1, StartKeepsConnection DEF TypeOK
    <3>2. CASE UNCHANGED <<connection, own>>
      BY <3>2 DEF TypeOK, ConnectionInv, connection
    <3> QED BY <1>2, <3>1, <3>2 DEF SendWrite
  <2>3. TypeOK'
    BY <2>1, <2>2 DEF TypeOK, Waiting
  <2>4. pc'[r] = "sent" /\ WaitInv(r)' /\ ClockInv(r)' /\ ResultInv(r)'
    BY <2>1, <2>2 DEF TypeOK, WaitInv, ClockInv, ResultInv, Waiting
  <2>5. ASSUME NEW s \in Runs \ {r} PROVE pc'[s] = pc[s]
    BY <2>1 DEF TypeOK
  <2> QED BY <2>1, <2>2, <2>3, <2>4, <2>5, RunUntouched DEF Waiting
<1>3. ASSUME WriteReturns(r) PROVE SyncInv'
  <2>1. /\ pc[r] = "sent"
        /\ UNCHANGED <<connection, base, polls, elapsed, own, ended, misread>>
        /\ \/ pc' = [pc EXCEPT ![r] = "poll"] /\ UNCHANGED outcome
           \/ /\ pc' = [pc EXCEPT ![r] = "done"]
              /\ outcome' = [outcome EXCEPT ![r] = "skipped"]
    BY <1>3 DEF WriteReturns, Goto, history
  <2>2. TypeOK' /\ ConnectionInv' /\ UNCHANGED markers
    BY <2>1 DEF TypeOK, ConnectionInv, connection, Waiting
  <2>3. /\ \/ pc'[r] = "poll" /\ outcome'[r] = outcome[r]
           \/ pc'[r] = "done" /\ outcome'[r] = "skipped"
        /\ WaitInv(r) /\ ClockInv(r) /\ ResultInv(r) /\ polls[r] = 0 /\ elapsed[r] = 0
    BY <2>1 DEF TypeOK, Waiting, ClockInv
  <2>4. 0 * Interval <= 0 /\ 0 <= Timeout
    BY TimingAssumption
  <2>5. /\ pc'[r] \in Waiting => WaitInv(r)'
        /\ ClockInv(r)' /\ ResultInv(r)'
    BY <2>1, <2>2, <2>3, <2>4 DEF WaitInv, ClockInv, ResultInv, Waiting
  <2>6. ASSUME NEW s \in Runs \ {r}
        PROVE  pc'[s] = pc[s] /\ outcome'[s] = outcome[s]
    BY <2>1 DEF TypeOK
  <2> QED BY <2>1, <2>2, <2>3, <2>5, <2>6, RunUntouched
<1>4. ASSUME Raise(r) PROVE SyncInv'
  <2>1. /\ pc' = [pc EXCEPT ![r] = "done"]
        /\ UNCHANGED <<connection, base, polls, elapsed, outcome, own, ended, misread>>
    BY <1>4 DEF Raise, history
  <2>2. TypeOK' /\ ConnectionInv' /\ UNCHANGED markers
    BY <2>1 DEF TypeOK, ConnectionInv, connection, Waiting
  <2>3. pc'[r] = "done" /\ ClockInv(r)' /\ ResultInv(r)'
    BY <2>1 DEF TypeOK, ClockInv, ResultInv
  <2>4. ASSUME NEW s \in Runs \ {r} PROVE pc'[s] = pc[s]
    BY <2>1 DEF TypeOK
  <2> QED BY <2>1, <2>2, <2>3, <2>4, RunUntouched DEF Waiting
<1> QED BY <1>1, <1>2, <1>3, <1>4

\* One turn of the poll loop.
LEMMA PollStep ==
    ASSUME SyncInv, NEW r \in Runs, Poll(r)
    PROVE  SyncInv'
<1> USE DEF SyncInv
<1>1. PICK answered \in BOOLEAN, latency \in 0 .. MaxLatency :
         LET found == poll_outcome(_sync_fields(answered), base[r])
             now == elapsed[r] + latency
         IN  /\ \/ found # "none" /\ Return(r, found, now)
                \/ /\ found = "none" /\ now + Interval > Timeout
                   /\ Return(r, "timed_out", now)
                \/ /\ found = "none" /\ now + Interval <= Timeout
                   /\ Goto(r, "poll", "poll")
                   /\ elapsed' = [elapsed EXCEPT ![r] = now + Interval]
                   /\ UNCHANGED outcome
             /\ misread' = [misread EXCEPT ![r].poll = ~ answered]
  BY DEF Poll
<1> DEFINE f == _sync_fields(answered)
           found == poll_outcome(f, base[r])
           now == elapsed[r] + latency
<1>2. /\ pc[r] = "poll" /\ polls' = [polls EXCEPT ![r] = polls[r] + 1]
      /\ UNCHANGED <<connection, base, own, ended>>
      /\ misread' = [misread EXCEPT ![r].poll = ~ answered]
  BY <1>1 DEF Poll, Return, Goto
<1>3. \/ /\ found # "none" /\ pc' = [pc EXCEPT ![r] = "done"]
         /\ outcome' = [outcome EXCEPT ![r] = found]
         /\ elapsed' = [elapsed EXCEPT ![r] = now]
      \/ /\ found = "none" /\ pc' = [pc EXCEPT ![r] = "done"]
         /\ outcome' = [outcome EXCEPT ![r] = "timed_out"]
         /\ elapsed' = [elapsed EXCEPT ![r] = now]
      \/ /\ found = "none" /\ now + Interval <= Timeout
         /\ pc' = [pc EXCEPT ![r] = "poll"]
         /\ outcome' = outcome
         /\ elapsed' = [elapsed EXCEPT ![r] = now + Interval]
  BY <1>1 DEF Return, Goto
<1>4. found \in {"none", "synced", "failed"}
  BY DEF poll_outcome
<1>5. now \in Nat /\ elapsed[r] <= now /\ polls[r] \in Nat /\ now + Interval \in Nat
  BY TimingAssumption DEF TypeOK
<1>6. /\ WaitInv(r) /\ ResultInv(r)
      /\ polls[r] * Interval <= elapsed[r] /\ elapsed[r] <= Timeout
  BY <1>2 DEF Waiting, ClockInv
<1>7. /\ polls'[r] = polls[r] + 1 /\ ended'[r] = ended[r] /\ base'[r] = base[r]
      /\ misread'[r].poll = ~ answered /\ misread'[r].markers = misread[r].markers
  BY <1>2 DEF TypeOK
<1>8. TypeOK'
  <2>1. polls' \in [Runs -> Nat] /\ misread' \in [Runs -> [markers : BOOLEAN, poll : BOOLEAN]]
    <3>1. polls' \in [Runs -> Nat]
      BY <1>2 DEF TypeOK
    <3>2. misread' \in [Runs -> [markers : BOOLEAN, poll : BOOLEAN]]
      BY <1>2 DEF TypeOK
    <3> QED BY <3>1, <3>2
  <2>2. pc' \in [Runs -> {"pre", "done"} \cup Waiting] /\ elapsed' \in [Runs -> Nat]
    <3>1. pc' \in [Runs -> {"pre", "done"} \cup Waiting]
      BY <1>3 DEF TypeOK, Waiting
    <3>2. ASSUME NEW n \in Nat PROVE [elapsed EXCEPT ![r] = n] \in [Runs -> Nat]
      BY DEF TypeOK
    <3>3. elapsed' = [elapsed EXCEPT ![r] = now] \/ elapsed' = [elapsed EXCEPT ![r] = now + Interval]
      BY <1>3
    <3> HIDE DEF now
    <3> QED BY <1>5, <3>1, <3>2, <3>3
  <2>3. outcome' \in [Runs -> {"none", "skipped", "synced", "failed", "timed_out"}]
    BY <1>3, <1>4 DEF TypeOK
  <2> QED BY <1>2, <2>1, <2>2, <2>3 DEF TypeOK, connection
<1>9. ConnectionInv' /\ UNCHANGED markers
  BY <1>2 DEF ConnectionInv, connection
\* What the fields tell of the syncs that ended.
<1>10. /\ found = "synced" => ended[r].failed = {}
       /\ found = "none" /\ answered => ended[r].succeeded = {} /\ ended[r].failed = {}
       /\ ~ misread[r].markers =>
             /\ found = "synced" => ended[r].succeeded # {}
             /\ found = "failed" => ended[r].failed # {}
  <2>1. /\ base[r].succeeded_at \in Nat /\ base[r].failed_at \in Nat
        /\ ended[r].succeeded \subseteq Nat /\ ended[r].failed \subseteq Nat
        /\ markers.succeeded_at \in Nat /\ markers.failed_at \in Nat
    BY DEF TypeOK, Markers
  <2>2. CASE answered
    <3>1. f = markers
      BY <2>2, FieldsType
    <3>2. /\ ended[r].failed # {} => /\ markers.failed_at # 0
                                     /\ markers.failed_at # base[r].failed_at
          /\ ended[r].succeeded # {} => /\ markers.succeeded_at # 0
                                        /\ markers.succeeded_at # base[r].succeeded_at
      BY <1>6, <2>1 DEF WaitInv
    <3> QED BY <1>6, <2>1, <2>2, <3>1, <3>2 DEF WaitInv, poll_outcome
  <2>3. CASE ~ answered
    BY <2>3, FieldsType DEF NoMarkers, poll_outcome
  <2> QED BY <2>2, <2>3
<1>11. /\ polls'[r] - 1 = polls[r] /\ polls[r] * Interval <= Timeout
       /\ polls'[r] = polls[r] + 1
       /\ (polls[r] + 1) * Interval <= now + Interval
  <2>1. polls'[r] - 1 = polls[r] /\ polls[r] * Interval <= now
    <3>1. polls'[r] - 1 = polls[r]
      BY <1>5, <1>7
    <3>2. polls[r] * Interval \in Nat /\ elapsed[r] \in Nat /\ now \in Nat
      BY <1>5, TimingAssumption DEF TypeOK
    <3> HIDE DEF now
    <3> QED BY <1>5, <1>6, <3>1, <3>2
  <2>2. (polls[r] + 1) * Interval = polls[r] * Interval + Interval
    BY <1>5, TimingAssumption
  <2>3. polls[r] * Interval \in Nat
    BY <1>5, TimingAssumption
  <2> QED BY <1>5, <1>6, <1>7, <2>1, <2>2, <2>3, TimingAssumption DEF TypeOK
<1>12. /\ pc'[r] \in {"poll", "done"}
       /\ pc'[r] = "poll" => WaitInv(r)'
       /\ ClockInv(r)' /\ ResultInv(r)'
  <2>1. CASE pc'[r] = "poll"
    <3>1. outcome'[r] = outcome[r] /\ elapsed'[r] = now + Interval /\ now + Interval <= Timeout
      BY <1>2, <1>3, <2>1 DEF TypeOK
    <3>2. WaitInv(r)'
      BY <1>6, <1>7, <1>9, <3>1 DEF WaitInv
    <3>3. ClockInv(r)'
      <4> HIDE DEF now
      <4> QED BY <1>7, <1>11, <2>1, <3>1 DEF ClockInv
    <3>4. ResultInv(r)'
      <4>1. (polls'[r] - 1) * Interval <= Timeout
        BY <1>11
      <4>2. outcome'[r] = "none"
        BY <1>6, <3>1 DEF WaitInv
      <4> QED BY <4>1, <4>2 DEF ResultInv
    <3> QED BY <2>1, <3>2, <3>3, <3>4
  <2>2. CASE pc'[r] = "done"
    <3>1. \/ found # "none" /\ outcome'[r] = found
          \/ found = "none" /\ outcome'[r] = "timed_out"
      BY <1>2, <1>3, <2>2 DEF TypeOK
    <3>2. (polls'[r] - 1) * Interval <= Timeout
      BY <1>11
    <3> HIDE DEF f, found, now
    <3>3. ResultInv(r)'
      BY <1>4, <1>7, <1>10, <3>1, <3>2 DEF ResultInv
    <3> QED BY <2>2, <3>3 DEF ClockInv
  <2> QED BY <1>2, <1>3, <2>1, <2>2 DEF TypeOK
<1>13. ASSUME NEW s \in Runs \ {r}
       PROVE  /\ pc'[s] = pc[s] /\ base'[s] = base[s] /\ polls'[s] = polls[s]
              /\ elapsed'[s] = elapsed[s] /\ outcome'[s] = outcome[s]
              /\ ended'[s] = ended[s] /\ misread'[s] = misread[s]
  BY <1>2, <1>3 DEF TypeOK
<1> HIDE DEF f, found, now
<1> QED BY <1>8, <1>9, <1>12, <1>13, RunUntouched DEF Waiting

LEMMA SyncStep == SyncInv /\ [Next]_vars => SyncInv'
<1> SUFFICES ASSUME SyncInv, [Next]_vars PROVE SyncInv'
  OBVIOUS
<1>1. CASE UNCHANGED vars
  BY <1>1 DEF vars, connection, history, SyncInv, TypeOK, ConnectionInv, WaitInv,
              ClockInv, ResultInv
<1>2. CASE ScheduledSync
  <2>1. TypeOK'
    BY <1>2, StartKeepsConnection DEF SyncInv, TypeOK, ScheduledSync, history
  <2> QED BY <1>2, <2>1, StartKeepsConnection, RunUntouched
          DEF SyncInv, ScheduledSync, history
<1>3. ASSUME NEW ok \in BOOLEAN, SyncEnds(ok) PROVE SyncInv'
  BY <1>3, SyncEndsStep
<1>4. ASSUME NEW r \in Runs,
             ReadMarkers(r) \/ SendWrite(r) \/ WriteReturns(r) \/ Poll(r) \/ Raise(r)
      PROVE  SyncInv'
  BY <1>4, BeforeThePoll, PollStep
<1> QED BY <1>1, <1>2, <1>3, <1>4 DEF Next

LEMMA SyncInvariant == Spec => []SyncInv
<1> QED BY SyncInit, SyncStep, PTL DEF Spec

\* The connection and the locals of the poll keep their types.
THEOREM SyncTypeCorrect == Spec => []TypeOK
<1>1. SyncInv => TypeOK
  BY DEF SyncInv
<1> QED BY <1>1, SyncInvariant, PTL

\* A reported result is one of a sync that ended after the markers were read,
\* if they could be read (verify.py:73-78).
THEOREM ResultsAreNew == Spec => []ResultIsNew
<1>1. SyncInv => ResultIsNew
  BY DEF SyncInv, ResultInv, ResultIsNew
<1> QED BY <1>1, SyncInvariant, PTL

\* "synced" is never said over a failure that came in while the run waited
\* (verify.py:73-76).
THEOREM FailuresAreNotMasked == Spec => []FailureIsNotMasked
<1>1. SyncInv => FailureIsNotMasked
  BY DEF SyncInv, ResultInv, FailureIsNotMasked
<1> QED BY <1>1, SyncInvariant, PTL

\* A run times out only over a connection where nothing ended (verify.py:73-88).
THEOREM TimeoutsMissNothing == Spec => []TimedOutMissedNothing
<1>1. SyncInv => TimedOutMissedNothing
  BY DEF SyncInv, TypeOK, ResultInv, TimedOutMissedNothing
<1> QED BY <1>1, SyncInvariant, PTL

PollsFitTheTimeout == \A r \in Runs : (polls[r] - 1) * Interval <= Timeout

\* The number of polls is bounded by timeout and interval, however the calls and the
\* clock interleave (verify.py:88-97).
THEOREM PollsAreBounded == Spec => []PollsFitTheTimeout
<1>1. SyncInv => PollsFitTheTimeout
  BY DEF SyncInv, ResultInv, PollsFitTheTimeout
<1> QED BY <1>1, SyncInvariant, PTL

-----------------------------------------------------------------------------
(* The poll contract.                                                      *)

wait == [r \in Runs |-> Wait(r)]
told == [r \in Runs |-> IF outcome[r] = "skipped" THEN "none" ELSE outcome[r]]

\* As many intervals of sleep as the timeout has room for.
LEMMA SleepsFit ==
    ASSUME NEW n \in Nat, n * Interval <= Timeout
    PROVE  n <= Timeout \div Interval
<1> DEFINE q == Timeout \div Interval
           m == Timeout % Interval
<1>1. q \in Int /\ m \in 0 .. Interval - 1 /\ Timeout = Interval * q + m
  BY TimingAssumption, SMT
<1> HIDE DEF q, m
<1>2. SUFFICES ASSUME q + 1 <= n PROVE FALSE
  BY <1>1, <1>2 DEF q
<1>3. Interval * (q + 1) <= Interval * n
  BY <1>1, <1>2, TimingAssumption
<1>4. Interval * (q + 1) = Interval * q + Interval
  BY <1>1, TimingAssumption
<1> QED BY <1>1, <1>3, <1>4, TimingAssumption

LEMMA ContractInit == Init => Polling!Init
<1> SUFFICES ASSUME Init PROVE Polling!Init
  OBVIOUS
<1>1. \A r \in Runs : Wait(r) = "before" /\ outcome[r] = "none"
  BY DEF Init, Wait
<1> QED BY <1>1 DEF Init, Polling!Init

\* A run that moves without a poll stays where it is with its wait, or gives it up.
LEMMA QuietStep ==
    ASSUME TypeOK, NEW r \in Runs, NEW to, pc' = [pc EXCEPT ![r] = to],
           to = "done" \/ Wait(r)' = Wait(r), polls' = polls, told' = told
    PROVE  Polling!Leave({r}) \/ UNCHANGED Polling!vars
<1>1. CASE to = "done"
  <2>1. wait' = [s \in Runs |-> IF s \in {r} THEN "over" ELSE wait[s]]
    BY <1>1 DEF TypeOK, wait, Wait
  <2> QED BY <2>1 DEF Polling!Leave, wait, told
<1>2. CASE Wait(r)' = Wait(r)
  <2>1. wait' = wait
    BY <1>2 DEF TypeOK, wait, Wait
  <2> QED BY <2>1 DEF Polling!vars, wait, told
<1> QED BY <1>1, <1>2

\* A poll tells a result, or the time left has room for one more.
LEMMA PollKeepsContract ==
    ASSUME SyncInv, SyncInv', NEW r \in Runs, Poll(r)
    PROVE  Polling!PollAgain(r) \/ \E result \in Polling!Results : Polling!Tell(r, result)
<1>1. PICK answered \in BOOLEAN, latency \in 0 .. MaxLatency :
         LET found == poll_outcome(_sync_fields(answered), base[r])
             now == elapsed[r] + latency
         IN  \/ found # "none" /\ Return(r, found, now)
             \/ found = "none" /\ Return(r, "timed_out", now)
             \/ Goto(r, "poll", "poll") /\ UNCHANGED outcome
  BY DEF Poll
<1>2. poll_outcome(_sync_fields(answered), base[r]) \in {"none", "synced", "failed"}
  BY DEF poll_outcome
<1>3. \/ \E result \in {"synced", "failed", "timed_out"} : \E now : Return(r, result, now)
      \/ Goto(r, "poll", "poll") /\ UNCHANGED outcome
  BY <1>1, <1>2
<1>4. /\ pc[r] = "poll" /\ wait[r] = "waiting" /\ TypeOK
      /\ polls' = [polls EXCEPT ![r] = polls[r] + 1]
  BY <1>3 DEF Poll, Return, Goto, wait, Wait, SyncInv
<1>5. ASSUME NEW result \in {"synced", "failed", "timed_out"}, NEW now, Return(r, result, now)
      PROVE  Polling!Tell(r, result)
  <2>1. /\ pc' = [pc EXCEPT ![r] = "done"] /\ outcome' = [outcome EXCEPT ![r] = result]
    BY <1>5 DEF Return, Goto
  <2>2. wait' = [wait EXCEPT ![r] = "over"]
    BY <1>4, <2>1 DEF TypeOK, wait, Wait
  <2>3. told' = [told EXCEPT ![r] = result]
    BY <1>4, <2>1 DEF TypeOK, told
  <2> QED BY <1>4, <2>2, <2>3 DEF Polling!Tell, wait, told
<1>6. CASE Goto(r, "poll", "poll") /\ UNCHANGED outcome
  <2>1. pc' = pc /\ wait' = wait /\ told' = told
    BY <1>4, <1>6 DEF TypeOK, Goto, wait, Wait, told
  <2>2. polls[r] \in Nat /\ elapsed'[r] \in Nat /\ Timeout \in Nat
    BY TimingAssumption DEF SyncInv, TypeOK
  <2>3. polls'[r] = polls[r] + 1
    BY <1>4 DEF TypeOK
  <2>4. polls'[r] * Interval <= elapsed'[r] /\ elapsed'[r] <= Timeout
    BY <1>4, <2>1 DEF SyncInv, ClockInv
  <2>5. (polls[r] + 1) * Interval <= Timeout
    <3>1. (polls[r] + 1) * Interval \in Nat
      BY <2>2, TimingAssumption
    <3> QED BY <2>2, <2>3, <2>4, <3>1
  <2>6. polls[r] + 1 <= Timeout \div Interval
    BY <2>2, <2>5, SleepsFit
  <2>7. polls[r] < Timeout \div Interval
    <3> DEFINE q == Timeout \div Interval
    <3>1. q \in Int
      BY TimingAssumption
    <3> HIDE DEF q
    <3>2. polls[r] + 1 <= q => polls[r] < q
      BY <2>2, <3>1
    <3> QED BY <2>6, <3>2 DEF q
  <2> QED BY <1>4, <2>1, <2>7 DEF Polling!PollAgain, wait, told
<1> QED BY <1>3, <1>5, <1>6 DEF Polling!Results

LEMMA ContractStep ==
    SyncInv /\ SyncInv' /\ [Next]_vars => [Polling!Next]_(Polling!vars)
<1> SUFFICES ASSUME SyncInv, SyncInv', [Next]_vars
             PROVE  Polling!Next \/ UNCHANGED Polling!vars
  OBVIOUS
<1>a. TypeOK
  BY DEF SyncInv
<1>1. CASE UNCHANGED <<pc, polls, outcome>>
  BY <1>1 DEF Polling!vars, Wait
<1>2. CASE UNCHANGED vars \/ ScheduledSync \/ \E ok \in BOOLEAN : SyncEnds(ok)
  BY <1>1, <1>2 DEF vars, ScheduledSync, SyncEnds
<1>3. ASSUME NEW r \in Runs, NEW to, pc' = [pc EXCEPT ![r] = to],
             to = "done" \/ Wait(r)' = Wait(r), polls' = polls, told' = told
      PROVE  Polling!Next \/ UNCHANGED Polling!vars
  <2>1. {r} \in SUBSET Runs
    OBVIOUS
  <2> QED BY <1>a, <1>3, <2>1, QuietStep DEF Polling!Next
<1>4. ASSUME NEW r \in Runs, ReadMarkers(r) \/ SendWrite(r) \/ Raise(r)
      PROVE  Polling!Next \/ UNCHANGED Polling!vars
  <2>1. \E to \in {"act", "sent", "done"} :
           /\ pc' = [pc EXCEPT ![r] = to]
           /\ to = "done" \/ pc[r] \in {"pre", "act"}
    BY <1>4 DEF ReadMarkers, SendWrite, Raise, Goto
  <2>2. polls' = polls /\ told' = told
    BY <1>4 DEF ReadMarkers, SendWrite, Raise, told
  <2>3. PICK to \in {"act", "sent", "done"} :
             /\ pc' = [pc EXCEPT ![r] = to]
             /\ to = "done" \/ pc[r] \in {"pre", "act"}
    BY <2>1
  <2>4. to = "done" \/ Wait(r)' = Wait(r)
    BY <1>a, <2>3 DEF TypeOK, Wait
  <2> QED BY <1>3, <2>2, <2>3, <2>4
<1>5. ASSUME NEW r \in Runs, WriteReturns(r) PROVE Polling!Next \/ UNCHANGED Polling!vars
  <2>1. outcome[r] = "none" /\ polls' = polls
    BY <1>5 DEF WriteReturns, Goto, SyncInv, WaitInv, Waiting
  <2>2. CASE Goto(r, "sent", "poll") /\ UNCHANGED outcome
    <3>1. /\ wait[r] = "before" /\ wait' = [wait EXCEPT ![r] = "waiting"] /\ told' = told
      BY <1>a, <2>2 DEF TypeOK, Goto, wait, Wait, told
    <3> QED BY <2>1, <3>1 DEF Polling!Next, Polling!StartWaiting, wait, told
  <2>3. CASE Goto(r, "sent", "done") /\ outcome' = [outcome EXCEPT ![r] = "skipped"]
    <3>1. told' = told
      BY <1>a, <2>1, <2>3 DEF TypeOK, told
    <3> QED BY <1>3, <2>1, <2>3, <3>1 DEF Goto
  <2> QED BY <1>5, <2>2, <2>3 DEF WriteReturns
<1>6. ASSUME NEW r \in Runs, Poll(r) PROVE Polling!Next
  BY <1>6, PollKeepsContract DEF Polling!Next
<1> QED BY <1>2, <1>4, <1>5, <1>6 DEF Next

\* Whatever the syncs of the connection, the answers to its polls and the clock do,
\* step 7 behaves as AgentLoop assumes it to: the detailed poll implements the
\* contract (verify.py:62-97).
THEOREM SyncsKeepPollContract == Spec => WaitKept
<1>1. Init => Polling!Init
  BY ContractInit
<1>2. SyncInv /\ SyncInv' /\ [Next]_vars => [Polling!Next]_(Polling!vars)
  BY ContractStep
<1> QED BY <1>1, <1>2, SyncInvariant, PTL DEF Spec, WaitKept, Polling!Spec
=============================================================================
