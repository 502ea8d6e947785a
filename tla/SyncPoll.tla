------------------------------ MODULE SyncPoll ------------------------------
(***************************************************************************)
(* What the sync markers say (dq_sentinel/verify.py poll_until_synced,     *)
(* loop.py 286-303). Before its write a run reads succeeded_at and         *)
(* failed_at of the connection; after the write it polls until one of them *)
(* differs, or until the time is up. AgentLoop leaves the outcome of that  *)
(* poll open; here it comes from the connection's syncs: scheduled ones,   *)
(* those of the run's own write, those of another run on the connection.   *)
(*                                                                         *)
(* A sync is named by its number, which also stands for its end time: one  *)
(* runs at a time, so a later end is a larger number. 0 is a missing       *)
(* marker. An answer of the tool that is an error carries no markers, and  *)
(* connection_details does not look at is_error.                           *)
(***************************************************************************)
EXTENDS Integers

CONSTANTS
    Runs,        \* runs on this connection
    MaxSyncs,    \* bound on the syncs of the connection
    Interval,    \* poll_interval
    Timeout,     \* poll_timeout
    MaxLatency   \* bound on the time one details call takes

ASSUME MaxSyncsAssumption == MaxSyncs \in Nat
ASSUME TimingAssumption ==
    Interval \in Nat \ {0} /\ Timeout \in Nat /\ MaxLatency \in Nat

VARIABLES
    syncs,     \* syncs started on the connection
    running,   \* the sync under way, 0 when there is none
    markers,   \* succeeded_at and failed_at of the connection
    pc,        \* the await of the run
    base,      \* pre_succeeded and pre_failed
    polls,     \* polls answered
    elapsed,   \* time since `started`
    outcome,   \* poll["result"]
    own,       \* the sync the write started, 0 for none (history variable)
    ended,     \* syncs that ended while the run was waiting (history variable)
    misread    \* which reads met an error answer (history variable)

connection == <<syncs, running, markers>>
history == <<own, ended, misread>>
vars == <<connection, pc, base, polls, elapsed, outcome, history>>

NoMarkers == [succeeded_at |-> 0, failed_at |-> 0]
Waiting == {"act", "sent", "poll"}

Init ==
    /\ syncs = 0
    /\ running = 0
    /\ markers = NoMarkers
    /\ pc = [r \in Runs |-> "pre"]
    /\ base = [r \in Runs |-> NoMarkers]
    /\ polls = [r \in Runs |-> 0]
    /\ elapsed = [r \in Runs |-> 0]
    /\ outcome = [r \in Runs |-> "none"]
    /\ own = [r \in Runs |-> 0]
    /\ ended = [r \in Runs |-> [succeeded |-> {}, failed |-> {}]]
    /\ misread = [r \in Runs |-> [markers |-> FALSE, poll |-> FALSE]]

-----------------------------------------------------------------------------
(* The connection (Fivetran).                                              *)

StartsSync ==
    /\ running = 0 /\ syncs < MaxSyncs
    /\ syncs' = syncs + 1
    /\ running' = syncs + 1
    /\ UNCHANGED markers

ScheduledSync == StartsSync /\ UNCHANGED <<pc, base, polls, elapsed, outcome, history>>

SyncEnds(ok) ==
    /\ running # 0
    /\ running' = 0
    /\ markers' = IF ok THEN [markers EXCEPT !.succeeded_at = running]
                        ELSE [markers EXCEPT !.failed_at = running]
    /\ ended' = [r \in Runs |->
                    IF pc[r] \notin Waiting THEN ended[r]
                    ELSE IF ok THEN [ended[r] EXCEPT !.succeeded = @ \cup {running}]
                               ELSE [ended[r] EXCEPT !.failed = @ \cup {running}]]
    /\ UNCHANGED <<syncs, pc, base, polls, elapsed, outcome, own, misread>>

\* What a details call brings back: the markers, or none from an error answer.
_sync_fields(answered) == IF answered THEN markers ELSE NoMarkers

-----------------------------------------------------------------------------
(* A run, from the read before the write to the end of the poll.           *)

Goto(r, from, to) == pc[r] = from /\ pc' = [pc EXCEPT ![r] = to]

ReadMarkers(r) ==
    /\ Goto(r, "pre", "act")
    /\ \E answered \in BOOLEAN :
          /\ base' = [base EXCEPT ![r] = _sync_fields(answered)]
          /\ misread' = [misread EXCEPT ![r].markers = ~ answered]
    /\ UNCHANGED <<connection, polls, elapsed, outcome, own, ended>>

\* The write starts a sync, or none: the connection is busy, it refuses the
\* call, or the call (a schema reload) is no sync.
SendWrite(r) ==
    /\ Goto(r, "act", "sent")
    /\ \/ StartsSync /\ own' = [own EXCEPT ![r] = syncs + 1]
       \/ UNCHANGED <<connection, own>>
    /\ UNCHANGED <<base, polls, elapsed, outcome, ended, misread>>

\* A write that was refused is not polled for.
WriteReturns(r) ==
    /\ \/ Goto(r, "sent", "poll") /\ UNCHANGED outcome
       \/ Goto(r, "sent", "done") /\ outcome' = [outcome EXCEPT ![r] = "skipped"]
    /\ UNCHANGED <<connection, base, polls, elapsed, history>>

\* Mutant: any marker counts, whether or not it was there before the write.
poll_outcome_any_marker(f, b) ==
    IF f.failed_at # 0 THEN "failed"
    ELSE IF f.succeeded_at # 0 THEN "synced" ELSE "none"

\* Mutant: the success marker is looked at first.
poll_outcome_success_first(f, b) ==
    IF f.succeeded_at # 0 /\ f.succeeded_at # b.succeeded_at THEN "synced"
    ELSE IF f.failed_at # 0 /\ f.failed_at # b.failed_at THEN "failed" ELSE "none"

\* Mutant: a poll that saw no end says so, and that counts as a result.
poll_outcome_pending(f, b) ==
    IF f.failed_at # 0 /\ f.failed_at # b.failed_at THEN "failed"
    ELSE IF f.succeeded_at # 0 /\ f.succeeded_at # b.succeeded_at THEN "synced"
    ELSE "pending"

\* `outcome` of one poll, from its fields f and the markers b before the write.
poll_outcome(f, b) ==
    IF f.failed_at # 0 /\ f.failed_at # b.failed_at THEN "failed"
    ELSE IF f.succeeded_at # 0 /\ f.succeeded_at # b.succeeded_at THEN "synced"
    ELSE "none"

Return(r, result, now) ==
    /\ Goto(r, "poll", "done")
    /\ outcome' = [outcome EXCEPT ![r] = result]
    /\ elapsed' = [elapsed EXCEPT ![r] = now]

\* Mutant: the clock is looked at before the result.
Poll_clock_first(r) ==
    /\ \E answered \in BOOLEAN, latency \in 0 .. MaxLatency :
          LET found == poll_outcome(_sync_fields(answered), base[r])
              now == elapsed[r] + latency
          IN  /\ \/ now + Interval > Timeout /\ Return(r, "timed_out", now)
                 \/ /\ now + Interval <= Timeout /\ found # "none"
                    /\ Return(r, found, now)
                 \/ /\ now + Interval <= Timeout /\ found = "none"
                    /\ Goto(r, "poll", "poll")
                    /\ elapsed' = [elapsed EXCEPT ![r] = now + Interval]
                    /\ UNCHANGED outcome
              /\ misread' = [misread EXCEPT ![r].poll = ~ answered]
    /\ polls' = [polls EXCEPT ![r] = @ + 1]
    /\ UNCHANGED <<connection, base, own, ended>>

\* Mutant: the sleep to come is not counted.
Poll_sleeps_past_timeout(r) ==
    /\ \E answered \in BOOLEAN, latency \in 0 .. MaxLatency :
          LET found == poll_outcome(_sync_fields(answered), base[r])
              now == elapsed[r] + latency
          IN  /\ \/ found # "none" /\ Return(r, found, now)
                 \/ found = "none" /\ now > Timeout /\ Return(r, "timed_out", now)
                 \/ /\ found = "none" /\ now <= Timeout
                    /\ Goto(r, "poll", "poll")
                    /\ elapsed' = [elapsed EXCEPT ![r] = now + Interval]
                    /\ UNCHANGED outcome
              /\ misread' = [misread EXCEPT ![r].poll = ~ answered]
    /\ polls' = [polls EXCEPT ![r] = @ + 1]
    /\ UNCHANGED <<connection, base, own, ended>>

\* One turn of the loop: a poll, then a return or a sleep.
Poll(r) ==
    /\ \E answered \in BOOLEAN, latency \in 0 .. MaxLatency :
          LET found == poll_outcome(_sync_fields(answered), base[r])
              now == elapsed[r] + latency
          IN  /\ \/ found # "none" /\ Return(r, found, now)
                 \/ /\ found = "none" /\ now + Interval > Timeout
                    /\ Return(r, "timed_out", now)
                 \/ /\ found = "none" /\ now + Interval <= Timeout
                    /\ Goto(r, "poll", "poll")
                    /\ elapsed' = [elapsed EXCEPT ![r] = now + Interval]
                    /\ UNCHANGED outcome
              /\ misread' = [misread EXCEPT ![r].poll = ~ answered]
    /\ polls' = [polls EXCEPT ![r] = @ + 1]
    /\ UNCHANGED <<connection, base, own, ended>>

\* Any call may raise instead; the run is then over without an outcome.
Raise(r) ==
    /\ pc[r] # "done"
    /\ pc' = [pc EXCEPT ![r] = "done"]
    /\ UNCHANGED <<connection, base, polls, elapsed, outcome, history>>

Next ==
    \/ ScheduledSync
    \/ \E ok \in BOOLEAN : SyncEnds(ok)
    \/ \E r \in Runs : \/ ReadMarkers(r) \/ SendWrite(r) \/ WriteReturns(r)
                       \/ Poll(r) \/ Raise(r)

Spec == Init /\ [][Next]_vars
-----------------------------------------------------------------------------
(* Properties.                                                             *)

Markers == [succeeded_at : 0 .. MaxSyncs, failed_at : 0 .. MaxSyncs]

\* The connection, the locals of a run, and what is remembered of both.
TypeOK ==
    /\ syncs \in 0 .. MaxSyncs
    /\ running \in 0 .. syncs
    /\ markers \in Markers
    /\ pc \in [Runs -> {"pre", "done"} \cup Waiting]
    /\ base \in [Runs -> Markers]
    /\ polls \in [Runs -> Nat]
    /\ elapsed \in [Runs -> Nat]
    /\ outcome \in [Runs -> {"none", "skipped", "synced", "failed", "timed_out"}]
    /\ own \in [Runs -> 0 .. MaxSyncs]
    /\ ended \in [Runs -> [succeeded : SUBSET (1 .. MaxSyncs),
                           failed : SUBSET (1 .. MaxSyncs)]]
    /\ misread \in [Runs -> [markers : BOOLEAN, poll : BOOLEAN]]

\* A poll that reports a result reports one of a sync that ended after the
\* markers were read, provided that read brought the markers (verify.py:73-78).
ResultIsNew ==
    \A r \in Runs :
        ~ misread[r].markers =>
            /\ outcome[r] = "synced" => ended[r].succeeded # {}
            /\ outcome[r] = "failed" => ended[r].failed # {}

\* A run is never told "synced" when some sync failed while it waited, even if a
\* later one succeeded before the poll looked (verify.py:73, the order of the
\* two branches).
FailureIsNotMasked ==
    \A r \in Runs : outcome[r] = "synced" => ended[r].failed = {}

\* "timed_out" is said only when no sync ended while the run waited, unless the
\* last poll met an error answer: the result is looked at before the clock
\* (verify.py:73-88).
TimedOutMissedNothing ==
    \A r \in Runs :
        outcome[r] = "timed_out" /\ ~ misread[r].poll =>
            ended[r] = [succeeded |-> {}, failed |-> {}]

\* Where a run stands with its wait for a sync. A write that is not polled for has
\* no result.
Wait(r) ==
    IF pc[r] = "poll" THEN "waiting" ELSE IF pc[r] = "done" THEN "over" ELSE "before"

Polling == INSTANCE PollContract
             WITH MaxPolls <- Timeout \div Interval,
                  wait <- [r \in Runs |-> Wait(r)],
                  poll <- [r \in Runs |-> IF outcome[r] = "skipped" THEN "none"
                                                                   ELSE outcome[r]]

\* Whatever the syncs, the answers and the clock do, a run polls at most
\* Timeout div Interval + 1 times and has one result, told by its last poll: the
\* poll contract, which AgentLoop implements too (verify.py:73-97).
WaitKept == Polling!Spec

-----------------------------------------------------------------------------
(* Statements of the docs that the code does not keep.                     *)

\* verify.py:4: step 7 "polls the connection until the triggered sync
\* completes": a run that started a sync and is told "synced" saw that sync end.
OwnSyncEnded ==
    \A r \in Runs :
        outcome[r] = "synced" /\ own[r] # 0 => own[r] \in ended[r].succeeded
=============================================================================
