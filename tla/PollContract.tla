---------------------------- MODULE PollContract ----------------------------
(***************************************************************************)
(* What waiting for a sync promises (diagnosis-and-remediation spec, step  *)
(* 7): after its write a run polls at intervals, as often as they fit into *)
(* the timeout and once more, and the last poll tells a result, which      *)
(* stays. AgentLoop, where any poll may tell anything, and SyncPoll, where *)
(* the connection's syncs and the clock decide, both implement this module *)
(* with their own MaxPolls: what AgentLoop leaves open is what may happen. *)
(***************************************************************************)
EXTENDS Naturals

CONSTANTS
    Runs,
    MaxPolls   \* intervals that fit into the timeout

VARIABLES
    wait,    \* whether a run is yet to wait, waits, or waits no more
    polls,   \* polls answered
    poll     \* the result told, "none" before that

vars == <<wait, polls, poll>>

Results == {"synced", "failed", "timed_out"}

Init ==
    /\ wait = [r \in Runs |-> "before"]
    /\ polls = [r \in Runs |-> 0]
    /\ poll = [r \in Runs |-> "none"]

StartWaiting(r) ==
    /\ wait[r] = "before"
    /\ wait' = [wait EXCEPT ![r] = "waiting"]
    /\ UNCHANGED <<polls, poll>>

PollAgain(r) ==
    /\ wait[r] = "waiting"
    /\ polls[r] < MaxPolls
    /\ polls' = [polls EXCEPT ![r] = @ + 1]
    /\ UNCHANGED <<wait, poll>>

Tell(r, result) ==
    /\ wait[r] = "waiting"
    /\ wait' = [wait EXCEPT ![r] = "over"]
    /\ polls' = [polls EXCEPT ![r] = @ + 1]
    /\ poll' = [poll EXCEPT ![r] = result]

\* Runs that have nothing to wait for, or that end, tell nothing.
Leave(S) ==
    /\ wait' = [r \in Runs |-> IF r \in S THEN "over" ELSE wait[r]]
    /\ UNCHANGED <<polls, poll>>

Next ==
    \/ \E r \in Runs : \/ StartWaiting(r) \/ PollAgain(r)
                       \/ \E result \in Results : Tell(r, result)
    \/ \E S \in SUBSET Runs : Leave(S)

Spec == Init /\ [][Next]_vars
=============================================================================
