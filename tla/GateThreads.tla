----------------------------- MODULE GateThreads -----------------------------
(***************************************************************************)
(* The gate of one run with decisions submitted from other threads, which  *)
(* web/runs.py allows for (module docstring, "Thread-safety"). RunEngine   *)
(* has the program as it is deployed, where the route runs on the event    *)
(* loop and submit_decision is one step; here a step of a call is one      *)
(* access to what it shares with the loop, and the loop's thread may go on *)
(* in between, in the middle of approval() too.                            *)
(*                                                                         *)
(* A gate entry stands for its future, 0 for None. What a decision says is *)
(* left open: after any of them the run may come back to the gate.         *)
(***************************************************************************)
EXTENDS Naturals, Sequences

CONSTANTS
    Calls,      \* calls of submit_decision, each from a thread of its own
    NoCall,     \* nobody's
    MaxEntries  \* gate entries of a run

ASSUME NoCallAssumption == NoCall \notin Calls
ASSUME MaxEntriesAssumption == MaxEntries \in Nat

VARIABLES
    loop,                \* where the run is: "working", "arming" (in approval,
                         \* before line 104), "parked", "left" (it has ended)
    entry,               \* gate entries so far
    approval_future,     \* h.approval_future
    result,              \* the call whose payload a future holds
    decision_submitted,  \* h.decision_submitted
    late,                \* it was last set by a call that held the future of an
                         \* earlier entry (history variable)
    ready,               \* callbacks scheduled on the loop, by call
    pc,                  \* where a call is
    fut                  \* its local fut

vars == <<loop, entry, approval_future, result, decision_submitted, late,
          ready, pc, fut>>
run == <<loop, entry, approval_future>>
latch == <<decision_submitted, late>>
calls == <<pc, fut>>

Futures == 1 .. MaxEntries

Init ==
    /\ loop = "working"
    /\ entry = 0
    /\ approval_future = 0
    /\ result = [g \in Futures |-> NoCall]
    /\ decision_submitted = FALSE
    /\ late = FALSE
    /\ ready = << >>
    /\ pc = [c \in Calls |-> "called"]
    /\ fut = [c \in Calls |-> 0]

-----------------------------------------------------------------------------
(* The thread of the event loop.                                           *)

\* Mutant: a third diagnosis comes to the gate.
OpenGate_once_more ==
    /\ loop = "working" /\ entry <= MaxEntries
    /\ loop' = "arming"
    /\ entry' = entry + 1
    /\ approval_future' = entry + 1
    /\ UNCHANGED <<result, latch, ready, calls>>

\* approval(), up to the fresh future.
OpenGate ==
    /\ loop = "working" /\ entry < MaxEntries
    /\ loop' = "arming"
    /\ entry' = entry + 1
    /\ approval_future' = entry + 1
    /\ UNCHANGED <<result, latch, ready, calls>>

\* Mutant: the latch stays as the earlier gate left it.
Arm_no_reset ==
    /\ loop = "arming"
    /\ loop' = "parked"
    /\ UNCHANGED <<entry, approval_future, result, latch, ready, calls>>

\* The latch is reset, and the coroutine parks.
Arm ==
    /\ loop = "arming"
    /\ loop' = "parked"
    /\ decision_submitted' = FALSE
    /\ late' = FALSE
    /\ UNCHANGED <<entry, approval_future, result, ready, calls>>

\* Mutant: the callback looks the future up when it runs.
safe_set_result_current ==
    /\ ready # << >> /\ loop # "arming"
    /\ result' = IF approval_future # 0 /\ result[approval_future] = NoCall
                 THEN [result EXCEPT ![approval_future] = Head(ready)]
                 ELSE result
    /\ ready' = Tail(ready)
    /\ UNCHANGED <<run, latch, calls>>

\* Mutant: the guard of _safe_set_result is inverted.
safe_set_result_inverted ==
    /\ ready # << >> /\ loop # "arming"
    /\ ready' = Tail(ready)
    /\ UNCHANGED <<run, result, latch, calls>>

\* _safe_set_result, run between two stretches of coroutines.
safe_set_result ==
    /\ ready # << >> /\ loop # "arming"
    /\ LET c == Head(ready)
       IN  result' = IF result[fut[c]] = NoCall
                     THEN [result EXCEPT ![fut[c]] = c] ELSE result
    /\ ready' = Tail(ready)
    /\ UNCHANGED <<run, latch, calls>>

\* approval() returns its decision.
Resume ==
    /\ loop = "parked" /\ result[entry] # NoCall
    /\ loop' = "working"
    /\ approval_future' = 0
    /\ UNCHANGED <<entry, result, latch, ready, calls>>

\* The run ends, by its report or by an exception.
Leave ==
    /\ loop = "working"
    /\ loop' = "left"
    /\ UNCHANGED <<entry, approval_future, result, latch, ready, calls>>

-----------------------------------------------------------------------------
(* submit_decision in a thread, one access to the handle at a time.        *)

Goto(c, from, to) == pc[c] = from /\ pc' = [pc EXCEPT ![c] = to]

\* fut = h.approval_future; no future, no decision.
ReadFuture(c) ==
    /\ Goto(c, "called", IF approval_future = 0 THEN "refused" ELSE "read")
    /\ fut' = [fut EXCEPT ![c] = approval_future]
    /\ UNCHANGED <<run, result, latch, ready>>

\* fut.done()
TestDone(c) ==
    /\ Goto(c, "read", IF result[fut[c]] = NoCall THEN "open" ELSE "refused")
    /\ UNCHANGED <<run, result, latch, ready, fut>>

\* h.decision_submitted
TestLatch(c) ==
    /\ Goto(c, "open", IF decision_submitted THEN "refused" ELSE "free")
    /\ UNCHANGED <<run, result, latch, ready, fut>>

\* h.decision_submitted = True
SetLatch(c) ==
    /\ Goto(c, "free", "latched")
    /\ decision_submitted' = TRUE
    /\ late' = (fut[c] # approval_future)
    /\ UNCHANGED <<run, result, ready, fut>>

\* call_soon_threadsafe, and the answer ok.
Schedule(c) ==
    /\ Goto(c, "latched", "ok")
    /\ ready' = Append(ready, c)
    /\ UNCHANGED <<run, result, latch, fut>>

submit_decision(c) ==
    ReadFuture(c) \/ TestDone(c) \/ TestLatch(c) \/ SetLatch(c) \/ Schedule(c)

Next ==
    \/ OpenGate \/ Arm \/ safe_set_result \/ Resume \/ Leave
    \/ \E c \in Calls : submit_decision(c)

Spec == Init /\ [][Next]_vars

\* The event loop runs what is ready.
FairSpec == Spec /\ WF_vars(Arm) /\ WF_vars(safe_set_result) /\ WF_vars(Resume)
-----------------------------------------------------------------------------
(* Properties.                                                             *)

\* The gate, its latch and its queue, and what the calls hold of them.
TypeOK ==
    /\ loop \in {"working", "arming", "parked", "left"}
    /\ entry \in 0 .. MaxEntries
    /\ approval_future \in {0, entry}
    /\ result \in [Futures -> Calls \cup {NoCall}]
    /\ decision_submitted \in BOOLEAN
    /\ late \in BOOLEAN
    /\ ready \in Seq(Calls)
    /\ pc \in [Calls -> {"called", "read", "open", "free", "latched", "ok", "refused"}]
    /\ fut \in [Calls -> 0 .. entry]

\* A decision answers the gate entry it was made at and no other, however late
\* its thread comes to schedule it (runs.py:217, 224: the future is captured
\* before the tests and handed to the callback).
AnswersItsGate == \A g \in Futures : result[g] # NoCall => fut[result[g]] = g

\* The run waits for a decision that the latch keeps out, for good: none has been
\* made, none is on its way.
Wedged ==
    /\ loop = "parked" /\ decision_submitted
    /\ result[entry] = NoCall
    /\ \A i \in DOMAIN ready : fut[ready[i]] # entry
    /\ \A c \in Calls : pc[c] \in {"free", "latched"} => fut[c] # entry

\* Only a call that passed its tests at an earlier gate entry can lock a gate up,
\* by coming late to the latch: calls of one entry race without doing so (runs.py:103-104, 218-224).
WedgeNeedsALateCall == Wedged => late

\* A call that was told ok moves the run off the gate it was made at, by its own
\* decision or by another's (runs.py:209-212, 228-230).
OkMovesTheRun ==
    \A c \in Calls :
        pc[c] = "ok" ~> ~ (loop = "parked" /\ entry = fut[c])
=============================================================================
