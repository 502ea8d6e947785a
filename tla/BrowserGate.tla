----------------------------- MODULE BrowserGate -----------------------------
(***************************************************************************)
(* The page a human answers the gate from (web/templates/index.html),      *)
(* against the web process of RunEngine and a network that delays,         *)
(* reorders and loses. The page polls the snapshot of its run every second *)
(* whether or not the last poll was answered, renders what comes back, and *)
(* posts the decision of the human. A decision names the run, not the gate *)
(* entry or the proposal it answers; the model remembers both, and nothing  *)
(* in the page or the server reads what it remembers.                      *)
(*                                                                         *)
(* Kept of a snapshot: run, status and proposal; the page reads the last   *)
(* two. prompt() in reject() is part of the click: nothing is rendered     *)
(* while it is open. Decisions that are alike and under way at the same    *)
(* time count as one, and so do answers.                                   *)
(***************************************************************************)
EXTENDS RunEngine, SequencesExt

CONSTANTS
    NoRun,       \* no run is followed yet
    Edits,       \* what a human may type as targets
    MaxReplies,  \* bound on the snapshots under way
    MaxPosts     \* bound on the decisions, and on the answers, under way

ASSUME NoRunAssumption == NoRun \notin Runs
ASSUME EditsAssumption == Edits \subseteq SUBSET Names
ASSUME NetworkAssumption == MaxReplies \in Nat /\ MaxPosts \in Nat

VARIABLES
    runId,       \* the run the page follows
    followed,    \* the runs it has followed (history variable)
    timer,       \* the poll interval is set
    runBtn,      \* the button that starts a run is enabled
    starting,    \* the page's POSTs /api/runs it has no answer to
    view,        \* the snapshot last rendered
    submitting,  \* the page's latch; the buttons are disabled with it
    clicked,     \* the gate entry it was set at (history variable)
    input,       \* the targets in the text field
    typed,       \* what the human wants there (history variable)
    replies,     \* snapshots on their way to the page, in the order sent
    posts,       \* decisions on their way to the server
    answers,     \* their answers on the way back
    misled,      \* an edit was accepted with other targets than the human
                 \* wanted there (history variable)
    misdirected, \* a decision was accepted at another gate entry, or for another
                 \* proposal, than the one it was made at (history variable)
    faulty       \* a decision or its answer was lost, a snapshot overtook
                 \* another or came after its run was left, or a run was started
                 \* while another was starting or polled (history variable)

latch == <<submitting, clicked>>
field == <<input, typed>>
start == <<runBtn, starting>>
page == <<runId, followed, timer, start, view, latch, field>>
network == <<replies, posts, answers, faulty>>
taken == <<misled, misdirected>>
browserVars == <<engineVars, page, network, taken>>

\* Mutant: a run that raised is not recognised as over.
TERMINAL_without_error == {"resolved", "unresolved", "no-issue", "baseline_missing",
                           "diagnosis_failed", "orphaned", "done"}

TERMINAL == {"resolved", "unresolved", "no-issue", "baseline_missing",
             "diagnosis_failed", "error", "orphaned", "done"}

NoSnapshot == [run |-> NoRun, status |-> "none", proposal |-> NoProposal, gate |-> 0]

BrowserInit ==
    /\ EngineInit
    /\ runId = NoRun
    /\ followed = {}
    /\ timer = FALSE
    /\ runBtn = TRUE
    /\ starting = {}
    /\ view = NoSnapshot
    /\ submitting = FALSE
    /\ clicked = 0
    /\ input = {}
    /\ typed = {}
    /\ replies = << >>
    /\ posts = {}
    /\ answers = {}
    /\ misled = FALSE
    /\ misdirected = FALSE
    /\ faulty = FALSE

-----------------------------------------------------------------------------
\* The process goes on: everything but the decisions, which the page posts.
EngineMoves ==
    /\ \/ \E r \in Runs :
             \/ CheckCap(r) \/ UnknownConnection(r) \/ start_run(r)
             \/ Drive(r) \/ safe_set_result(r) \/ Resume(r)
       \/ Stop \/ Start
    /\ UNCHANGED <<page, network, taken>>

\* The human starts a run. The button is disabled and the gate hidden, until a
\* snapshot that is still to come says otherwise: one of an end enables the button,
\* one of an open gate shows it, whatever has been clicked in the meantime.
startRun(r) ==
    /\ runBtn
    /\ post[r] = "none" /\ r \notin starting
    /\ runBtn' = FALSE
    /\ starting' = starting \cup {r}
    /\ view' = NoSnapshot
    /\ faulty' = (faulty \/ timer \/ starting # {})
    /\ UNCHANGED <<engineVars, runId, followed, timer, latch, field, replies, posts,
                   answers, taken>>

\* Its answer arrives: the page leaves the run it followed, whose interval is
\* cleared, and polls the new one. What the last snapshot showed stays.
startPolling(r) ==
    /\ r \in starting /\ post[r] = "accepted"
    /\ starting' = starting \ {r}
    /\ runId' = r
    /\ followed' = followed \cup {r}
    /\ timer' = TRUE
    /\ UNCHANGED <<engineVars, runBtn, view, latch, field, network, taken>>

\* The POST is refused, or it or its answer is lost.
startFails(r) ==
    /\ r \in starting
    /\ starting' = starting \ {r}
    /\ runBtn' = TRUE
    /\ UNCHANGED <<engineVars, runId, followed, timer, view, latch, field, network, taken>>

\* GET /api/runs/{run_id}: an unknown run is a 404, which poll() swallows. While
\* a refused edit is diagnosed again, the gate shown is still the first one.
snapshot(r) ==
    [run |-> r, status |-> handle[r].status, proposal |-> handle[r].pending,
     gate |-> IF pc[r] = "diagnose" THEN 0 ELSE attempt[r]]

Poll ==
    /\ timer /\ up /\ runId \in RUNS
    /\ Len(replies) < MaxReplies
    /\ replies' = Append(replies, snapshot(runId))
    /\ UNCHANGED <<engineVars, page, posts, answers, faulty, taken>>

GateOpen(s) == s.status = "awaiting_approval" /\ s.proposal # NoProposal
Editable(s) == GateOpen(s) /\ s.proposal.action # "manual"

\* The latch, with the gate entry it is set at.
Latch(set, entry) ==
    /\ submitting' = set
    /\ clicked' = IF set THEN entry ELSE 0

\* The field is written on every render, the latch released by one without a
\* gate. What the human wants to have in the field starts from the proposal.
render(s) ==
    /\ view' = s
    /\ input' = IF Editable(s) THEN s.proposal.targets ELSE input
    /\ typed' = IF GateOpen(s) /\ (~ GateOpen(view) \/ s.proposal # view.proposal)
                THEN s.proposal.targets ELSE typed
    /\ Latch(submitting /\ GateOpen(s), clicked)

\* The i-th snapshot under way arrives. Nothing asks which run it is of.
Arrives(i) ==
    /\ replies' = RemoveAt(replies, i)
    /\ render(replies[i])
    /\ runBtn' = (runBtn \/ replies[i].status \in TERMINAL)
    /\ faulty' = (faulty \/ i # 1 \/ replies[i].run # runId)
    /\ UNCHANGED <<engineVars, runId, followed, starting, posts, answers, taken>>

\* Mutant: a run that is being diagnosed again counts as over.
RenderReply_rediagnosing_ends(i) ==
    /\ Arrives(i)
    /\ timer' = (timer /\ replies[i].status \notin TERMINAL \cup {"rediagnosing"})

RenderReply(i) ==
    /\ Arrives(i)
    /\ timer' = (timer /\ replies[i].status \notin TERMINAL)

LoseReply ==
    /\ \E i \in DOMAIN replies : replies' = RemoveAt(replies, i)
    /\ UNCHANGED <<engineVars, page, posts, answers, faulty, taken>>

-----------------------------------------------------------------------------
(* The human at the gate card.                                             *)

Edit(T) ==
    /\ Editable(view)
    /\ input' = T
    /\ typed' = T
    /\ UNCHANGED <<engineVars, runId, followed, timer, start, view, latch, network, taken>>

Click(decision) ==
    /\ GateOpen(view) /\ ~ submitting
    /\ decision = "modified" => Editable(view)
    /\ Cardinality(posts) < MaxPosts
    /\ Latch(TRUE, view.gate)
    /\ UNCHANGED <<engineVars, runId, followed, timer, start, view, field, replies,
                   answers, faulty, taken>>

Post(decision, targets) ==
    posts' = posts \cup {[decision |-> decision, targets |-> targets,
                          wanted |-> typed, run |-> runId, gate |-> view.gate,
                          proposal |-> view.proposal]}

\* Mutant: a rejection is posted under the name of its button.
decide_button_names(decision) ==
    /\ Click(decision)
    /\ IF decision = "rejected" THEN Post("reject", {}) ELSE Post(decision, input)

\* decide(decision), reject().
decide(decision) ==
    /\ Click(decision)
    /\ Post(decision, IF decision = "rejected" THEN {} ELSE input)

-----------------------------------------------------------------------------
(* POST .../decision over the network.                                     *)

\* A decision reaches the process, and is answered.
Answered(p, result) ==
    /\ Cardinality(answers) < MaxPosts
    /\ posts' = posts \ {p}
    /\ answers' = answers \cup {result}
    /\ UNCHANGED <<page, replies>>

\* What is remembered of a decision that is accepted.
Take(p) ==
    /\ misled' = (misled \/ (p.decision = "modified" /\ p.targets # p.wanted))
    /\ misdirected' = (misdirected \/ p.gate # handle[p.run].future.gate
                                   \/ p.proposal # proposal[p.run])

\* Mutant: the route does not ask the gate.
DeliverPost_unguarded(p) ==
    /\ p \in posts /\ up /\ p.run \in RUNS
    /\ accepted' = [accepted EXCEPT ![p.run][attempt[p.run]] =
                       Append(@, [decision |-> p.decision, targets |-> p.targets])]
    /\ UNCHANGED <<vars, up, post, RUNS, handle, ready, store, history>>
    /\ Take(p)
    /\ Answered(p, "ok")
    /\ UNCHANGED faulty

\* The route: ok, or an error (404, 409).
DeliverPost(p) ==
    /\ p \in posts /\ up
    /\ \/ /\ submit_decision(p.run, [decision |-> p.decision, targets |-> p.targets])
          /\ Take(p)
          /\ Answered(p, "ok")
       \/ /\ p.run \notin RUNS \/ handle[p.run].future.state # "pending"
                               \/ handle[p.run].decision_submitted
          /\ Answered(p, "error")
          /\ UNCHANGED <<engineVars, taken>>
    /\ UNCHANGED faulty

\* The request, or its answer, is lost: fetch throws.
LosePost ==
    /\ \E p \in posts : Answered(p, "error")
    /\ faulty' = TRUE
    /\ UNCHANGED <<engineVars, taken>>

LoseAnswer ==
    /\ \E a \in answers : answers' = (answers \ {a}) \cup {"error"}
    /\ faulty' = TRUE
    /\ UNCHANGED <<engineVars, page, replies, posts, taken>>

\* Mutant: no answer re-enables the buttons.
AnswerArrives_keeps_latch ==
    /\ \E a \in answers : answers' = answers \ {a}
    /\ UNCHANGED latch
    /\ UNCHANGED <<engineVars, runId, followed, timer, start, view, field, replies,
                   posts, faulty, taken>>

\* Mutant: any answer re-enables the buttons.
AnswerArrives_releases ==
    /\ \E a \in answers :
          /\ answers' = answers \ {a}
          /\ Latch(FALSE, clicked)
    /\ UNCHANGED <<engineVars, runId, followed, timer, start, view, field, replies,
                   posts, faulty, taken>>

\* An error re-enables the buttons, an ok leaves that to the next poll.
AnswerArrives ==
    /\ \E a \in answers :
          /\ answers' = answers \ {a}
          /\ Latch(submitting /\ a = "ok", clicked)
    /\ UNCHANGED <<engineVars, runId, followed, timer, start, view, field, replies,
                   posts, faulty, taken>>

-----------------------------------------------------------------------------
BrowserNext ==
    \/ EngineMoves
    \/ \E r \in Runs : startRun(r) \/ startPolling(r) \/ startFails(r)
    \/ Poll \/ (\E i \in DOMAIN replies : RenderReply(i)) \/ LoseReply
    \/ \E T \in Edits : Edit(T)
    \/ \E d \in {"approved", "modified", "rejected"} : decide(d)
    \/ (\E p \in posts : DeliverPost(p)) \/ LosePost
    \/ AnswerArrives \/ LoseAnswer

BrowserSpec == BrowserInit /\ [][BrowserNext]_browserVars

\* The page polls; the network does not lose every snapshot for ever.
FairBrowserSpec ==
    /\ BrowserSpec
    /\ WF_browserVars(Poll)
    /\ SF_browserVars(\E i \in DOMAIN replies : RenderReply(i))
-----------------------------------------------------------------------------
(* Properties.                                                             *)

Snapshots == [run : Runs \cup {NoRun}, status : Statuses \cup {"none"},
              proposal : Proposal, gate : Gates]

\* The page, and what is on its way between page and server.
BrowserTypeOK ==
    /\ runId \in Runs \cup {NoRun}
    /\ timer \in BOOLEAN
    /\ runBtn \in BOOLEAN
    /\ starting \subseteq Runs
    /\ view \in Snapshots
    /\ submitting \in BOOLEAN
    /\ clicked \in Gates
    /\ followed \subseteq Runs
    /\ input \subseteq Names
    /\ typed \subseteq Names
    /\ replies \in Seq(Snapshots)
    /\ posts \subseteq [decision : {"approved", "modified", "rejected"},
                        targets : SUBSET Names, wanted : SUBSET Names,
                        run : Runs, gate : Gates, proposal : Proposal]
    /\ answers \subseteq {"ok", "error"}
    /\ misled \in BOOLEAN /\ misdirected \in BOOLEAN /\ faulty \in BOOLEAN

\* What the page sees is of the run it follows: it has followed no other, or no
\* fault brought it a snapshot of another.
SeesItsRun == runId # NoRun /\ (followed = {runId} \/ ~ faulty)

\* The page stops polling only when its run is over: on its first run in whatever
\* order the snapshots come back, on a later one unless a late snapshot of an
\* earlier run, or of one that was started with it, ends the polling for it
\* (index.html:161, 178-187).
PollsWhileLive == SeesItsRun /\ ~ timer => pc[runId] \in Ended

\* A decision names only its run (index.html:280-283), and yet it is taken at the
\* gate entry it was made at, for the proposal that was on the page, unless the
\* network lost a decision or an answer, or let a snapshot overtake another or
\* outlast its run, or a late snapshot of an end let the human start two runs at
\* once: the latch and the polls see to that.
WrongGateNeedsFault == misdirected => faulty

\* When everything has been answered and the buttons are still disabled, the click
\* was taken, at the gate shown or a later one: refusals, losses and crossed
\* answers of two clicks never lock the page (index.html:222-226, 285-288).
LatchMeansTaken ==
    SeesItsRun /\ submitting /\ posts = {} /\ answers = {} =>
        \E g \in clicked .. 1 : accepted[runId][g] # << >>

\* A page and a faulty network in front of it add nothing to what the process
\* does: each accepted POST is one of RunEngine.
EngineKept == EngineSpec

\* The end of a run comes to be seen, unless the process forgets the run.
EndIsSeen ==
    \A r \in Runs :
        (runId = r /\ r \in RUNS /\ pc[r] \in Ended) ~> (~ timer \/ r \notin RUNS)

-----------------------------------------------------------------------------
(* Statements of the docs and comments that the code does not keep.        *)

\* index.html:93, "edit to modify before approving": the edited targets are the
\* ones that are posted.
EditIsPosted == ~ misled

\* index.html:220, "keep buttons disabled ... while a decision is in flight": the
\* page that shows a gate nobody has answered, with nothing under way, lets the
\* human answer it. (A rejection is left out: its gate goes off the page before the
\* next one, if a poll is quick enough to see that.)
ButtonsFollowTheGate ==
    /\ GateOpen(view) /\ view = snapshot(runId)
    /\ accepted[runId][view.gate] = << >>
    /\ answer[runId].decision # "rejected"
    /\ posts = {} /\ answers = {}
    => ~ submitting
=============================================================================
