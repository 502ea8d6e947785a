---------------------------- MODULE GateContract ----------------------------
(***************************************************************************)
(* What the approval gate promises, independently of how the loop gets     *)
(* there (runs.py, module docstring; agent-loop spec, step 5 and 6): a     *)
(* human is offered a valid plan, at most two of them per run; the plan is *)
(* cleared as it stands or with its targets narrowed to allowlisted        *)
(* tables; only a cleared plan is executed, as exactly the call it stands  *)
(* for, and at most once. AgentLoop implements this module.                *)
(***************************************************************************)
EXTENDS Remediation, Sequences

CONSTANT Runs

VARIABLES
    phase,    \* where the gate of a run stands
    plan,     \* the plan the run last offered
    revised,  \* the run has used the one revision a refusal buys
    calls     \* the write calls sent to Fivetran

vars == <<phase, plan, revised, calls>>

Phases == {"idle", "offered", "cleared", "acted", "closed"}

Init ==
    /\ phase = [r \in Runs |-> "idle"]
    /\ plan = [r \in Runs |-> NoProposal]
    /\ revised = [r \in Runs |-> FALSE]
    /\ calls = [r \in Runs |-> << >>]

Offer(r) ==
    /\ phase[r] = "idle"
    /\ \E p \in ModelOutputs :
          /\ validate_payload(p)
          /\ plan' = [plan EXCEPT ![r] = p]
    /\ phase' = [phase EXCEPT ![r] = "offered"]
    /\ UNCHANGED <<revised, calls>>

Clear(r) ==
    /\ phase[r] = "offered"
    /\ phase' = [phase EXCEPT ![r] = "cleared"]
    /\ UNCHANGED <<plan, revised, calls>>

ClearNarrowed(r) ==
    /\ phase[r] = "offered"
    /\ \E T \in SUBSET KnownTables :
          /\ validate_payload([plan[r] EXCEPT !.targets = T])
          /\ plan' = [plan EXCEPT ![r].targets = T]
    /\ phase' = [phase EXCEPT ![r] = "cleared"]
    /\ UNCHANGED <<revised, calls>>

Refuse(r) ==
    /\ phase[r] = "offered"
    /\ phase' = [phase EXCEPT ![r] = IF revised[r] THEN "closed" ELSE "idle"]
    /\ revised' = [revised EXCEPT ![r] = TRUE]
    /\ UNCHANGED <<plan, calls>>

\* A manual plan is carried out by people: it sends nothing.
Execute(r) ==
    /\ phase[r] = "cleared"
    /\ phase' = [phase EXCEPT ![r] = "acted"]
    /\ calls' = IF plan[r].action = "manual"
                THEN calls
                ELSE [calls EXCEPT ![r] = Append(@, planned_call(plan[r]))]
    /\ UNCHANGED <<plan, revised>>

\* A run may end at any point, and a process that stops ends several at once.
Close(S) ==
    /\ S # {}
    /\ phase' = [r \in Runs |-> IF r \in S THEN "closed" ELSE phase[r]]
    /\ UNCHANGED <<plan, revised, calls>>

Next ==
    \/ \E r \in Runs : \/ Offer(r) \/ Clear(r) \/ ClearNarrowed(r)
                       \/ Refuse(r) \/ Execute(r)
    \/ \E S \in SUBSET Runs : Close(S)

Spec == Init /\ [][Next]_vars
=============================================================================
