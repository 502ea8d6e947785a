---------------------------- MODULE Remediation ----------------------------
(***************************************************************************)
(* The vocabulary of a remediation: what the diagnosis model may propose,  *)
(* when a proposal is valid (diagnose.py), and which Fivetran write call   *)
(* an approval of it stands for (act.py).                                  *)
(*                                                                         *)
(* Data kept: the action, the set of target tables, whether the manual     *)
(* instructions are there, whether root cause and severity are there.      *)
(* Wording, evidence and the connection id are abstracted away.            *)
(***************************************************************************)
EXTENDS Naturals, FiniteSets

CONSTANTS
    Names,         \* table names a connection, the model or a human may mention
    KnownTables,   \* bq.KNOWN_TABLES, the allowlist of inspected tables
    ModelOutputs   \* the answers the diagnosis model is able to give

VALID_ACTIONS == {"sync_connection", "resync_connection", "resync_tables",
                  "reload_schema", "manual"}

\* An answer of the model; "none" stands for a model that never called
\* propose_remediation, "unknown" for any action outside VALID_ACTIONS.
Proposal == [action       : VALID_ACTIONS \cup {"unknown", "none"},
             targets      : SUBSET Names,
             instructions : BOOLEAN,     \* manual_instructions is not empty
             explained    : BOOLEAN]     \* root_cause and severity are valid

NoProposal == [action |-> "none", targets |-> {},
               instructions |-> FALSE, explained |-> FALSE]

ASSUME KnownTablesAssumption == KnownTables \subseteq Names
ASSUME ModelOutputsAssumption == ModelOutputs \subseteq Proposal

ACTION_TO_TOOL == [sync_connection   |-> "sync_connection",
                   resync_connection |-> "resync_connection",
                   resync_tables     |-> "resync_tables",
                   reload_schema     |-> "reload_connection_schema_config"]

\* A write call: the tool, and the two fields its request body may carry.
NoCall == [tool |-> "none", schema |-> {}, preserve |-> FALSE]

Call == [tool     : {"none", "sync_connection", "resync_connection",
                     "resync_tables", "reload_connection_schema_config"},
         schema   : SUBSET Names,    \* {"schema": targets}
         preserve : BOOLEAN]         \* {"exclude_mode": "PRESERVE"}

\* Mutant: a table resync may name no table.
validate_payload_no_targets_check(p) ==
    /\ p.action \in VALID_ACTIONS
    /\ p.action = "manual" => p.instructions
    /\ p.explained

\* TRUE when the code's list of validation errors is empty.
validate_payload(p) ==
    /\ p.action \in VALID_ACTIONS
    /\ p.action = "resync_tables" => p.targets # {}
    /\ p.action = "manual" => p.instructions
    /\ p.explained

request_body(action, targets) ==
    [schema   |-> IF action = "resync_tables" THEN targets ELSE {},
     preserve |-> action = "reload_schema"]

\* The call an approval executes. The ValueError branch of the code is the
\* undefined ACTION_TO_TOOL[a]: the loop reaches it for no valid proposal.
planned_call(p) ==
    IF p.action = "manual"
    THEN NoCall
    ELSE LET body == request_body(p.action, p.targets)
         IN  [tool     |-> ACTION_TO_TOOL[p.action],
              schema   |-> body.schema,
              preserve |-> body.preserve]
=============================================================================
