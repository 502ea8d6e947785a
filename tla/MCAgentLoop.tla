----------------------------- MODULE MCAgentLoop -----------------------------
(***************************************************************************)
(* One run over two tables, one of them with two checks, and a table name  *)
(* outside the allowlist. The model may answer with each kind of proposal  *)
(* that takes a different path: a table resync (of an inspected table, of  *)
(* a table that is not), an empty one, a connection sync, a schema reload, *)
(* a manual action, no tool call at all.                                   *)
(***************************************************************************)
EXTENDS AgentLoop

CONSTANTS core, loans, secret, rows, fresh, nulls, sync_broken

MCNames == {core, loans, secret}
MCKnownTables == {core, loans}
MCChecks == {rows, fresh, nulls}
MCTableOf == [c \in MCChecks |-> IF c = nulls THEN loans ELSE core]

Answer(action, targets) ==
    [action |-> action, targets |-> targets,
     instructions |-> action = "manual", explained |-> action # "none"]

MCModelOutputs ==
    {Answer("resync_tables", {core, secret}), Answer("resync_tables", {}),
     Answer("sync_connection", {}), Answer("reload_schema", {loans}),
     Answer("manual", {}), NoProposal}
=============================================================================
