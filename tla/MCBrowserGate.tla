--------------------------- MODULE MCBrowserGate ---------------------------
(***************************************************************************)
(* One page on one run; the model proposes a connection sync, or a table   *)
(* resync or a manual action.                                              *)
(***************************************************************************)
EXTENDS BrowserGate

CONSTANTS core, rows

MCChecks == {rows}
MCTableOf == [c \in MCChecks |-> core]

Proposes(action, targets) ==
    [action |-> action, targets |-> targets,
     instructions |-> action = "manual", explained |-> TRUE]

\* A write whose targets do not matter: the field stays empty.
MCSync == {Proposes("sync_connection", {})}
MCResync == {Proposes("resync_tables", {core}), Proposes("manual", {})}
=============================================================================
