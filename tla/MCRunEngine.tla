----------------------------- MODULE MCRunEngine -----------------------------
(***************************************************************************)
(* Two runs in one process, one table with one check. The model answers    *)
(* with a table resync or with no tool call; a human may approve, reject,  *)
(* edit to the same target, or edit all targets away.                      *)
(***************************************************************************)
EXTENDS RunEngine, TLC

CONSTANTS core, rows, r1, r2

MCChecks == {rows}
MCTableOf == [c \in MCChecks |-> core]
MCModelOutputs ==
    {[action |-> "resync_tables", targets |-> {core},
      instructions |-> FALSE, explained |-> TRUE],
     NoProposal}

RunsAlike == Permutations(Runs)
=============================================================================
