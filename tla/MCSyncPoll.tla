---------------------------- MODULE MCSyncPoll ----------------------------
(***************************************************************************)
(* Two runs on one connection with up to three syncs; two sleeps fit into  *)
(* the timeout, and a slow call can use up the room of one.                *)
(***************************************************************************)
EXTENDS SyncPoll, TLC

RunsAlike == Permutations(Runs)
=============================================================================
