----------------------------- MODULE MCPeerRelay -----------------------------
(* Two messages to one or two sessions, an old and a new process. *)
EXTENDS PeerRelay, TLC

AllFaults == {"ledger", "orphan"}
===============================================================================
