---------------------------- MODULE MCSessionSteer ----------------------------
(* Two texts, of the starter or of another member, over two runs. *)
EXTENDS SessionSteer

===============================================================================
