--------------------------- MODULE MCTurnSupervisor ---------------------------
(* Small instances of the supervised turn: which runtime serves a turn and   *)
(* which chat session it belongs to.                                         *)
EXTENDS TurnSupervisor, TLC

CONSTANTS hosted, cli, s1, s2

OneRuntime  == [t \in Turn |-> cli]
OneSession  == [t \in Turn |-> s1]

\* The first turn is hosted, every other one is a CLI turn.
FirstTurn   == CHOOSE t \in Turn : TRUE
TwoRuntimes == [t \in Turn |-> IF t = FirstTurn THEN hosted ELSE cli]
\* The hosted turn belongs to a session, the CLI turn is the first message of
\* one: each resend of it gets a session id of its own.
FirstIsFresh == [t \in Turn |-> IF t = FirstTurn THEN s1 ELSE Fresh]
TwoSessions == [t \in Turn |-> IF t = FirstTurn THEN s1 ELSE s2]

Symmetry == Permutations(Exec) \cup Permutations(Proc)
===============================================================================
