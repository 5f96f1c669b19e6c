--------------------------- MODULE TurnRepository ---------------------------
(***************************************************************************)
(* The durable turn and run rows.  A turn has exactly one run (attempt 1), *)
(* so both tables are indexed by the turn.  Every operator is one          *)
(* transaction; expected epochs are compare-and-swap operands.             *)
(* Source: server/modules/turn-supervisor/repository.ts, state-machine.ts. *)
(***************************************************************************)
EXTENDS Naturals

CONSTANT Turn        \* one per (user, clientMsgId): the UNIQUE key of the table

VARIABLES turn, run

RunRowStates  == {"absent", "claimed", "running", "terminal"}
TurnRowStates == {"absent", "accepted", "running", "terminal"}
Outcomes      == {"succeeded", "failed", "cancelled"}

Row(state, epoch, outcome) == [state |-> state, epoch |-> epoch, outcome |-> outcome]
NoRow == Row("absent", 0, "none")

RepositoryInit == /\ turn = [t \in Turn |-> NoRow]
                  /\ run  = [t \in Turn |-> NoRow]

(* INSERT OR IGNORE: the first claim writes both rows, a later one nothing. *)
ClaimInDatabase(t) ==
    IF turn[t].state = "absent"
    THEN /\ turn' = [turn EXCEPT ![t] = Row("accepted", 0, "none")]
         /\ run'  = [run EXCEPT ![t] = Row("claimed", 0, "none")]
    ELSE UNCHANGED <<turn, run>>

(* What a claim answers about a run that already has a row.                 *)
ClassifyDuplicateRun(state) ==
    CASE state = "claimed"  -> "resume_safe"
      [] state = "terminal" -> "replay_terminal"
      [] OTHER              -> "ambiguous"

CanStartUnfenced(t, turnEpoch, runEpoch) ==
    run[t].state \in {"claimed", "running"} /\ turn[t].state \in {"accepted", "running"}

CanStart(t, turnEpoch, runEpoch) ==
    /\ run[t].state = "claimed"   /\ run[t].epoch = runEpoch
    /\ turn[t].state = "accepted" /\ turn[t].epoch = turnEpoch

(* Both rows move to running, or neither.                                   *)
StartExecution(t, turnEpoch, runEpoch) ==
    /\ CanStart(t, turnEpoch, runEpoch)
    /\ run'  = [run EXCEPT ![t] = Row("running", runEpoch + 1, "none")]
    /\ turn' = [turn EXCEPT ![t] = Row("running", turnEpoch + 1, "none")]

CanFinish(t, turnEpoch, runEpoch) ==
    /\ run[t].state = "running"  /\ run[t].epoch = runEpoch
    /\ turn[t].state = "running" /\ turn[t].epoch = turnEpoch

(* Both rows become terminal with one outcome, or neither does.             *)
FinishExecution(t, turnEpoch, runEpoch, outcome) ==
    /\ CanFinish(t, turnEpoch, runEpoch)
    /\ run'  = [run EXCEPT ![t] = Row("terminal", runEpoch + 1, outcome)]
    /\ turn' = [turn EXCEPT ![t] = Row("terminal", turnEpoch + 1, outcome)]
=============================================================================
