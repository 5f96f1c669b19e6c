---------------------------- MODULE TurnContract ----------------------------
(***************************************************************************)
(* What the turn supervisor promises for one user message, whatever        *)
(* happens to the server meanwhile: it is committed to a provider at most  *)
(* once, decided at most once, and a cancellation that was requested       *)
(* before the decision is never answered by a success (nor a cancelled     *)
(* outcome given without a request).                                       *)
(***************************************************************************)
CONSTANT Turn

VARIABLES phase,      \* "open", "committed", then its outcome
          requested   \* the turns whose cancellation was durably requested

contractVars == <<phase, requested>>

Decided == {"succeeded", "failed", "cancelled"}

ContractInit == /\ phase = [t \in Turn |-> "open"]
                /\ requested = {}

Commit(t) == /\ phase[t] = "open"
             /\ phase' = [phase EXCEPT ![t] = "committed"]
             /\ UNCHANGED requested

Request(t) == /\ phase[t] \notin Decided
              /\ requested' = requested \cup {t}
              /\ UNCHANGED phase

(* A turn may also be given up before any commitment; success needs one.    *)
Decide(t, outcome) ==
    /\ phase[t] \notin Decided
    /\ outcome = "succeeded" => phase[t] = "committed"
    /\ (outcome = "cancelled") <=> t \in requested
    /\ phase' = [phase EXCEPT ![t] = outcome]
    /\ UNCHANGED requested

ContractNext == \E t \in Turn : \/ Commit(t)
                                \/ Request(t)
                                \/ \E outcome \in Decided : Decide(t, outcome)

ContractSpec == ContractInit /\ [][ContractNext]_contractVars
=============================================================================
