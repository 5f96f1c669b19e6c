--------------------------- MODULE MessageIngress ---------------------------
(***************************************************************************)
(* The ingress ledger, one row per client message id                       *)
(* (database/repositories/message-coordination.db.ts): the first payload   *)
(* claimed for an id is bound to it, a resend is answered from the row,    *)
(* and only a proof that nothing started opens the row again.  Shared by   *)
(* chat deliveries and scheduled messages.                                 *)
(***************************************************************************)
CONSTANTS Message, Content

VARIABLE ingress   \* [Message -> [state, content, verdict, accepted]]

IngressStates == {"absent", "claimed", "started", "not_started", "terminal"}
Verdicts      == {"none", "ok", "failed"}

(* accepted is accepted_at: set with the first activity, never cleared.     *)
IngressRow == [state : IngressStates, content : Content \cup {0}, verdict : Verdicts, accepted : BOOLEAN]

IngressType == ingress \in [Message -> IngressRow]

IngressInit ==
    ingress = [m \in Message |-> [state |-> "absent", content |-> 0, verdict |-> "none", accepted |-> FALSE]]

(* Plausible bugs: a claim without a verdict taken for one that failed, and *)
(* a fingerprint that is not compared.                                      *)
ClaimAnswerRetries(m, content) ==
    LET row == ingress[m] IN
    CASE row.state # "absent" /\ row.content # content -> "fingerprint_mismatch"
      [] row.content = content /\ row.state = "terminal" -> "replay_verdict"
      [] OTHER -> "dispatch"

ClaimAnswerUnbound(m, content) ==
    LET row == ingress[m] IN
    CASE row.state \in {"absent", "not_started"} -> "dispatch"
      [] row.state = "terminal" -> "replay_verdict"
      [] OTHER -> "ambiguous_started"

(* The answer to a claim: the fingerprint is compared before the lifecycle. *)
ClaimAnswer(m, content) ==
    LET row == ingress[m] IN
    CASE row.state = "absent"      -> "dispatch"
      [] row.state # "absent" /\ row.content # content -> "fingerprint_mismatch"
      [] row.content = content /\ row.state = "not_started" -> "dispatch"
      [] row.content = content /\ row.state = "terminal"    -> "replay_verdict"
      [] OTHER -> "ambiguous_started"

(* A claim inserts the row, or reopens one whose turn never started; the    *)
(* bound payload stays.                                                     *)
Claim(m, content) ==
    ingress' =
        CASE ingress[m].state = "absent" ->
                 [ingress EXCEPT ![m] = [state |-> "claimed", content |-> content, verdict |-> "none",
                                         accepted |-> FALSE]]
          [] ingress[m].state # "absent" /\ ClaimAnswer(m, content) = "dispatch" ->
                 [ingress EXCEPT ![m].state = "claimed", ![m].verdict = "none"]
          [] OTHER -> ingress

(* First trusted activity of the turn.                                      *)
MarkStarted(m) ==
    ingress' = IF ingress[m].state \in {"claimed", "started"}
               THEN [ingress EXCEPT ![m].state = "started", ![m].accepted = TRUE] ELSE ingress

(* A proof of not having started counts only before any activity; an        *)
(* outcome counts until there is one: the first terminal frame wins.        *)
AllowedPrior(status) == IF status = "not_started" THEN {"claimed"} ELSE {"claimed", "started"}

RecordVerdict(m, status, verdict) ==
    ingress' = IF ingress[m].state \in AllowedPrior(status)
               THEN [ingress EXCEPT ![m].state = status, ![m].verdict = verdict] ELSE ingress

=============================================================================
