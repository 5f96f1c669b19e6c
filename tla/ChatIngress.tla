----------------------------- MODULE ChatIngress -----------------------------
(***************************************************************************)
(* Chat messages over the websocket and the ingress ledger: several        *)
(* deliveries of one message (resends after a lost connection, two tabs),  *)
(* the gate that answers them, the frames of a turn and what they record.  *)
(* Source: server/modules/websocket/services/chat-websocket.service.ts,    *)
(* dispatchProviderCommand and withCoordinationMetadata.  If the provider  *)
(* of a message has a turn supervisor an ambiguous delivery goes on to it; *)
(* the supervisor (module TurnSupervisor) is reduced to what it answers a  *)
(* duplicate.                                                              *)
(***************************************************************************)
EXTENDS MessageIngress, Integers, FiniteSets

CONSTANTS Call,        \* deliveries
          Supervised,  \* the messages whose provider has a turn supervisor
          MaxExits, None

ASSUME IngressAssumption ==
    Supervised \subseteq Message /\ MaxExits \in Nat /\ None \notin Message /\ 0 \notin Content

VARIABLES call,      \* [Call -> [msg, content, phase, reply]]
          launched,  \* history: deliveries that launched the provider
          outcome,   \* history: how the launched turn ended
          errored,   \* history: messages whose turn sent an error frame and went on
          exits

vars == <<ingress, call, launched, outcome, errored, exits>>

Idle == [msg |-> None, content |-> 0, phase |-> "idle", reply |-> "none"]

Init == /\ IngressInit
        /\ call = [c \in Call |-> Idle]
        /\ launched = [m \in Message |-> {}]
        /\ outcome = [m \in Message |-> "none"]
        /\ errored = {}
        /\ exits = 0

(* A frame that ends a delivery: what the client is told.                   *)
Answers(c, reply) == call' = [call EXCEPT ![c].phase = "done", ![c].reply = reply]

Sidecar(write) == write \/ UNCHANGED ingress

-----------------------------------------------------------------------------
(* The gate.  A durable verdict is replayed; a mismatch is refused; so is   *)
(* an ambiguous delivery, unless a supervisor can answer it.                *)
Arrive(c, m, content) ==
    LET answer == ClaimAnswer(m, content)
        next   == CASE answer = "dispatch" -> [phase |-> "claimed", reply |-> "none"]
                    [] answer = "replay_verdict" -> [phase |-> "done", reply |-> ingress[m].verdict]
                    [] answer = "ambiguous_started" /\ m \in Supervised -> [phase |-> "claimed", reply |-> "none"]
                    [] OTHER -> [phase |-> "done", reply |-> "refused"]
    IN /\ call[c].phase = "idle"
       /\ Claim(m, content)
       /\ call' = [call EXCEPT ![c] = [msg |-> m, content |-> content,
                                      phase |-> next.phase, reply |-> next.reply]]
       /\ UNCHANGED <<launched, outcome, errored, exits>>

(* The ledger is unavailable: refused before anything is claimed.           *)
ClaimFails(c, m, content) ==
    /\ call[c].phase = "idle"
    /\ call' = [call EXCEPT ![c] = [msg |-> m, content |-> content, phase |-> "done", reply |-> "unavailable"]]
    /\ UNCHANGED <<ingress, launched, outcome, errored, exits>>

(* Workspace, permission, busy session: a frame that proves this delivery   *)
(* started nothing, and allows the same message id again.                   *)
RefusedNotStarted(c) ==
    /\ call[c].phase = "claimed"
    /\ Sidecar(RecordVerdict(call[c].msg, "not_started", "none"))
    /\ Answers(c, "retryable")
    /\ UNCHANGED <<launched, outcome, errored, exits>>

(* Hand-off to the provider; a supervisor starts a message only once.       *)
Launch(c) ==
    /\ call[c].phase = "claimed"
    /\ call[c].msg \in Supervised => launched[call[c].msg] = {}
    /\ call' = [call EXCEPT ![c].phase = "live"]
    /\ launched' = [launched EXCEPT ![call[c].msg] = @ \cup {c}]
    /\ UNCHANGED <<ingress, outcome, errored, exits>>

(* The supervisor replays the stored result of a duplicate, or calls it     *)
(* ambiguous; either answer is a terminal frame of this delivery.           *)
SupervisorAnswers(c) ==
    LET m == call[c].msg
        verdict == IF outcome[m] = "ok" THEN "ok" ELSE "failed" IN
    /\ m \in Supervised /\ call[c].phase = "claimed" /\ launched[m] # {}
    /\ Sidecar(RecordVerdict(m, "terminal", verdict))
    /\ Answers(c, verdict)
    /\ UNCHANGED <<launched, outcome, errored, exits>>

ActivityOfAnyFrame(c) ==
    /\ call[c].phase \in {"claimed", "live"}
    /\ Sidecar(MarkStarted(call[c].msg))
    /\ UNCHANGED <<call, launched, outcome, errored, exits>>

(* A frame of model activity.                                               *)
Activity(c) ==
    /\ call[c].phase = "live"
    /\ Sidecar(MarkStarted(call[c].msg))
    /\ UNCHANGED <<call, launched, outcome, errored, exits>>

(* An error frame of a turn that goes on (a line of stderr, an output line  *)
(* that does not parse: opencode-cli.js, cursor-cli.js).  The gate takes    *)
(* every error frame for a verdict, and the first verdict stays.            *)
ErrorFrame(c) ==
    LET m == call[c].msg IN
    /\ call[c].phase = "live"
    /\ Sidecar(RecordVerdict(m, "terminal", "failed"))
    /\ errored' = errored \cup {m}
    /\ UNCHANGED <<call, launched, outcome, exits>>

(* The turn ends, with the frame that says how.                             *)
Ends(c) ==
    LET m == call[c].msg IN
    /\ call[c].phase = "live"
    /\ \E result \in {"ok", "failed"} :
          /\ outcome' = [outcome EXCEPT ![m] = result]
          /\ Sidecar(RecordVerdict(m, "terminal", result))
          /\ Answers(c, result)
    /\ UNCHANGED <<launched, errored, exits>>

(* The server exits and comes back: deliveries and turns die unanswered.    *)
Exit ==
    /\ exits < MaxExits
    /\ exits' = exits + 1
    /\ call' = [c \in Call |-> IF call[c].phase \in {"claimed", "live"}
                               THEN [call[c] EXCEPT !.phase = "done", !.reply = "lost"] ELSE call[c]]
    /\ UNCHANGED <<ingress, launched, outcome, errored>>

Next ==
    \/ \E c \in Call : \/ \E m \in Message, content \in Content : Arrive(c, m, content) \/ ClaimFails(c, m, content)
                       \/ RefusedNotStarted(c) \/ Launch(c) \/ SupervisorAnswers(c)
                       \/ Activity(c) \/ ErrorFrame(c) \/ Ends(c)
    \/ Exit

Spec == Init /\ [][Next]_vars

-----------------------------------------------------------------------------
CallType == [msg : Message \cup {None}, content : Content \cup {0},
             phase : {"idle", "claimed", "live", "done"},
             reply : {"none", "ok", "failed", "refused", "retryable", "unavailable", "lost"}]

(* Types; a delivery is answered exactly when it is done.                   *)
TypeOK ==
    /\ IngressType
    /\ call \in [Call -> CallType]
    /\ launched \in [Message -> SUBSET Call]
    /\ outcome \in [Message -> {"none", "ok", "failed"}]
    /\ errored \subseteq Message /\ exits \in 0..MaxExits
    /\ \A c \in Call : call[c].reply # "none" <=> call[c].phase = "done"

(* However often a message is delivered, a provider starts on it once.      *)
AtMostOneLaunch == \A m \in Message : \A c, d \in launched[m] : c = d

(* The payload that started is the one bound to the message id.             *)
LaunchedPayloadIsBound ==
    \A m \in Message : \A c \in launched[m] : call[c].content = ingress[m].content

(* So at most one launch, and of what the client first bound to the id.     *)
LaunchedOnceAsBound == AtMostOneLaunch /\ LaunchedPayloadIsBound

(* The delivery receipt (providers/services/sessions.service.ts,            *)
(* readMessageDelivery) says "accepted" only of a message that started.     *)
Accepted(m) == \/ ingress[m].accepted
               \/ ingress[m].state = "started"
               \/ ingress[m].state = "terminal" /\ ingress[m].verdict = "ok"

ReceiptIsSound == \A m \in Message : Accepted(m) => launched[m] # {}

(* Without a turn supervisor, the delivery that launched the turn is told   *)
(* how it ended; a duplicate is told "ok" only of a turn that ended so, and *)
(* "failed" only of one that failed or had sent an error frame, which is    *)
(* replayed for good even if the turn went on and succeeded.                *)
Direct(c) == call[c].msg \notin Supervised

Truthful(c, m) ==
    /\ call[c].reply = "ok" => outcome[m] = "ok"
    /\ call[c].reply = "failed" => outcome[m] = "failed" \/ (c \notin launched[m] /\ m \in errored)

ReplayIsTheOutcome == \A c \in Call : Direct(c) => Truthful(c, call[c].msg)

(* Without a turn supervisor, a delivery that tells the client to use the   *)
(* same message id again does so of a message that has started nowhere.     *)
RetriesNothing == \A c \in Call : Direct(c) /\ call[c].reply = "none" /\ call'[c].reply = "retryable"
                                 => launched[call[c].msg] = {}
RetryableMeansNotLaunched == [][RetriesNothing]_vars

(* What a client is told of a message, by a receipt, a frame, a replay or   *)
(* an invitation to use its id again, is true after every step.             *)
AnswersAreTrue == [][ReceiptIsSound' /\ ReplayIsTheOutcome' /\ RetriesNothing]_vars
=============================================================================
