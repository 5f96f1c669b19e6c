-------------------------- MODULE ScheduledMessages --------------------------
(***************************************************************************)
(* Scheduled messages: durable rows with a lease, a poll that claims the   *)
(* head of each idle session, deliveries that wait only for acceptance,    *)
(* turns that outlive them, and the ingress ledger that answers repeated   *)
(* deliveries of one message.  Sources: server/modules/scheduled-messages/ *)
(* {scheduled-messages.service,scheduled-messages.dispatch}.ts and         *)
(* database/repositories/scheduled-messages.db.ts.  A provider without a   *)
(* turn supervisor is modelled: there the ledger alone prevents a second   *)
(* effect.                                                                 *)
(***************************************************************************)
EXTENDS MessageIngress, Integers, FiniteSets

CONSTANTS Session, User, Delivery,
          SessionOf, OwnerOf,  \* session and owner of a message
          Slot,                \* scheduled times, in order
          Cap, UserCap,        \* MAX_CONCURRENT_SCHEDULED, .._PER_USER
          MaxAttempts,         \* max_attempts of a row
          MaxEdits, MaxExits,  \* bounds of the model
          Faults,              \* the store may fail, renewals may come too late
          None, Lost           \* no lease token; the token of a delivery that is gone

ASSUME ScheduledAssumption ==
    /\ Message \subseteq Nat /\ Slot \subseteq Nat /\ 0 \notin Content
    /\ SessionOf \in [Message -> Session] /\ OwnerOf \in [Message -> User]
    /\ IsFiniteSet(Delivery)
    /\ Cap \in Nat /\ UserCap \in Nat /\ MaxAttempts \in Nat \ {0}
    /\ MaxEdits \in Nat /\ MaxExits \in Nat
    /\ Faults \in BOOLEAN
    /\ None \notin Delivery \cup Message /\ Lost \notin Delivery /\ None # Lost

VARIABLES row,       \* scheduled_messages
          dlv,       \* deliveries of this process, with the turn each one launched
          server,    \* "up", "paused" (shutdown drain) or "down"
          launches,  \* history: provider effects of a message
          edits, exits

vars == <<ingress, row, dlv, server, launches, edits, exits>>

NoRow    == [status |-> "absent", content |-> 0, at |-> 0, passed |-> FALSE, backoff |-> FALSE,
             overdue |-> FALSE, attempts |-> 0, token |-> None, expired |-> FALSE, error |-> "none"]
FreeDelivery == [msg |-> None, content |-> 0, turn |-> "ended", verdict |-> "none", settled |-> TRUE]

Init == /\ IngressInit
        /\ row = [m \in Message |-> NoRow]
        /\ dlv = [d \in Delivery |-> FreeDelivery]
        /\ server = "up"
        /\ launches = [m \in Message |-> 0]
        /\ edits = 0 /\ exits = 0

Open(m) == row[m].status \in {"pending", "running"}

(* busySessions: from the claim until the verdict is settled and the turn   *)
(* has ended.                                                               *)
BusyUntilSettled(d) == ~dlv[d].settled
Busy(d)        == ~dlv[d].settled \/ dlv[d].turn # "ended"
BusySession(s) == \E d \in Delivery : Busy(d) /\ SessionOf[dlv[d].msg] = s
Saturated(u)   == Cardinality({d \in Delivery : Busy(d) /\ OwnerOf[dlv[d].msg] = u}) >= UserCap

-----------------------------------------------------------------------------
(* The user's operations.  The new time lies in the future.                 *)
Fresh(content, at) == [NoRow EXCEPT !.status = "pending", !.content = content, !.at = at]

Create(m) ==
    /\ server # "down" /\ row[m].status = "absent"
    /\ \A n \in Message : n < m => row[n].status # "absent"
    /\ \E content \in Content, at \in Slot : row' = [row EXCEPT ![m] = Fresh(content, at)]
    /\ UNCHANGED <<ingress, dlv, server, launches, edits, exits>>

EditableUntilSent(m) == row[m].status \in {"pending", "running", "failed"}
Editable(m)          == row[m].status \in {"pending", "failed"}

(* Rescheduling, or an edit that keeps the time; both start the row over.   *)
Update(m) ==
    /\ server # "down" /\ edits < MaxEdits /\ Editable(m)
    /\ \E content \in Content :
          \/ \E at \in Slot : row' = [row EXCEPT ![m] = Fresh(content, at)]
          \/ row' = [row EXCEPT ![m] = [Fresh(content, @.at) EXCEPT !.passed = row[m].passed,
                                                                   !.overdue = row[m].overdue]]
    /\ edits' = edits + 1
    /\ UNCHANGED <<ingress, dlv, server, launches, exits>>

CancelMessage(m) ==
    /\ server # "down" /\ row[m].status \in {"pending", "failed"}
    /\ row' = [row EXCEPT ![m].status = "cancelled", ![m].token = None, ![m].expired = FALSE]
    /\ UNCHANGED <<ingress, dlv, server, launches, edits, exits>>

(* Time: the scheduled time, the end of a backoff, the expiry of a lease    *)
(* nobody renews, the end of the refund window.  That window is read only   *)
(* when a refund is settled, so only then is its end a step.                *)
BecomesDue(m) ==
    /\ row[m].status = "pending" /\ ~row[m].passed
    /\ row' = [row EXCEPT ![m].passed = TRUE]
    /\ UNCHANGED <<ingress, dlv, server, launches, edits, exits>>

BackoffEnds(m) ==
    /\ row[m].status = "pending" /\ row[m].backoff
    /\ row' = [row EXCEPT ![m].backoff = FALSE]
    /\ UNCHANGED <<ingress, dlv, server, launches, edits, exits>>

RefundWindowCloses(m) ==
    /\ ~row[m].overdue
    /\ \E d \in Delivery : row[m].token = d /\ dlv[d].verdict = "refund"
    /\ row' = [row EXCEPT ![m].overdue = TRUE]
    /\ UNCHANGED <<ingress, dlv, server, launches, edits, exits>>

LeaseExpires(m) ==
    /\ row[m].status = "running" /\ ~row[m].expired
    /\ row[m].token = Lost \/ Faults
    /\ row' = [row EXCEPT ![m].expired = TRUE]
    /\ UNCHANGED <<ingress, dlv, server, launches, edits, exits>>

(* The heartbeat runs until the verdict; a late one revives the lease.      *)
RenewLease(d) ==
    LET m == dlv[d].msg IN
    /\ dlv[d].verdict = "none" /\ ~dlv[d].settled
    /\ row[m].status = "running" /\ row[m].token = d /\ row[m].expired
    /\ row' = [row EXCEPT ![m].expired = FALSE]
    /\ UNCHANGED <<ingress, dlv, server, launches, edits, exits>>

-----------------------------------------------------------------------------
(* One poll: expired rows without attempts fail, then a due head of an idle *)
(* session is leased and its delivery starts (any of them: the order among  *)
(* sessions is that of available_at, which is not kept).                    *)
Exhausted(r) == r.attempts >= MaxAttempts

FailExpiredExhausted ==
    [m \in Message |->
        IF row[m].status = "running" /\ row[m].expired /\ Exhausted(row[m])
        THEN [row[m] EXCEPT !.status = "failed", !.token = None, !.expired = FALSE, !.error = "lease_expired"]
        ELSE row[m]]

Before(rows, n, m) == rows[n].at < rows[m].at \/ (rows[n].at = rows[m].at /\ n < m)

(* A pending row without attempts is never a head.                          *)
Ahead(rows, m) == {n \in Message \ {m} :
    /\ SessionOf[n] = SessionOf[m] /\ rows[n].status \in {"pending", "running"}
    /\ ~(rows[n].status = "pending" /\ Exhausted(rows[n]))
    /\ Before(rows, n, m)}

Due(r) == r.passed /\ ~r.backoff

Claimable(rows, m) ==
    /\ Due(rows[m]) /\ ~Exhausted(rows[m])
    /\ rows[m].status = "pending" \/ (rows[m].status = "running" /\ rows[m].expired)
    /\ ~BusySession(SessionOf[m]) /\ ~Saturated(OwnerOf[m])
    /\ Ahead(rows, m) = {}

CapLeft == Cardinality({d \in Delivery : Busy(d)}) < Cap

Starts(d, m) == dlv' = [dlv EXCEPT ![d] = [msg |-> m, content |-> row[m].content, turn |-> "gate",
                                          verdict |-> "none", settled |-> FALSE]]

PollClaims(d, m) ==
    LET rows == FailExpiredExhausted IN
    /\ server = "up" /\ CapLeft /\ ~Busy(d)
    /\ Claimable(rows, m)
    /\ row' = [rows EXCEPT ![m].status = "running", ![m].attempts = @ + 1,
                           ![m].token = d, ![m].expired = FALSE]
    /\ Starts(d, m)
    /\ UNCHANGED <<ingress, server, launches, edits, exits>>

PollFails ==
    /\ server = "up" /\ FailExpiredExhausted # row
    /\ row' = FailExpiredExhausted
    /\ UNCHANGED <<ingress, dlv, server, launches, edits, exits>>

-----------------------------------------------------------------------------
(* A delivery: authorization at due time, the provider-turn lease, the      *)
(* ingress claim, the launch, and the frames that decide its verdict.  Only *)
(* the first verdict counts.                                                *)
Decided(d, verdict) == IF dlv[d].verdict = "none" THEN verdict ELSE dlv[d].verdict

(* A session is released once its delivery is settled and the turn is over. *)
Released(r) == IF r.settled /\ r.turn = "ended" THEN FreeDelivery ELSE r

Turn(d, turn, verdict) ==
    dlv' = [dlv EXCEPT ![d] = Released([@ EXCEPT !.turn = turn, !.verdict = Decided(d, verdict)])]

RefusedAtDue(d) ==
    /\ dlv[d].turn = "gate" /\ dlv[d].verdict = "none"
    /\ Turn(d, "ended", "fatal")
    /\ UNCHANGED <<ingress, row, server, launches, edits, exits>>

(* Maintenance refuses the turn lease; a transient refusal asks for a       *)
(* refund of the attempt.                                                   *)
GateRefuses(d) ==
    /\ dlv[d].turn = "gate"
    /\ \E verdict \in {"refund", "retry"} : Turn(d, "ended", verdict)
    /\ UNCHANGED <<ingress, row, server, launches, edits, exits>>

GateAdmits(d) ==
    /\ dlv[d].turn = "gate"
    /\ Turn(d, "preflight", "none")
    /\ UNCHANGED <<ingress, row, server, launches, edits, exits>>

(* Refused before the ledger is asked, or the dispatch throws there.        *)
PreflightRefuses(d) ==
    /\ dlv[d].turn = "preflight"
    /\ Turn(d, "ended", "retry")
    /\ UNCHANGED <<ingress, row, server, launches, edits, exits>>

ReplayVerdict(m) == IF ingress[m].verdict = "ok" THEN "accepted" ELSE "fatal"

IngressClaim(d) ==
    LET m == dlv[d].msg
        answer == ClaimAnswer(m, dlv[d].content) IN
    /\ dlv[d].turn = "preflight"
    /\ Claim(m, dlv[d].content)
    /\ CASE answer = "dispatch"             -> Turn(d, "claimed", "none")
         [] answer = "fingerprint_mismatch" -> Turn(d, "ended", "mismatch")
         [] answer = "ambiguous_started"    -> Turn(d, "ended", "fatal")
         [] answer = "replay_verdict"       -> Turn(d, "ended", ReplayVerdict(m))
    /\ UNCHANGED <<row, server, launches, edits, exits>>

(* A write to the ledger may be lost: it is a sidecar of the transport.     *)
Sidecar(write) == write \/ UNCHANGED ingress

(* Refused before the provider started, with the proof of it: the session   *)
(* is busy, the workspace or the permission is missing.                     *)
RefusedNotStarted(d) ==
    LET m == dlv[d].msg IN
    /\ dlv[d].turn = "claimed"
    /\ Sidecar(RecordVerdict(m, "not_started", "none"))
    /\ Turn(d, "ended", "retry")
    /\ UNCHANGED <<row, server, launches, edits, exits>>

Launch(d) ==
    /\ dlv[d].turn = "claimed"
    /\ Turn(d, "live", "none")
    /\ launches' = [launches EXCEPT ![dlv[d].msg] = @ + 1]
    /\ UNCHANGED <<ingress, row, server, edits, exits>>

AcceptsFrame(d) ==
    /\ dlv[d].turn = "live"
    /\ Sidecar(MarkStarted(dlv[d].msg))
    /\ Turn(d, "live", "accepted")
    /\ UNCHANGED <<row, server, launches, edits, exits>>

(* An error frame of a turn that goes on decides the delivery and is        *)
(* recorded as the verdict; the session stays busy until the turn ends.     *)
ErrorFrame(d) ==
    /\ dlv[d].turn = "live"
    /\ Sidecar(RecordVerdict(dlv[d].msg, "terminal", "failed"))
    /\ Turn(d, "live", "fatal")
    /\ UNCHANGED <<row, server, launches, edits, exits>>

(* The turn ends, with the frame that says how or without one.              *)
TurnEnds(d) ==
    LET m == dlv[d].msg IN
    /\ dlv[d].turn = "live"
    /\ \/ Sidecar(RecordVerdict(m, "terminal", "ok"))     /\ Turn(d, "ended", "accepted")
       \/ Sidecar(RecordVerdict(m, "terminal", "failed")) /\ Turn(d, "ended", "fatal")
       \/ UNCHANGED ingress                               /\ Turn(d, "ended", "retry")
    /\ UNCHANGED <<row, server, launches, edits, exits>>

AcceptanceTimeout(d) ==
    /\ ~dlv[d].settled /\ dlv[d].verdict = "none"
    /\ Turn(d, dlv[d].turn, "unobserved")
    /\ UNCHANGED <<ingress, row, server, launches, edits, exits>>

-----------------------------------------------------------------------------
(* Settlement by the lease token; an attempt is refunded only inside the    *)
(* refund window, and the last attempt of a retryable refusal fails.        *)
Status(verdict) == CASE verdict \in {"accepted", "unobserved"} -> "sent"
                     [] verdict \in {"refund", "retry"}        -> "pending"
                     [] verdict \in {"fatal", "mismatch"}      -> "failed"

Refunded(r, verdict) == IF verdict = "refund" /\ ~r.overdue /\ r.attempts > 0 THEN r.attempts - 1 ELSE r.attempts

SettledRowNeverExhausted(r, verdict) ==
    [r EXCEPT !.status = Status(verdict), !.attempts = Refunded(r, verdict),
              !.backoff = (Status(verdict) = "pending"),
              !.token = None, !.expired = FALSE, !.error = verdict]

SettledRow(r, verdict) ==
    LET attempts == Refunded(r, verdict)
        status   == Status(verdict) IN
    [r EXCEPT !.status = IF status = "pending" /\ attempts >= MaxAttempts THEN "failed" ELSE status,
              !.attempts = attempts, !.backoff = (status = "pending"),
              !.token = None, !.expired = FALSE, !.error = verdict]

HoldsToken(d) == LET m == dlv[d].msg IN row[m].status = "running" /\ row[m].token = d

Settle(d) ==
    LET m == dlv[d].msg IN
    /\ ~dlv[d].settled /\ dlv[d].verdict # "none"
    /\ row' = IF HoldsToken(d) THEN [row EXCEPT ![m] = SettledRow(@, dlv[d].verdict)] ELSE row
    /\ dlv' = [dlv EXCEPT ![d] = Released([@ EXCEPT !.settled = TRUE])]
    /\ UNCHANGED <<ingress, server, launches, edits, exits>>

(* Both attempts to store the verdict fail: the row keeps a lease nobody    *)
(* renews.                                                                  *)
SettleFails(d) ==
    LET m == dlv[d].msg IN
    /\ Faults
    /\ ~dlv[d].settled /\ dlv[d].verdict # "none" /\ HoldsToken(d)
    /\ row' = [row EXCEPT ![m].token = Lost]
    /\ dlv' = [dlv EXCEPT ![d] = Released([@ EXCEPT !.settled = TRUE])]
    /\ UNCHANGED <<ingress, server, launches, edits, exits>>

(* The authorization at due time throws: the delivery ends without a        *)
(* verdict, and its lease is never renewed either.                          *)
AuthorizationThrows(d) ==
    /\ Faults
    /\ dlv[d].turn = "gate" /\ dlv[d].verdict = "none" /\ HoldsToken(d)
    /\ row' = [row EXCEPT ![dlv[d].msg].token = Lost]
    /\ dlv' = [dlv EXCEPT ![d] = FreeDelivery]
    /\ UNCHANGED <<ingress, server, launches, edits, exits>>

(* The process exits, drained or not; its deliveries and turns die.         *)
Pause ==
    /\ server = "up" /\ exits < MaxExits
    /\ server' = "paused"
    /\ UNCHANGED <<ingress, row, dlv, launches, edits, exits>>

Exit ==
    /\ server \in {"up", "paused"} /\ exits < MaxExits
    /\ server' = "down" /\ exits' = exits + 1
    /\ dlv' = [d \in Delivery |-> FreeDelivery]
    /\ row' = [m \in Message |-> IF row[m].token \in Delivery THEN [row[m] EXCEPT !.token = Lost] ELSE row[m]]
    /\ UNCHANGED <<ingress, launches, edits>>

Restart ==
    /\ server = "down"
    /\ server' = "up"
    /\ UNCHANGED <<ingress, row, dlv, launches, edits, exits>>

-----------------------------------------------------------------------------
UserStep(m) == Create(m) \/ Update(m) \/ CancelMessage(m)

TimeStep == \/ \E m \in Message : BecomesDue(m) \/ BackoffEnds(m) \/ RefundWindowCloses(m) \/ LeaseExpires(m)
            \/ \E d \in Delivery : RenewLease(d) \/ AcceptanceTimeout(d)

Poll == PollFails \/ \E d \in Delivery, m \in Message : PollClaims(d, m)

DeliveryStep(d) ==
    \/ RefusedAtDue(d) \/ GateRefuses(d) \/ GateAdmits(d) \/ PreflightRefuses(d) \/ IngressClaim(d)
    \/ RefusedNotStarted(d) \/ Launch(d) \/ AcceptsFrame(d) \/ ErrorFrame(d) \/ TurnEnds(d)

Next ==
    \/ \E m \in Message : UserStep(m)
    \/ TimeStep
    \/ Poll
    \/ \E d \in Delivery : DeliveryStep(d) \/ Settle(d) \/ SettleFails(d) \/ AuthorizationThrows(d)
    \/ Pause \/ Exit \/ Restart

Spec == Init /\ [][Next]_vars

(* The liveness run: the process comes back, polls, time passes, the gate   *)
(* answers, a provider that was launched ends its turn, and a message that  *)
(* is refunded again and again leaves the refund window (strong fairness).  *)
FairSpec ==
    /\ Spec
    /\ WF_vars(Poll) /\ WF_vars(Restart) /\ WF_vars(server = "paused" /\ Exit)
    /\ \A m \in Message : /\ WF_vars(BecomesDue(m)) /\ WF_vars(BackoffEnds(m))
                         /\ SF_vars(RefundWindowCloses(m)) /\ WF_vars(LeaseExpires(m))
    /\ \A d \in Delivery : WF_vars(DeliveryStep(d)) /\ WF_vars(Settle(d))

-----------------------------------------------------------------------------
DeliveryType ==
    [msg : Message \cup {None}, content : Content \cup {0},
     turn : {"gate", "preflight", "claimed", "live", "ended"},
     verdict : {"none", "accepted", "unobserved", "refund", "retry", "fatal", "mismatch"},
     settled : BOOLEAN]

RowType ==
    [status : {"absent", "pending", "running", "sent", "failed", "cancelled"},
     content : Content \cup {0}, at : Slot \cup {0}, passed : BOOLEAN, backoff : BOOLEAN,
     overdue : BOOLEAN, attempts : 0..MaxAttempts, token : Delivery \cup {None, Lost},
     expired : BOOLEAN,
     error : {"none", "accepted", "unobserved", "refund", "retry", "fatal", "mismatch", "lease_expired"}]

(* Types.  A token belongs to a running row, a lease expires with one.      *)
TypeOK ==
    /\ IngressType
    /\ row \in [Message -> RowType] /\ dlv \in [Delivery -> DeliveryType]
    /\ server \in {"up", "paused", "down"}
    /\ launches \in [Message -> Nat] /\ edits \in 0..MaxEdits /\ exits \in 0..MaxExits
    /\ \A m \in Message : (row[m].token # None) <=> (row[m].status = "running")

(* At most one provider effect per message, whatever is retried, expires,   *)
(* is edited, rescheduled or lost in a restart (scheduled-messages.service  *)
(* deliver: "the ingress clientMsgId prevents a second provider effect").   *)
AtMostOneEffect == \A m \in Message : launches[m] <= 1

(* A row says "sent" only of a message a provider was launched for, unless  *)
(* it carries the mark that acceptance was not observed.                    *)
SentMeansDelivered ==
    \A m \in Message : row[m].status = "sent" /\ row[m].error # "unobserved" => launches[m] > 0

(* So a row tells the truth about the one effect its message may have.      *)
OneEffectAsTold == AtMostOneEffect /\ SentMeansDelivered

(* Running turns never exceed the caps: one per session, UserCap per user,  *)
(* Cap in all, although a turn outlives the delivery that launched it.      *)
Live == {d \in Delivery : dlv[d].turn = "live"}

TurnsWithinCaps ==
    /\ Cardinality(Live) <= Cap
    /\ \A u \in User : Cardinality({d \in Live : OwnerOf[dlv[d].msg] = u}) <= UserCap
    /\ \A c, d \in Live : SessionOf[dlv[c].msg] = SessionOf[dlv[d].msg] => c = d

(* What is launched is what the row says at that moment: a delivery under   *)
(* way is never overtaken by a cancellation or an edit.                     *)
LaunchesWhatIsScheduled ==
    [][\A d \in Delivery : dlv[d].turn = "claimed" /\ dlv'[d].turn = "live" =>
           /\ row[dlv[d].msg].status \in {"running", "sent"}
           /\ row[dlv[d].msg].content = dlv[d].content]_vars

(* A due message is resolved: no refusal, expiry, restart or busy session   *)
(* keeps it open forever.                                                   *)
DueIsResolved == \A m \in Message : Open(m) /\ row[m].passed ~> ~(Open(m) /\ row[m].passed)
=============================================================================
