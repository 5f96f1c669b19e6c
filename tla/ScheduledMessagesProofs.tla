----------------------- MODULE ScheduledMessagesProofs -----------------------
(***************************************************************************)
(* Proofs about scheduled messages, for any number of messages, sessions,  *)
(* owners, deliveries, attempts, edits and exits.  EffectInv is why the    *)
(* ledger prevents a second effect: a claimed delivery is the only one of  *)
(* its message, and a message that was launched is never claimable again.  *)
(* CapInv is why the caps hold: they bound the busy deliveries, of which   *)
(* the running turns are a part.  ScheduleInv is why no edit or            *)
(* cancellation overtakes a delivery: until it is launched its row is      *)
(* leased to it, or sent, and both are out of the user's reach.            *)
(***************************************************************************)
EXTENDS ScheduledMessages, TLAPS, FiniteSetTheorems

(* A row that exists has a payload.                                         *)
RowInv == \A m \in Message : row[m].status # "absent" => row[m].content \in Content

(* A busy delivery has a message and a payload.                             *)
DlvInv == \A d \in Delivery : Busy(d) => dlv[d].msg \in Message /\ dlv[d].content \in Content

EffectInv ==
    /\ \A d \in Delivery : dlv[d].turn = "claimed" =>
          ingress[dlv[d].msg].state = "claimed" /\ launches[dlv[d].msg] = 0
    /\ \A c, d \in Delivery : dlv[c].turn = "claimed" /\ dlv[d].turn = "claimed"
                              /\ dlv[c].msg = dlv[d].msg => c = d
    /\ \A d \in Delivery : dlv[d].turn = "live" \/ dlv[d].verdict = "accepted" => launches[dlv[d].msg] > 0
    /\ \A m \in Message : launches[m] > 0 => ingress[m].state \in {"claimed", "started", "terminal"}
    /\ \A m \in Message : ingress[m].state = "terminal" => launches[m] > 0
    /\ AtMostOneEffect

IInv == TypeOK /\ RowInv /\ DlvInv /\ EffectInv /\ SentMeansDelivered

(* The caps hold of the busy deliveries, and a session has one of them.     *)
BusyOnes   == {d \in Delivery : Busy(d)}
BusyOf(u)  == {d \in Delivery : Busy(d) /\ OwnerOf[dlv[d].msg] = u}

CapInv ==
    /\ Cardinality(BusyOnes) <= Cap
    /\ \A u \in User : Cardinality(BusyOf(u)) <= UserCap
    /\ \A c, d \in Delivery : Busy(c) /\ Busy(d) /\ SessionOf[dlv[c].msg] = SessionOf[dlv[d].msg] => c = d

-----------------------------------------------------------------------------
(* What each write to the ledger does to a row, and that it leaves the      *)
(* others alone (the operators of MessageIngress).                          *)

(* A claim of one message leaves the others' rows and a bound payload       *)
(* alone; it dispatches only a row that was absent or never started, which  *)
(* it marks claimed with the claimed payload, and otherwise changes nothing *)
(* (message-coordination.db.ts, claim).                                     *)
LEMMA ClaimEffect ==
    ASSUME IngressType, NEW m \in Message, NEW content \in Content, Claim(m, content)
    PROVE  /\ IngressType'
           /\ \A n \in Message \ {m} : ingress'[n] = ingress[n]
           /\ \/ /\ ClaimAnswer(m, content) = "dispatch"
                 /\ ingress[m].state \in {"absent", "not_started"}
                 /\ ingress'[m].state = "claimed" /\ ingress'[m].content = content
                 /\ ingress[m].state # "absent" => ingress[m].content = content
              \/ /\ ClaimAnswer(m, content) # "dispatch"
                 /\ ingress' = ingress /\ ingress[m].state # "absent"
<1> DEFINE r == ingress[m]
<1>t. /\ r \in IngressRow
      /\ r.state \in IngressStates
  BY DEF IngressType, IngressRow
<1>1. CASE r.state = "absent"
  <2>1. ClaimAnswer(m, content) = "dispatch"
    BY <1>1 DEF ClaimAnswer
  <2>2. ingress' = [ingress EXCEPT ![m] = [state |-> "claimed", content |-> content, verdict |-> "none",
                                           accepted |-> FALSE]]
    BY <1>1 DEF Claim
  <2>3. QED
    BY <1>1, <2>1, <2>2 DEF IngressType, IngressRow, IngressStates, Verdicts
<1>2. CASE r.state # "absent" /\ r.content # content
  <2>1. ClaimAnswer(m, content) = "fingerprint_mismatch"
    BY <1>2 DEF ClaimAnswer
  <2>2. ingress' = ingress
    BY <1>2, <2>1 DEF Claim
  <2>3. QED
    BY <1>2, <2>1, <2>2 DEF IngressType
<1>3. CASE r.state = "not_started" /\ r.content = content
  <2>1. ClaimAnswer(m, content) = "dispatch"
    BY <1>3 DEF ClaimAnswer
  <2>2. ingress' = [ingress EXCEPT ![m].state = "claimed", ![m].verdict = "none"]
    BY <1>3, <2>1 DEF Claim
  <2>3. QED
    BY <1>3, <2>1, <2>2 DEF IngressType, IngressRow, IngressStates, Verdicts
<1>4. CASE r.state \in {"claimed", "started", "terminal"} /\ r.content = content
  <2>1. ClaimAnswer(m, content) \in {"replay_verdict", "ambiguous_started"}
    BY <1>4 DEF ClaimAnswer
  <2>2. ingress' = ingress
    BY <1>4, <2>1 DEF Claim
  <2>3. QED
    BY <1>4, <2>1, <2>2 DEF IngressType
<1>5. QED
  BY <1>t, <1>1, <1>2, <1>3, <1>4 DEF IngressStates

(* What the other answers say of the row: the same payload has ended, or is *)
(* under way.                                                               *)
LEMMA AnswerMeaning ==
    ASSUME IngressType, NEW m \in Message, NEW content \in Content
    PROVE  /\ ClaimAnswer(m, content) \in {"dispatch", "replay_verdict", "ambiguous_started", "fingerprint_mismatch"}
           /\ ClaimAnswer(m, content) = "replay_verdict" =>
                 ingress[m].state = "terminal" /\ ingress[m].content = content
           /\ ClaimAnswer(m, content) = "ambiguous_started" =>
                 ingress[m].state \in {"claimed", "started"} /\ ingress[m].content = content
BY DEF IngressType, IngressRow, IngressStates, ClaimAnswer

(* Marking a message started touches its lifecycle only, and only a claimed *)
(* one's (markStarted).                                                     *)
LEMMA MarkStartedEffect ==
    ASSUME IngressType, NEW m \in Message, MarkStarted(m)
    PROVE  /\ IngressType'
           /\ \A n \in Message \ {m} : ingress'[n] = ingress[n]
           /\ ingress'[m].content = ingress[m].content
           /\ ingress'[m].verdict = ingress[m].verdict
           /\ ingress'[m].state =
                  IF ingress[m].state \in {"claimed", "started"} THEN "started" ELSE ingress[m].state
BY DEF IngressType, IngressRow, IngressStates, MarkStarted

(* A verdict touches one row, keeps its payload, and is dropped outside the *)
(* lifecycle states that allow it (recordVerdict).                          *)
LEMMA RecordVerdictEffect ==
    ASSUME IngressType, NEW m \in Message, NEW status \in {"not_started", "terminal"},
           NEW verdict \in Verdicts, RecordVerdict(m, status, verdict)
    PROVE  /\ IngressType'
           /\ \A n \in Message \ {m} : ingress'[n] = ingress[n]
           /\ ingress'[m].content = ingress[m].content
           /\ \/ ingress'[m] = ingress[m]
              \/ /\ ingress'[m].state = status /\ ingress'[m].verdict = verdict
                 /\ ingress[m].state \in {"claimed", "started"}
                 /\ status = "not_started" => ingress[m].state = "claimed"
BY DEF IngressType, IngressRow, IngressStates, RecordVerdict, AllowedPrior

-----------------------------------------------------------------------------
LEMMA InitIInv == Init => IInv
BY ScheduledAssumption
   DEF Init, IngressInit, IngressType, IngressRow, IngressStates, Verdicts, NoRow, FreeDelivery, IInv, TypeOK, RowType,
       DeliveryType, RowInv, DlvInv, EffectInv, AtMostOneEffect, SentMeansDelivered, Busy

(* A step that only rewrites rows, and makes none of them "sent".           *)
LEMMA RowsOnly ==
    ASSUME IInv, UNCHANGED <<ingress, dlv, launches>>,
           server' \in {"up", "paused", "down"}, edits' \in 0..MaxEdits, exits' \in 0..MaxExits,
           row' \in [Message -> RowType],
           \A m \in Message : (row'[m].token # None) <=> (row'[m].status = "running"),
           \A m \in Message : row'[m].status # "absent" => row'[m].content \in Content,
           \A m \in Message : row'[m].status = "sent" => row[m].status = "sent" /\ row'[m].error = row[m].error
    PROVE  IInv'
<1>1. TypeOK'
  BY DEF IInv, TypeOK, IngressType
<1>2. RowInv' /\ DlvInv'
  BY DEF IInv, RowInv, DlvInv, Busy
<1>3. EffectInv' /\ SentMeansDelivered'
  BY DEF IInv, EffectInv, AtMostOneEffect, SentMeansDelivered
<1>4. QED
  BY <1>1, <1>2, <1>3 DEF IInv

LEMMA RowTyped ==
    ASSUME IInv, NEW m \in Message
    PROVE  /\ row[m] \in RowType /\ (row[m].token # None <=> row[m].status = "running")
           /\ row[m].status # "absent" => row[m].content \in Content
           /\ row[m].attempts \in 0..MaxAttempts /\ MaxAttempts \in Nat \ {0}
BY ScheduledAssumption DEF IInv, TypeOK, RowType, RowInv

(* A step that replaces one row by a typed one that is not newly "sent".    *)
LEMMA OneRow ==
    ASSUME IInv, UNCHANGED <<ingress, dlv, launches>>,
           server' \in {"up", "paused", "down"}, edits' \in 0..MaxEdits, exits' \in 0..MaxExits,
           NEW m \in Message, NEW r \in RowType, row' = [row EXCEPT ![m] = r],
           (r.token # None) <=> (r.status = "running"),
           r.content \in Content,
           r.status = "sent" => row[m].status = "sent" /\ r.error = row[m].error
    PROVE  IInv'
<1>1. row \in [Message -> RowType]
  BY DEF IInv, TypeOK
<1>2. row' \in [Message -> RowType] /\ row'[m] = r /\ \A n \in Message \ {m} : row'[n] = row[n]
  BY <1>1
<1>3. /\ \A n \in Message : (row'[n].token # None) <=> (row'[n].status = "running")
      /\ \A n \in Message : row'[n].status # "absent" => row'[n].content \in Content
      /\ \A n \in Message : row'[n].status = "sent" => row[n].status = "sent" /\ row'[n].error = row[n].error
  BY <1>2, RowTyped
<1>4. QED
  BY <1>2, <1>3, RowsOnly

(* The user's steps and the steps of time.                                  *)
LEMMA FreshTyped ==
    ASSUME NEW content \in Content, NEW at \in Slot \cup {0}
    PROVE  /\ Fresh(content, at) \in RowType /\ Fresh(content, at).token = None
           /\ Fresh(content, at).status = "pending" /\ Fresh(content, at).content = content
<1>1. NoRow \in RowType /\ NoRow.token = None
  BY ScheduledAssumption DEF NoRow, RowType
<1>2. QED
  BY <1>1 DEF Fresh, RowType

(* A row that starts over as a fresh pending one.                           *)
LEMMA StartsOver ==
    ASSUME IInv, UNCHANGED <<ingress, dlv, launches>>,
           server' \in {"up", "paused", "down"}, edits' \in 0..MaxEdits, exits' \in 0..MaxExits,
           NEW m \in Message, NEW content \in Content, NEW at \in Slot,
           row' = [row EXCEPT ![m] = Fresh(content, at)]
    PROVE  IInv'
<1> DEFINE r == Fresh(content, at)
<1>1. r \in RowType /\ r.token = None /\ r.status = "pending" /\ r.content = content /\ row' = [row EXCEPT ![m] = r]
  BY FreshTyped
<1> HIDE DEF r
<1>2. QED
  BY <1>1, OneRow

LEMMA UserSteps ==
    ASSUME IInv, NEW m \in Message, UserStep(m)
    PROVE  IInv'
<1>1. /\ row \in [Message -> RowType] /\ server \in {"up", "paused", "down"}
      /\ edits \in 0..MaxEdits /\ exits \in 0..MaxExits /\ MaxEdits \in Nat
  BY ScheduledAssumption DEF IInv, TypeOK
<1>2. CASE Create(m)
  <2>1. PICK content \in Content, at \in Slot : row' = [row EXCEPT ![m] = Fresh(content, at)]
    BY <1>2 DEF Create
  <2>2. UNCHANGED <<ingress, dlv, server, launches, edits, exits>>
    BY <1>2 DEF Create
  <2>3. QED
    BY <1>1, <2>1, <2>2, StartsOver
<1>3. CASE Update(m)
  <2>1. /\ UNCHANGED <<ingress, dlv, server, launches, exits>>
        /\ edits' \in 0..MaxEdits
    BY <1>1, <1>3 DEF Update
  <2>2. CASE \E content \in Content, at \in Slot : row' = [row EXCEPT ![m] = Fresh(content, at)]
    <3>1. PICK content \in Content, at \in Slot : row' = [row EXCEPT ![m] = Fresh(content, at)]
      BY <2>2
    <3>2. QED
      BY <1>1, <2>1, <3>1, StartsOver
  <2>3. CASE \E content \in Content :
                row' = [row EXCEPT ![m] = [Fresh(content, @.at) EXCEPT !.passed = row[m].passed, !.overdue = row[m].overdue]]
    <3>1. PICK content \in Content :
                row' = [row EXCEPT ![m] = [Fresh(content, @.at) EXCEPT !.passed = row[m].passed, !.overdue = row[m].overdue]]
      BY <2>3
    <3> DEFINE r == [Fresh(content, row[m].at) EXCEPT !.passed = row[m].passed, !.overdue = row[m].overdue]
    <3>2. row' = [row EXCEPT ![m] = r]
      BY <3>1, <1>1
    <3>3. r \in RowType /\ r.token = None /\ r.status = "pending" /\ r.content \in Content
      <4>1. /\ row[m] \in RowType /\ row[m].at \in Slot \cup {0}
            /\ row[m].passed \in BOOLEAN /\ row[m].overdue \in BOOLEAN
        BY <1>1 DEF RowType
      <4>2. /\ Fresh(content, row[m].at) \in RowType /\ Fresh(content, row[m].at).token = None
            /\ Fresh(content, row[m].at).status = "pending" /\ Fresh(content, row[m].at).content = content
        BY <4>1, FreshTyped
      <4>3. QED
        BY <4>1, <4>2 DEF RowType
    <3> HIDE DEF r
    <3>4. QED
      BY <1>1, <2>1, <3>2, <3>3, OneRow
  <2>4. QED
    BY <1>3, <2>2, <2>3 DEF Update
<1>4. CASE CancelMessage(m)
  <2> DEFINE r == [row[m] EXCEPT !.status = "cancelled", !.token = None, !.expired = FALSE]
  <2>1. /\ row[m].status \in {"pending", "failed"} /\ row' = [row EXCEPT ![m] = r]
        /\ UNCHANGED <<ingress, dlv, server, launches, edits, exits>>
    BY <1>1, <1>4 DEF CancelMessage
  <2>2. r \in RowType /\ r.token = None /\ r.status = "cancelled" /\ r.content \in Content
    BY <1>1, <2>1, RowTyped DEF RowType
  <2> HIDE DEF r
  <2>3. QED
    BY <1>1, <2>1, <2>2, OneRow
<1>5. QED
  BY <1>2, <1>3, <1>4 DEF UserStep

LEMMA TimeSteps ==
    ASSUME IInv, NEW m \in Message,
           BecomesDue(m) \/ BackoffEnds(m) \/ RefundWindowCloses(m) \/ LeaseExpires(m)
    PROVE  IInv'
<1>1. /\ row \in [Message -> RowType] /\ row[m] \in RowType /\ server \in {"up", "paused", "down"}
      /\ edits \in 0..MaxEdits /\ exits \in 0..MaxExits
  BY DEF IInv, TypeOK
<1>2. CASE BecomesDue(m)
  <2> DEFINE r == [row[m] EXCEPT !.passed = TRUE]
  <2>1. /\ row[m].status # "absent" /\ row' = [row EXCEPT ![m] = r]
        /\ UNCHANGED <<ingress, dlv, server, launches, edits, exits>>
    BY <1>1, <1>2 DEF BecomesDue
  <2>2. r \in RowType /\ r.token = row[m].token /\ r.status = row[m].status /\ r.content \in Content
    BY <1>1, <2>1, RowTyped DEF RowType
  <2>3. r.error = row[m].error
    BY <1>1 DEF RowType
  <2> HIDE DEF r
  <2>4. QED
    BY <1>1, <2>1, <2>2, <2>3, RowTyped, OneRow
<1>3. CASE BackoffEnds(m)
  <2> DEFINE r == [row[m] EXCEPT !.backoff = FALSE]
  <2>1. /\ row[m].status # "absent" /\ row' = [row EXCEPT ![m] = r]
        /\ UNCHANGED <<ingress, dlv, server, launches, edits, exits>>
    BY <1>1, <1>3 DEF BackoffEnds
  <2>2. r \in RowType /\ r.token = row[m].token /\ r.status = row[m].status /\ r.content \in Content
    BY <1>1, <2>1, RowTyped DEF RowType
  <2>3. r.error = row[m].error
    BY <1>1 DEF RowType
  <2> HIDE DEF r
  <2>4. QED
    BY <1>1, <2>1, <2>2, <2>3, RowTyped, OneRow
<1>4. CASE RefundWindowCloses(m)
  <2> DEFINE r == [row[m] EXCEPT !.overdue = TRUE]
  <2>1. /\ row[m].status # "absent" /\ row' = [row EXCEPT ![m] = r]
        /\ UNCHANGED <<ingress, dlv, server, launches, edits, exits>>
    <3>1. /\ row' = [row EXCEPT ![m] = r] /\ row[m].token \in Delivery
          /\ UNCHANGED <<ingress, dlv, server, launches, edits, exits>>
      BY <1>1, <1>4 DEF RefundWindowCloses
    <3>2. row[m].status = "running"
      BY <3>1, RowTyped, ScheduledAssumption
    <3>3. QED
      BY <3>1, <3>2
  <2>2. r \in RowType /\ r.token = row[m].token /\ r.status = row[m].status /\ r.content \in Content
    BY <1>1, <2>1, RowTyped DEF RowType
  <2>3. r.error = row[m].error
    BY <1>1 DEF RowType
  <2> HIDE DEF r
  <2>4. QED
    BY <1>1, <2>1, <2>2, <2>3, RowTyped, OneRow
<1>5. CASE LeaseExpires(m)
  <2> DEFINE r == [row[m] EXCEPT !.expired = TRUE]
  <2>1. /\ row[m].status # "absent" /\ row' = [row EXCEPT ![m] = r]
        /\ UNCHANGED <<ingress, dlv, server, launches, edits, exits>>
    BY <1>1, <1>5 DEF LeaseExpires
  <2>2. r \in RowType /\ r.token = row[m].token /\ r.status = row[m].status /\ r.content \in Content
    BY <1>1, <2>1, RowTyped DEF RowType
  <2>3. r.error = row[m].error
    BY <1>1 DEF RowType
  <2> HIDE DEF r
  <2>4. QED
    BY <1>1, <2>1, <2>2, <2>3, RowTyped, OneRow
<1>6. QED
  BY <1>2, <1>3, <1>4, <1>5

LEMMA RenewLeaseStep ==
    ASSUME IInv, NEW d \in Delivery, RenewLease(d)
    PROVE  IInv'
<1> DEFINE m == dlv[d].msg
           r == [row[m] EXCEPT !.expired = FALSE]
<1>1. /\ row \in [Message -> RowType] /\ server \in {"up", "paused", "down"}
      /\ edits \in 0..MaxEdits /\ exits \in 0..MaxExits
  BY DEF IInv, TypeOK
<1>2. /\ row[m].status = "running" /\ row' = [row EXCEPT ![m] = r]
      /\ UNCHANGED <<ingress, dlv, server, launches, edits, exits>>
      /\ m \in Message
  BY DEF RenewLease, IInv, DlvInv, Busy
<1>3. r \in RowType /\ r.token = row[m].token /\ r.status = row[m].status /\ r.content \in Content /\ r.error = row[m].error
  BY <1>1, <1>2, RowTyped DEF RowType
<1> HIDE DEF r, m
<1>4. QED
  BY <1>1, <1>2, <1>3, RowTyped, OneRow

(* What the sweep of exhausted rows returns.                                *)
LEMMA SweepTyped ==
    ASSUME IInv
    PROVE  /\ FailExpiredExhausted \in [Message -> RowType]
           /\ \A m \in Message :
                 LET r == FailExpiredExhausted[m] IN
                 /\ (r.token # None) <=> (r.status = "running")
                 /\ r.status # "absent" => r.content \in Content
                 /\ r.status = "sent" => row[m].status = "sent" /\ r.error = row[m].error
<1>1. ASSUME NEW m \in Message
      PROVE  /\ FailExpiredExhausted[m] \in RowType
             /\ LET r == FailExpiredExhausted[m] IN
                /\ (r.token # None) <=> (r.status = "running")
                /\ r.status # "absent" => r.content \in Content
                /\ r.status = "sent" => row[m].status = "sent" /\ r.error = row[m].error
  <2> DEFINE f == [row[m] EXCEPT !.status = "failed", !.token = None, !.expired = FALSE, !.error = "lease_expired"]
  <2>1. row[m] \in RowType /\ (row[m].token # None <=> row[m].status = "running")
        /\ (row[m].status # "absent" => row[m].content \in Content)
    BY RowTyped
  <2>2. f \in RowType /\ f.token = None /\ f.status = "failed" /\ (row[m].status # "absent" => f.content \in Content)
    BY <2>1 DEF RowType
  <2>3. FailExpiredExhausted[m] = row[m] \/ (FailExpiredExhausted[m] = f /\ row[m].status = "running")
    BY DEF FailExpiredExhausted
  <2> HIDE DEF f
  <2>4. QED
    BY <2>1, <2>2, <2>3
<1>2. QED
  BY <1>1 DEF FailExpiredExhausted

LEMMA PollFailsStep ==
    ASSUME IInv, PollFails
    PROVE  IInv'
<1>1. row' = FailExpiredExhausted /\ UNCHANGED <<ingress, dlv, server, launches, edits, exits>>
  BY DEF PollFails
<1>2. server \in {"up", "paused", "down"} /\ edits \in 0..MaxEdits /\ exits \in 0..MaxExits
  BY DEF IInv, TypeOK
<1>3. QED
  BY <1>1, <1>2, SweepTyped, RowsOnly

(* A poll leases a row that has an attempt left and starts a delivery of it.*)
LEMMA PollClaimsStep ==
    ASSUME IInv, NEW d \in Delivery, NEW m \in Message, PollClaims(d, m)
    PROVE  IInv'
<1> DEFINE rows == FailExpiredExhausted
           r == [rows[m] EXCEPT !.status = "running", !.attempts = @ + 1, !.token = d, !.expired = FALSE]
           new == [msg |-> m, content |-> row[m].content, turn |-> "gate", verdict |-> "none", settled |-> FALSE]
<1>1. /\ server = "up" /\ Claimable(rows, m) /\ ~Busy(d)
      /\ row' = [rows EXCEPT ![m] = r]
      /\ dlv' = [dlv EXCEPT ![d] = new]
      /\ UNCHANGED <<ingress, server, launches, edits, exits>>
  BY SweepTyped DEF PollClaims, Starts
<1>2. /\ rows[m].status \in {"pending", "running"} /\ ~(rows[m].attempts >= MaxAttempts)
      /\ rows[m] \in RowType /\ rows[m].content \in Content
  BY <1>1, SweepTyped DEF Claimable, Exhausted
<1>3. rows \in [Message -> RowType] /\ row[m] \in RowType
  BY SweepTyped, RowTyped
<1>4. row[m].content \in Content
  <2>1. row[m].status # "absent"
    BY <1>2, <1>3 DEF FailExpiredExhausted
  <2>2. QED
    BY <2>1, RowTyped
<1>5. r \in RowType /\ r.token = d /\ r.status = "running" /\ r.content \in Content
  <2>1. rows[m].attempts \in 0..MaxAttempts /\ MaxAttempts \in Nat
    BY <1>2, ScheduledAssumption DEF RowType
  <2>2. rows[m].attempts + 1 \in 0..MaxAttempts
    BY <1>2, <2>1
  <2>3. QED
    BY <1>2, <2>2 DEF RowType
<1>6. new \in DeliveryType
  BY <1>4 DEF DeliveryType
<1>7. /\ new.msg = m /\ new.content \in Content /\ new.turn = "gate" /\ new.verdict = "none"
  BY <1>4
<1> HIDE DEF r, rows, new
<1>8. /\ row' \in [Message -> RowType]
      /\ \A n \in Message : (row'[n].token # None) <=> (row'[n].status = "running")
      /\ \A n \in Message : row'[n].status # "absent" => row'[n].content \in Content
      /\ \A n \in Message : row'[n].status = "sent" => row[n].status = "sent" /\ row'[n].error = row[n].error
  <2>1. row' \in [Message -> RowType] /\ row'[m] = r /\ \A n \in Message \ {m} : row'[n] = rows[n]
    BY <1>1, <1>3, <1>5
  <2>2. QED
    BY <1>5, <2>1, SweepTyped, ScheduledAssumption DEF rows
<1>9. /\ dlv \in [Delivery -> DeliveryType]
      /\ dlv' \in [Delivery -> DeliveryType] /\ dlv'[d] = new /\ \A c \in Delivery \ {d} : dlv'[c] = dlv[c]
  BY <1>1, <1>6 DEF IInv, TypeOK
<1>10. TypeOK' /\ RowInv'
  BY <1>1, <1>8, <1>9 DEF IInv, TypeOK, IngressType, RowInv
<1>11. DlvInv'
  BY <1>7, <1>9 DEF IInv, DlvInv, Busy
<1>12. EffectInv' /\ SentMeansDelivered'
  BY <1>1, <1>7, <1>8, <1>9 DEF IInv, EffectInv, AtMostOneEffect, SentMeansDelivered
<1>13. QED
  BY <1>10, <1>11, <1>12 DEF IInv

(* What Turn does to a busy delivery: it moves it on, its first verdict     *)
(* stands, and once settled and ended it is released.                       *)
Turns    == {"gate", "preflight", "claimed", "live", "ended"}
DlvVerdicts == {"none", "accepted", "unobserved", "refund", "retry", "fatal", "mismatch"}

LEMMA TurnEffect ==
    ASSUME IInv, NEW d \in Delivery, NEW turn \in Turns, NEW verdict \in DlvVerdicts,
           Busy(d), Turn(d, turn, verdict)
    PROVE  /\ dlv' \in [Delivery -> DeliveryType] /\ DlvInv'
           /\ \A c \in Delivery \ {d} : dlv'[c] = dlv[c]
           /\ \/ dlv'[d] = FreeDelivery /\ turn = "ended"
              \/ /\ dlv'[d].msg = dlv[d].msg /\ dlv'[d].turn = turn
                 /\ dlv'[d].verdict = dlv[d].verdict \/ dlv'[d].verdict = verdict
<1> DEFINE r == [dlv[d] EXCEPT !.turn = turn, !.verdict = Decided(d, verdict)]
<1>1. /\ dlv \in [Delivery -> DeliveryType] /\ dlv[d] \in DeliveryType
      /\ dlv[d].msg \in Message /\ dlv[d].content \in Content
  BY DEF IInv, TypeOK, DlvInv
<1>2. dlv' = [dlv EXCEPT ![d] = Released(r)]
  BY <1>1 DEF Turn
<1>3. Decided(d, verdict) \in {dlv[d].verdict, verdict}
  BY DEF Decided
<1>4. /\ r \in DeliveryType /\ r.msg = dlv[d].msg /\ r.content = dlv[d].content /\ r.turn = turn
      /\ r.verdict = dlv[d].verdict \/ r.verdict = verdict
  BY <1>1, <1>3 DEF DeliveryType, Turns, DlvVerdicts
<1> HIDE DEF r
<1>5. Released(r) = r \/ (Released(r) = FreeDelivery /\ turn = "ended")
  BY <1>4 DEF Released
<1>6. FreeDelivery \in DeliveryType /\ FreeDelivery.settled /\ FreeDelivery.turn = "ended"
  BY DEF FreeDelivery, DeliveryType
<1>7. dlv' \in [Delivery -> DeliveryType] /\ dlv'[d] = Released(r) /\ \A c \in Delivery \ {d} : dlv'[c] = dlv[c]
  BY <1>1, <1>2, <1>4, <1>5, <1>6
<1>8. DlvInv'
  BY <1>1, <1>4, <1>5, <1>6, <1>7 DEF IInv, DlvInv, Busy
<1>9. QED
  BY <1>4, <1>5, <1>7, <1>8

(* The conjuncts about rows do not see a delivery step.                     *)
LEMMA TurnKeepsRows ==
    ASSUME IInv, NEW d \in Delivery, NEW turn \in Turns, NEW verdict \in DlvVerdicts,
           Busy(d), Turn(d, turn, verdict), UNCHANGED <<row, server, edits, exits>>,
           IngressType', launches' \in [Message -> Nat], EffectInv',
           \A m \in Message : launches[m] > 0 => launches'[m] > 0
    PROVE  IInv'
<1>1. dlv' \in [Delivery -> DeliveryType] /\ DlvInv'
  BY TurnEffect
<1>2. TypeOK' /\ RowInv'
  BY <1>1 DEF IInv, TypeOK, RowInv
<1>3. SentMeansDelivered'
  BY DEF IInv, SentMeansDelivered
<1>4. QED
  BY <1>1, <1>2, <1>3 DEF IInv

(* EffectInv sees only the claimed and live deliveries and their verdicts.  *)
LEMMA EffectKept ==
    ASSUME IInv, UNCHANGED <<ingress, launches>>,
           \A c \in Delivery :
              /\ dlv'[c].turn \in {"claimed", "live"} => dlv'[c].turn = dlv[c].turn /\ dlv'[c].msg = dlv[c].msg
              /\ dlv'[c].verdict = "accepted" => dlv[c].verdict = "accepted" /\ dlv'[c].msg = dlv[c].msg
    PROVE  EffectInv'
BY DEF IInv, EffectInv, AtMostOneEffect

(* A step of a delivery that neither asks the ledger nor launches.          *)
LEMMA QuietTurn ==
    ASSUME IInv, NEW d \in Delivery, NEW turn \in Turns, NEW verdict \in DlvVerdicts \ {"accepted"},
           Busy(d), Turn(d, turn, verdict), turn = dlv[d].turn \/ turn \in {"preflight", "ended"},
           UNCHANGED <<ingress, row, server, launches, edits, exits>>
    PROVE  IInv'
<1>1. /\ \A c \in Delivery \ {d} : dlv'[c] = dlv[c]
      /\ \/ dlv'[d] = FreeDelivery /\ turn = "ended"
         \/ /\ dlv'[d].msg = dlv[d].msg /\ dlv'[d].turn = turn
            /\ dlv'[d].verdict = dlv[d].verdict \/ dlv'[d].verdict = verdict
  BY TurnEffect
<1>2. \A c \in Delivery :
         /\ dlv'[c].turn \in {"claimed", "live"} => dlv'[c].turn = dlv[c].turn /\ dlv'[c].msg = dlv[c].msg
         /\ dlv'[c].verdict = "accepted" => dlv[c].verdict = "accepted" /\ dlv'[c].msg = dlv[c].msg
  BY <1>1 DEF FreeDelivery
<1>3. EffectInv'
  BY <1>2, EffectKept
<1>4. IngressType' /\ launches' \in [Message -> Nat]
  BY DEF IInv, TypeOK, IngressType
<1>5. QED
  BY <1>3, <1>4, TurnKeepsRows

LEMMA QuietSteps ==
    ASSUME IInv, NEW d \in Delivery,
           RefusedAtDue(d) \/ GateRefuses(d) \/ GateAdmits(d) \/ PreflightRefuses(d) \/ AcceptanceTimeout(d)
    PROVE  IInv'
<1>1. dlv[d] \in DeliveryType /\ dlv[d].turn \in Turns
  BY DEF IInv, TypeOK, DeliveryType, Turns
<1>2. CASE RefusedAtDue(d)
  BY <1>2, QuietTurn DEF RefusedAtDue, Busy, Turns, DlvVerdicts
<1>3. CASE GateRefuses(d)
  BY <1>3, QuietTurn DEF GateRefuses, Busy, Turns, DlvVerdicts
<1>4. CASE GateAdmits(d)
  BY <1>4, QuietTurn DEF GateAdmits, Busy, Turns, DlvVerdicts
<1>5. CASE PreflightRefuses(d)
  BY <1>5, QuietTurn DEF PreflightRefuses, Busy, Turns, DlvVerdicts
<1>6. CASE AcceptanceTimeout(d)
  BY <1>1, <1>6, QuietTurn DEF AcceptanceTimeout, Busy, DlvVerdicts
<1>7. QED
  BY <1>2, <1>3, <1>4, <1>5, <1>6

(* The ledger's answer decides: a dispatch makes this delivery the only     *)
(* claimed one of its message; a replayed success was launched before.      *)
LEMMA IngressClaimStep ==
    ASSUME IInv, NEW d \in Delivery, IngressClaim(d)
    PROVE  IInv'
<1> DEFINE m == dlv[d].msg
           content == dlv[d].content
           answer == ClaimAnswer(m, content)
<1>1. /\ dlv[d].turn = "preflight" /\ Busy(d) /\ Claim(m, content)
      /\ UNCHANGED <<row, server, edits, exits>> /\ launches' = launches
  BY DEF IngressClaim, Busy
<1>2. /\ IngressType /\ launches \in [Message -> Nat] /\ EffectInv /\ m \in Message /\ content \in Content
      /\ \A c \in Delivery : dlv[c].turn \in {"claimed", "live"} => dlv[c].msg \in Message
  BY <1>1 DEF IInv, TypeOK, DlvInv, Busy
<1>3. /\ IngressType'
      /\ \A n \in Message \ {m} : ingress'[n] = ingress[n]
      /\ \/ /\ answer = "dispatch"
            /\ ingress[m].state \in {"absent", "not_started"}
            /\ ingress'[m].state = "claimed"
         \/ answer # "dispatch" /\ ingress' = ingress
  BY <1>1, <1>2, ClaimEffect
<1>4. /\ answer \in {"dispatch", "replay_verdict", "ambiguous_started", "fingerprint_mismatch"}
      /\ answer = "replay_verdict" => ingress[m].state = "terminal"
  BY <1>2, AnswerMeaning
<1>5. CASE answer = "dispatch"
  <2>1. Turn(d, "claimed", "none")
    BY <1>5 DEF IngressClaim
  <2>2. /\ \A c \in Delivery \ {d} : dlv'[c] = dlv[c]
        /\ dlv'[d].msg = m /\ dlv'[d].turn = "claimed"
        /\ dlv'[d].verdict = dlv[d].verdict \/ dlv'[d].verdict = "none"
    BY <1>1, <2>1, TurnEffect DEF Turns, DlvVerdicts
  <2>3. /\ launches[m] = 0
        /\ \A c \in Delivery : dlv[c].turn = "claimed" => dlv[c].msg # m
    BY <1>2, <1>3, <1>5 DEF EffectInv
  <2>4. EffectInv'
    <3>1. \A c \in Delivery : dlv'[c].turn = "claimed" => ingress'[dlv'[c].msg].state = "claimed" /\ launches[dlv'[c].msg] = 0
      BY <1>2, <1>3, <1>5, <2>2, <2>3 DEF EffectInv
    <3>2. \A c, e \in Delivery : dlv'[c].turn = "claimed" /\ dlv'[e].turn = "claimed" /\ dlv'[c].msg = dlv'[e].msg => c = e
      BY <1>2, <2>2, <2>3 DEF EffectInv
    <3>3. \A c \in Delivery : dlv'[c].turn = "live" \/ dlv'[c].verdict = "accepted" => launches[dlv'[c].msg] > 0
      BY <1>2, <2>2 DEF EffectInv
    <3>4. \A n \in Message : /\ launches[n] > 0 => ingress'[n].state \in {"claimed", "started", "terminal"}
                             /\ ingress'[n].state = "terminal" => launches[n] > 0
      BY <1>2, <1>3, <1>5 DEF EffectInv
    <3>5. QED
      BY <1>1, <1>2, <3>1, <3>2, <3>3, <3>4 DEF EffectInv, AtMostOneEffect
  <2>5. QED
    BY <1>1, <1>2, <1>3, <2>1, <2>4, TurnKeepsRows DEF Turns, DlvVerdicts
<1>6. CASE answer # "dispatch"
  <2>1. PICK verdict \in DlvVerdicts :
           Turn(d, "ended", verdict) /\ (verdict = "accepted" => ingress[m].state = "terminal")
    <3>1. ReplayVerdict(m) \in {"accepted", "fatal"}
      BY DEF ReplayVerdict
    <3>2. CASE answer = "replay_verdict"
      BY <1>4, <3>1, <3>2 DEF IngressClaim, DlvVerdicts
    <3>3. CASE answer = "ambiguous_started"
      BY <3>3 DEF IngressClaim, DlvVerdicts
    <3>4. CASE answer = "fingerprint_mismatch"
      BY <3>4 DEF IngressClaim, DlvVerdicts
    <3>5. QED
      BY <1>4, <1>6, <3>2, <3>3, <3>4
  <2>2. /\ \A c \in Delivery \ {d} : dlv'[c] = dlv[c]
        /\ \/ dlv'[d] = FreeDelivery
           \/ /\ dlv'[d].msg = m /\ dlv'[d].turn = "ended"
              /\ dlv'[d].verdict = dlv[d].verdict \/ dlv'[d].verdict = verdict
    BY <1>1, <2>1, TurnEffect DEF Turns
  <2>3. verdict = "accepted" => launches[m] > 0
    BY <1>2, <2>1 DEF EffectInv
  <2>4. EffectInv'
    BY <1>1, <1>2, <1>3, <1>6, <2>2, <2>3 DEF EffectInv, AtMostOneEffect, FreeDelivery
  <2>5. QED
    BY <1>1, <1>2, <1>3, <2>1, <2>4, TurnKeepsRows DEF Turns
<1>7. QED
  BY <1>5, <1>6

(* A proof of not having started reopens the row of a message that was      *)
(* never launched.                                                          *)
LEMMA RefusedNotStartedStep ==
    ASSUME IInv, NEW d \in Delivery, RefusedNotStarted(d)
    PROVE  IInv'
<1> DEFINE m == dlv[d].msg
<1>1. /\ dlv[d].turn = "claimed" /\ Busy(d) /\ Turn(d, "ended", "retry")
      /\ RecordVerdict(m, "not_started", "none") \/ ingress' = ingress
      /\ UNCHANGED <<row, server, edits, exits>> /\ launches' = launches
  BY DEF RefusedNotStarted, Busy, Sidecar
<1>2. /\ IngressType /\ launches \in [Message -> Nat] /\ EffectInv /\ m \in Message
      /\ \A c \in Delivery : dlv[c].turn = "claimed" => dlv[c].msg \in Message
  BY <1>1 DEF IInv, TypeOK, DlvInv, Busy
<1>3. /\ IngressType' /\ \A n \in Message \ {m} : ingress'[n] = ingress[n]
      /\ ingress'[m] = ingress[m] \/ ingress'[m].state = "not_started"
  <2>1. CASE RecordVerdict(m, "not_started", "none")
    BY <1>2, <2>1, RecordVerdictEffect DEF Verdicts
  <2>2. CASE ingress' = ingress
    BY <1>2, <2>2 DEF IngressType
  <2>3. QED
    BY <1>1, <2>1, <2>2
<1>4. /\ launches[m] = 0
      /\ \A c \in Delivery \ {d} : dlv[c].turn = "claimed" => dlv[c].msg \in Message \ {m}
  BY <1>1, <1>2 DEF EffectInv
<1>5. /\ \A c \in Delivery \ {d} : dlv'[c] = dlv[c]
      /\ \/ dlv'[d] = FreeDelivery
         \/ /\ dlv'[d].msg = m /\ dlv'[d].turn = "ended"
            /\ dlv'[d].verdict = dlv[d].verdict \/ dlv'[d].verdict = "retry"
  BY <1>1, TurnEffect DEF Turns, DlvVerdicts
<1>6. EffectInv'
  <2>1. \A c \in Delivery : dlv'[c].turn = "claimed" => c # d /\ dlv'[c] = dlv[c]
    BY <1>5 DEF FreeDelivery
  <2>2. \A c \in Delivery : dlv'[c].turn = "claimed" => ingress'[dlv'[c].msg].state = "claimed" /\ launches[dlv'[c].msg] = 0
    BY <1>2, <1>3, <1>4, <2>1 DEF EffectInv
  <2>3. \A c, e \in Delivery : dlv'[c].turn = "claimed" /\ dlv'[e].turn = "claimed" /\ dlv'[c].msg = dlv'[e].msg => c = e
    BY <1>2, <2>1 DEF EffectInv
  <2>4. \A c \in Delivery : dlv'[c].turn = "live" \/ dlv'[c].verdict = "accepted" => launches[dlv'[c].msg] > 0
    BY <1>2, <1>5 DEF EffectInv, FreeDelivery
  <2>5. \A n \in Message : /\ launches[n] > 0 => ingress'[n].state \in {"claimed", "started", "terminal"}
                           /\ ingress'[n].state = "terminal" => launches[n] > 0
    BY <1>2, <1>3, <1>4 DEF EffectInv
  <2>6. QED
    BY <1>1, <1>2, <2>2, <2>3, <2>4, <2>5 DEF EffectInv, AtMostOneEffect
<1>7. QED
  BY <1>1, <1>2, <1>3, <1>6, TurnKeepsRows DEF Turns, DlvVerdicts

LEMMA LaunchStep ==
    ASSUME IInv, NEW d \in Delivery, Launch(d)
    PROVE  IInv'
<1> DEFINE m == dlv[d].msg
<1>1. /\ dlv[d].turn = "claimed" /\ Busy(d) /\ Turn(d, "live", "none")
      /\ launches' = [launches EXCEPT ![m] = @ + 1]
      /\ UNCHANGED <<row, server, edits, exits>> /\ ingress' = ingress
  BY DEF Launch, Busy
<1>2. /\ IngressType /\ launches \in [Message -> Nat] /\ EffectInv /\ m \in Message
      /\ \A c \in Delivery : dlv[c].turn \in {"claimed", "live"} \/ dlv[c].verdict = "accepted" => launches[dlv[c].msg] \in Nat \/ dlv[c].turn = "ended"
  BY <1>1 DEF IInv, TypeOK, DlvInv, Busy
<1>3. /\ launches[m] = 0 /\ ingress[m].state = "claimed"
      /\ \A c \in Delivery \ {d} : dlv[c].turn = "claimed" => dlv[c].msg # m
  BY <1>1, <1>2 DEF EffectInv
<1>4. launches'[m] = 1 /\ launches' \in [Message -> Nat] /\ \A n : n # m => launches'[n] = launches[n]
  BY <1>1, <1>2, <1>3
<1>5. /\ \A c \in Delivery \ {d} : dlv'[c] = dlv[c]
      /\ dlv'[d].msg = m /\ dlv'[d].turn = "live"
      /\ dlv'[d].verdict = dlv[d].verdict \/ dlv'[d].verdict = "none"
  BY <1>1, TurnEffect DEF Turns, DlvVerdicts
<1>6. EffectInv'
  <2>1. \A c \in Delivery : dlv'[c].turn = "claimed" =>
           c # d /\ dlv'[c] = dlv[c] /\ ingress[dlv[c].msg].state = "claimed" /\ launches'[dlv[c].msg] = 0
    BY <1>2, <1>3, <1>4, <1>5 DEF EffectInv
  <2>2. \A c, e \in Delivery : dlv'[c].turn = "claimed" /\ dlv'[e].turn = "claimed" /\ dlv'[c].msg = dlv'[e].msg => c = e
    BY <1>2, <2>1 DEF EffectInv
  <2>3. \A c \in Delivery : dlv'[c].turn = "live" \/ dlv'[c].verdict = "accepted" => launches'[dlv'[c].msg] > 0
    BY <1>2, <1>4, <1>5 DEF EffectInv
  <2>4. \A n \in Message : /\ launches'[n] > 0 => ingress[n].state \in {"claimed", "started", "terminal"}
                           /\ ingress[n].state = "terminal" => launches'[n] > 0
                           /\ launches'[n] <= 1
    BY <1>2, <1>3, <1>4 DEF EffectInv, AtMostOneEffect
  <2>5. QED
    BY <1>1, <2>1, <2>2, <2>3, <2>4 DEF EffectInv, AtMostOneEffect
<1>7. IngressType' /\ \A n \in Message : launches[n] > 0 => launches'[n] > 0
  BY <1>1, <1>2, <1>3, <1>4 DEF IngressType
<1>8. QED
  BY <1>1, <1>4, <1>6, <1>7, TurnKeepsRows DEF Turns, DlvVerdicts

(* What a live turn writes: its message was launched and is not claimable.  *)
LEMMA LiveWrites ==
    ASSUME IInv, NEW d \in Delivery, dlv[d].turn = "live",
           NEW turn \in {"live", "ended"}, NEW verdict \in DlvVerdicts, Turn(d, turn, verdict),
           UNCHANGED <<row, server, launches, edits, exits>>,
           IngressType', \A n \in Message \ {dlv[d].msg} : ingress'[n] = ingress[n],
           ingress'[dlv[d].msg] = ingress[dlv[d].msg] \/ ingress'[dlv[d].msg].state \in {"started", "terminal"}
    PROVE  IInv'
<1> DEFINE m == dlv[d].msg
<1>1. /\ launches \in [Message -> Nat] /\ EffectInv /\ m \in Message /\ Busy(d)
      /\ \A c \in Delivery : dlv[c].turn = "claimed" => dlv[c].msg \in Message
  BY DEF IInv, TypeOK, DlvInv, Busy
<1>2. launches[m] > 0 /\ \A c \in Delivery : dlv[c].turn = "claimed" => dlv[c].msg # m
  BY <1>1 DEF EffectInv
<1>3. /\ \A c \in Delivery \ {d} : dlv'[c] = dlv[c]
      /\ \/ dlv'[d] = FreeDelivery
         \/ dlv'[d].msg = m /\ dlv'[d].turn = turn
  BY <1>1, TurnEffect DEF Turns
<1>4. EffectInv'
  <2>1. \A c \in Delivery : dlv'[c].turn = "claimed" =>
           c # d /\ dlv'[c] = dlv[c] /\ ingress'[dlv[c].msg].state = "claimed" /\ launches[dlv[c].msg] = 0
    BY <1>1, <1>2, <1>3 DEF EffectInv, FreeDelivery
  <2>2. \A c, e \in Delivery : dlv'[c].turn = "claimed" /\ dlv'[e].turn = "claimed" /\ dlv'[c].msg = dlv'[e].msg => c = e
    BY <1>1, <2>1 DEF EffectInv
  <2>3. \A c \in Delivery : dlv'[c].turn = "live" \/ dlv'[c].verdict = "accepted" => launches[dlv'[c].msg] > 0
    BY <1>1, <1>2, <1>3 DEF EffectInv, FreeDelivery
  <2>4. \A n \in Message : /\ launches[n] > 0 => ingress'[n].state \in {"claimed", "started", "terminal"}
                           /\ ingress'[n].state = "terminal" => launches[n] > 0
    BY <1>1, <1>2 DEF EffectInv
  <2>5. QED
    BY <1>1, <2>1, <2>2, <2>3, <2>4 DEF EffectInv, AtMostOneEffect
<1>5. launches' \in [Message -> Nat]
  BY <1>1
<1>6. QED
  BY <1>1, <1>4, <1>5, TurnKeepsRows DEF Turns

LEMMA LiveSteps ==
    ASSUME IInv, NEW d \in Delivery, AcceptsFrame(d) \/ ErrorFrame(d) \/ TurnEnds(d)
    PROVE  IInv'
<1> DEFINE m == dlv[d].msg
<1>1. /\ dlv[d].turn = "live" /\ m \in Message /\ IngressType
      /\ UNCHANGED <<row, server, launches, edits, exits>>
  BY DEF AcceptsFrame, ErrorFrame, TurnEnds, IInv, TypeOK, DlvInv, Busy
<1>2. CASE AcceptsFrame(d)
  <2>1. Turn(d, "live", "accepted") /\ (MarkStarted(m) \/ ingress' = ingress)
    BY <1>2 DEF AcceptsFrame, Sidecar
  <2>2. /\ IngressType' /\ \A n \in Message \ {m} : ingress'[n] = ingress[n]
        /\ ingress'[m] = ingress[m] \/ ingress'[m].state = "started"
    <3>1. CASE MarkStarted(m)
      <4>1. IngressType' /\ \A n \in Message \ {m} : ingress'[n] = ingress[n]
        BY <1>1, <3>1, MarkStartedEffect
      <4>2. ingress'[m] = ingress[m] \/ ingress'[m].state = "started"
        BY <1>1, <3>1 DEF MarkStarted, IngressType
      <4>3. QED
        BY <4>1, <4>2
    <3>2. CASE ingress' = ingress
      BY <1>1, <3>2 DEF IngressType
    <3>3. QED
      BY <2>1, <3>1, <3>2
  <2>3. QED
    BY <1>1, <2>1, <2>2, LiveWrites DEF DlvVerdicts
<1>3. CASE ErrorFrame(d) \/ TurnEnds(d)
  <2>1. \E turn \in {"live", "ended"}, verdict \in DlvVerdicts : Turn(d, turn, verdict)
    BY <1>3 DEF ErrorFrame, TurnEnds, DlvVerdicts
  <2>2. \/ \E v \in {"ok", "failed"} : RecordVerdict(m, "terminal", v)
        \/ ingress' = ingress
    BY <1>3 DEF ErrorFrame, TurnEnds, Sidecar
  <2>3. /\ IngressType' /\ \A n \in Message \ {m} : ingress'[n] = ingress[n]
        /\ ingress'[m] = ingress[m] \/ ingress'[m].state = "terminal"
    <3>1. ASSUME NEW v \in {"ok", "failed"}, RecordVerdict(m, "terminal", v)
          PROVE  /\ IngressType' /\ \A n \in Message \ {m} : ingress'[n] = ingress[n]
                 /\ ingress'[m] = ingress[m] \/ ingress'[m].state = "terminal"
      BY <1>1, <3>1, RecordVerdictEffect DEF Verdicts
    <3>2. CASE ingress' = ingress
      BY <1>1, <3>2 DEF IngressType
    <3>3. QED
      BY <2>2, <3>1, <3>2
  <2>4. QED
    BY <1>1, <2>1, <2>3, LiveWrites
<1>4. QED
  BY <1>2, <1>3

(* Releasing or settling a delivery whose verdict stands.                   *)
LEMMA SettledEffect ==
    ASSUME IInv, NEW d \in Delivery, ~dlv[d].settled,
           dlv' = [dlv EXCEPT ![d] = Released([@ EXCEPT !.settled = TRUE])]
    PROVE  /\ dlv' \in [Delivery -> DeliveryType]
           /\ \A c \in Delivery \ {d} : dlv'[c] = dlv[c]
           /\ \/ dlv'[d] = FreeDelivery
              \/ /\ dlv'[d].msg = dlv[d].msg /\ dlv'[d].content = dlv[d].content
                 /\ dlv'[d].turn = dlv[d].turn /\ dlv'[d].verdict = dlv[d].verdict
                 /\ dlv'[d].turn # "ended"
<1> DEFINE r == [dlv[d] EXCEPT !.settled = TRUE]
<1>1. dlv \in [Delivery -> DeliveryType] /\ dlv[d] \in DeliveryType
  BY DEF IInv, TypeOK
<1>2. dlv' = [dlv EXCEPT ![d] = Released(r)]
  BY <1>1
<1>3. /\ r \in DeliveryType /\ r.msg = dlv[d].msg /\ r.content = dlv[d].content /\ r.turn = dlv[d].turn
      /\ r.verdict = dlv[d].verdict /\ r.settled
  BY <1>1 DEF DeliveryType
<1> HIDE DEF r
<1>4. (Released(r) = r /\ r.turn # "ended") \/ Released(r) = FreeDelivery
  BY <1>3 DEF Released
<1>5. FreeDelivery \in DeliveryType
  BY DEF FreeDelivery, DeliveryType
<1>6. dlv'[d] = Released(r)
  BY <1>1, <1>2
<1>7. QED
  BY <1>1, <1>2, <1>3, <1>4, <1>5, <1>6

(* A settled delivery disturbs neither the ledger nor its invariant.        *)
LEMMA SettledKeeps ==
    ASSUME IInv, NEW d \in Delivery, ~dlv[d].settled,
           dlv' = [dlv EXCEPT ![d] = Released([@ EXCEPT !.settled = TRUE])],
           UNCHANGED <<ingress, launches>>
    PROVE  dlv' \in [Delivery -> DeliveryType] /\ DlvInv' /\ EffectInv'
<1>1. /\ dlv' \in [Delivery -> DeliveryType]
      /\ \A c \in Delivery \ {d} : dlv'[c] = dlv[c]
      /\ \/ dlv'[d] = FreeDelivery
         \/ /\ dlv'[d].msg = dlv[d].msg /\ dlv'[d].content = dlv[d].content
            /\ dlv'[d].turn = dlv[d].turn /\ dlv'[d].verdict = dlv[d].verdict
            /\ dlv'[d].turn # "ended"
  BY SettledEffect
<1>2. DlvInv'
  BY <1>1 DEF IInv, DlvInv, Busy, FreeDelivery
<1>3. EffectInv'
  <2>1. \A c \in Delivery :
           /\ dlv'[c].turn \in {"claimed", "live"} => dlv'[c].turn = dlv[c].turn /\ dlv'[c].msg = dlv[c].msg
           /\ dlv'[c].verdict = "accepted" => dlv[c].verdict = "accepted" /\ dlv'[c].msg = dlv[c].msg
    BY <1>1 DEF FreeDelivery
  <2>2. QED
    BY <2>1, EffectKept
<1>4. QED
  BY <1>1, <1>2, <1>3

(* Settlement: "sent" is written only of a verdict that says so.            *)
LEMMA SettledRowTyped ==
    ASSUME IInv, NEW m \in Message, row[m].status = "running", NEW verdict \in DlvVerdicts \ {"none"}
    PROVE  LET r == SettledRow(row[m], verdict) IN
           /\ r \in RowType /\ r.token = None /\ r.status \in {"pending", "sent", "failed"} /\ r.content \in Content
           /\ r.error = verdict /\ (r.status = "sent" => verdict \in {"accepted", "unobserved"})
<1> DEFINE attempts == Refunded(row[m], verdict)
           status == IF Status(verdict) = "pending" /\ attempts >= MaxAttempts THEN "failed" ELSE Status(verdict)
           back == (Status(verdict) = "pending")
           r == [row[m] EXCEPT !.status = status, !.attempts = attempts, !.backoff = back,
                               !.token = None, !.expired = FALSE, !.error = verdict]
<1>1. row[m] \in RowType /\ row[m].content \in Content /\ row[m].attempts \in 0..MaxAttempts /\ MaxAttempts \in Nat
  BY RowTyped
<1>2. attempts \in 0..MaxAttempts
  BY <1>1 DEF Refunded
<1>3. Status(verdict) \in {"pending", "sent", "failed"} /\ (Status(verdict) = "sent" => verdict \in {"accepted", "unobserved"})
  BY DEF Status, DlvVerdicts
<1>4. status \in {"pending", "sent", "failed"} /\ (status = "sent" => verdict \in {"accepted", "unobserved"}) /\ back \in BOOLEAN
  BY <1>3
<1>5. SettledRow(row[m], verdict) = r
  BY DEF SettledRow
<1> HIDE DEF attempts, status, back
<1>6. /\ r \in RowType /\ r.token = None /\ r.status = status /\ r.content = row[m].content /\ r.error = verdict
  BY <1>1, <1>2, <1>4 DEF RowType, DlvVerdicts
<1>7. QED
  BY <1>1, <1>4, <1>5, <1>6

LEMMA SettleStep ==
    ASSUME IInv, NEW d \in Delivery, Settle(d)
    PROVE  IInv'
<1> DEFINE m == dlv[d].msg
           verdict == dlv[d].verdict
<1>1. /\ ~dlv[d].settled /\ verdict # "none" /\ m \in Message
      /\ dlv' = [dlv EXCEPT ![d] = Released([@ EXCEPT !.settled = TRUE])]
      /\ row' = IF HoldsToken(d) THEN [row EXCEPT ![m] = SettledRow(@, verdict)] ELSE row
      /\ UNCHANGED <<ingress, server, launches, edits, exits>>
  BY DEF Settle, IInv, DlvInv, Busy
<1>2. /\ verdict \in DlvVerdicts /\ row \in [Message -> RowType]
      /\ verdict = "accepted" => launches[m] > 0
  BY DEF IInv, TypeOK, DeliveryType, DlvVerdicts, EffectInv
<1>3. dlv' \in [Delivery -> DeliveryType] /\ DlvInv' /\ EffectInv'
  BY <1>1, SettledKeeps
<1>4. /\ row' \in [Message -> RowType] /\ RowInv'
      /\ \A n \in Message : (row'[n].token # None) <=> (row'[n].status = "running")
      /\ SentMeansDelivered'
  <2>1. CASE HoldsToken(d)
    <3> DEFINE r == SettledRow(row[m], verdict)
    <3>1. row' = [row EXCEPT ![m] = r] /\ row[m].status = "running"
      BY <1>1, <1>2, <2>1 DEF HoldsToken
    <3>2. /\ r \in RowType /\ r.token = None /\ r.status \in {"pending", "sent", "failed"} /\ r.content \in Content
          /\ r.error = verdict /\ (r.status = "sent" => verdict \in {"accepted", "unobserved"})
      BY <1>1, <1>2, <3>1, SettledRowTyped
    <3> HIDE DEF r
    <3>3. row' \in [Message -> RowType] /\ row'[m] = r /\ \A n \in Message \ {m} : row'[n] = row[n]
      BY <1>1, <1>2, <3>1, <3>2
    <3>4. \A n \in Message : row[n].token # None <=> row[n].status = "running"
      BY RowTyped
    <3>5. RowInv' /\ \A n \in Message : (row'[n].token # None) <=> (row'[n].status = "running")
      BY <3>2, <3>3, <3>4 DEF IInv, RowInv
    <3>6. SentMeansDelivered'
      BY <1>1, <1>2, <3>2, <3>3 DEF IInv, SentMeansDelivered
    <3>7. QED
      BY <3>3, <3>5, <3>6
  <2>2. CASE ~HoldsToken(d)
    BY <1>1, <2>2 DEF IInv, TypeOK, RowInv, SentMeansDelivered
  <2>3. QED
    BY <2>1, <2>2
<1>5. TypeOK'
  BY <1>1, <1>3, <1>4 DEF IInv, TypeOK, IngressType
<1>6. QED
  BY <1>3, <1>4, <1>5 DEF IInv

LEMMA SettleFailsStep ==
    ASSUME IInv, NEW d \in Delivery, SettleFails(d)
    PROVE  IInv'
<1> DEFINE m == dlv[d].msg
           r == [row[m] EXCEPT !.token = Lost]
<1>1. /\ ~dlv[d].settled /\ m \in Message /\ row[m].status = "running"
      /\ dlv' = [dlv EXCEPT ![d] = Released([@ EXCEPT !.settled = TRUE])]
      /\ row' = [row EXCEPT ![m] = r]
      /\ UNCHANGED <<ingress, server, launches, edits, exits>>
  BY DEF SettleFails, HoldsToken, IInv, TypeOK, DlvInv, Busy
<1>2. dlv' \in [Delivery -> DeliveryType] /\ DlvInv' /\ EffectInv'
  BY <1>1, SettledKeeps
<1>3. row \in [Message -> RowType] /\ row[m] \in RowType /\ row[m].content \in Content
  BY <1>1, RowTyped DEF IInv, TypeOK
<1>4. r \in RowType /\ r.token = Lost /\ r.status = "running" /\ r.content \in Content
  BY <1>1, <1>3 DEF RowType
<1> HIDE DEF r
<1>5. row' \in [Message -> RowType] /\ row'[m] = r /\ \A n \in Message \ {m} : row'[n] = row[n]
  BY <1>1, <1>3, <1>4
<1>6. TypeOK' /\ RowInv'
  BY <1>1, <1>2, <1>4, <1>5, ScheduledAssumption DEF IInv, TypeOK, RowInv, IngressType
<1>7. SentMeansDelivered'
  BY <1>1, <1>4, <1>5 DEF IInv, SentMeansDelivered
<1>8. QED
  BY <1>2, <1>6, <1>7 DEF IInv

LEMMA AuthorizationThrowsStep ==
    ASSUME IInv, NEW d \in Delivery, AuthorizationThrows(d)
    PROVE  IInv'
<1> DEFINE m == dlv[d].msg
           r == [row[m] EXCEPT !.token = Lost]
<1>1. /\ dlv[d].turn = "gate" /\ m \in Message /\ row[m].status = "running"
      /\ dlv' = [dlv EXCEPT ![d] = FreeDelivery]
      /\ row' = [row EXCEPT ![m] = r]
      /\ UNCHANGED <<ingress, server, launches, edits, exits>>
  BY DEF AuthorizationThrows, HoldsToken, IInv, TypeOK, DlvInv, Busy
<1>2. row \in [Message -> RowType] /\ row[m] \in RowType /\ row[m].content \in Content
  BY <1>1, RowTyped DEF IInv, TypeOK
<1>3. r \in RowType /\ r.token = Lost /\ r.status = "running" /\ r.content \in Content
  BY <1>1, <1>2 DEF RowType
<1> HIDE DEF r
<1>4. row' \in [Message -> RowType] /\ row'[m] = r /\ \A n \in Message \ {m} : row'[n] = row[n]
  BY <1>1, <1>2, <1>3
<1>5. /\ dlv' \in [Delivery -> DeliveryType] /\ dlv'[d] = FreeDelivery
      /\ \A c \in Delivery \ {d} : dlv'[c] = dlv[c]
  BY <1>1 DEF IInv, TypeOK, FreeDelivery, DeliveryType
<1>6. TypeOK' /\ RowInv'
  BY <1>1, <1>3, <1>4, <1>5, ScheduledAssumption DEF IInv, TypeOK, RowInv, IngressType
<1>7. DlvInv' /\ SentMeansDelivered'
  BY <1>1, <1>3, <1>4, <1>5 DEF IInv, DlvInv, SentMeansDelivered, Busy, FreeDelivery
<1>8. EffectInv'
  <2>1. \A c \in Delivery :
           /\ dlv'[c].turn \in {"claimed", "live"} => dlv'[c].turn = dlv[c].turn /\ dlv'[c].msg = dlv[c].msg
           /\ dlv'[c].verdict = "accepted" => dlv[c].verdict = "accepted" /\ dlv'[c].msg = dlv[c].msg
    BY <1>5 DEF FreeDelivery
  <2>2. QED
    BY <1>1, <2>1, EffectKept
<1>9. QED
  BY <1>6, <1>7, <1>8 DEF IInv

(* The exit of the process kills its deliveries and orphans their leases.   *)
LEMMA ServerSteps ==
    ASSUME IInv, Pause \/ Exit \/ Restart
    PROVE  IInv'
<1>1. CASE Pause \/ Restart
  <2>1. UNCHANGED <<ingress, row, dlv, launches, edits, exits>> /\ server' \in {"up", "paused", "down"}
    BY <1>1 DEF Pause, Restart
  <2>2. /\ row \in [Message -> RowType] /\ edits \in 0..MaxEdits /\ exits \in 0..MaxExits
    BY DEF IInv, TypeOK
  <2>3. QED
    BY <2>1, <2>2, RowTyped, RowsOnly
<1>2. CASE Exit
  <2>1. /\ exits < MaxExits /\ exits' = exits + 1 /\ server' = "down"
        /\ UNCHANGED <<ingress, launches, edits>>
        /\ dlv' = [d \in Delivery |-> FreeDelivery]
        /\ row' = [m \in Message |-> IF row[m].token \in Delivery THEN [row[m] EXCEPT !.token = Lost] ELSE row[m]]
    BY <1>2 DEF Exit
  <2>2. ASSUME NEW m \in Message
        PROVE  /\ row'[m] \in RowType /\ (row'[m].token # None <=> row'[m].status = "running")
               /\ row'[m].status = row[m].status /\ row'[m].error = row[m].error
               /\ row'[m].status # "absent" => row'[m].content \in Content
    <3>1. /\ row[m] \in RowType /\ (row[m].token # None <=> row[m].status = "running")
          /\ (row[m].status # "absent" => row[m].content \in Content)
      BY RowTyped
    <3>2. CASE row[m].token \in Delivery
      <4>1. row'[m] = [row[m] EXCEPT !.token = Lost]
        BY <2>1, <3>2
      <4>2. QED
        BY <3>1, <3>2, <4>1, ScheduledAssumption DEF RowType
    <3>3. CASE row[m].token \notin Delivery
      <4>1. row'[m] = row[m]
        BY <2>1, <3>3
      <4>2. QED
        BY <3>1, <4>1
    <3>4. QED
      BY <3>2, <3>3
  <2>3. row' \in [Message -> RowType]
    BY <2>1, <2>2
  <2>4. /\ dlv' \in [Delivery -> DeliveryType]
        /\ \A d \in Delivery : dlv'[d].turn = "ended" /\ dlv'[d].settled /\ dlv'[d].verdict = "none"
    BY <2>1 DEF FreeDelivery, DeliveryType
  <2>5. exits' \in 0..MaxExits
    <3>1. exits \in 0..MaxExits /\ MaxExits \in Nat
      BY ScheduledAssumption DEF IInv, TypeOK
    <3>2. exits < MaxExits /\ exits' = exits + 1
      BY <2>1
    <3>3. QED
      BY <3>1, <3>2
  <2>6. ingress' = ingress /\ launches' = launches /\ edits' = edits /\ server' = "down"
    BY <2>1
  <2>7. TypeOK'
    BY <2>2, <2>3, <2>4, <2>5, <2>6 DEF IInv, TypeOK, IngressType
  <2>8. RowInv' /\ DlvInv' /\ SentMeansDelivered'
    BY <2>2, <2>4, <2>6 DEF IInv, RowInv, DlvInv, SentMeansDelivered, Busy
  <2>9. EffectInv'
    BY <2>4, <2>6 DEF IInv, EffectInv, AtMostOneEffect
  <2>10. QED
    BY <2>7, <2>8, <2>9 DEF IInv
<1>3. QED
  BY <1>1, <1>2

LEMMA NextIInv == IInv /\ [Next]_vars => IInv'
<1> SUFFICES ASSUME IInv, [Next]_vars PROVE IInv'
  OBVIOUS
<1>1. CASE UNCHANGED vars
  BY <1>1 DEF vars, IInv, TypeOK, IngressType, RowInv, DlvInv, Busy, EffectInv, AtMostOneEffect, SentMeansDelivered
<1>2. CASE \E m \in Message : UserStep(m)
  BY <1>2, UserSteps
<1>3. CASE TimeStep
  BY <1>3, TimeSteps, RenewLeaseStep, QuietSteps DEF TimeStep
<1>4. CASE Poll
  BY <1>4, PollFailsStep, PollClaimsStep DEF Poll
<1>5. CASE \E d \in Delivery : DeliveryStep(d)
  BY <1>5, QuietSteps, IngressClaimStep, RefusedNotStartedStep, LaunchStep, LiveSteps DEF DeliveryStep
<1>6. CASE \E d \in Delivery : Settle(d) \/ SettleFails(d) \/ AuthorizationThrows(d)
  BY <1>6, SettleStep, SettleFailsStep, AuthorizationThrowsStep
<1>7. CASE Pause \/ Exit \/ Restart
  BY <1>7, ServerSteps
<1>8. QED
  BY <1>1, <1>2, <1>3, <1>4, <1>5, <1>6, <1>7 DEF Next

LEMMA Inductive == Spec => []IInv
BY InitIInv, NextIInv, PTL DEF Spec

(* Types; a lease token belongs to a running row (scheduled-messages.db.ts).*)
THEOREM TypeCorrect == Spec => []TypeOK
BY Inductive, PTL DEF IInv

(* At most one provider effect per scheduled message, whatever expires, is  *)
(* retried, refunded, edited, rescheduled or lost in a restart              *)
(* (scheduled-messages.service.ts, deliver).                                *)
THEOREM OneEffect == Spec => []AtMostOneEffect
<1>1. IInv => AtMostOneEffect
  BY DEF IInv, EffectInv
<1>2. QED
  BY <1>1, Inductive, PTL

(* A row that says "sent" without the mark of an unobserved acceptance is   *)
(* one a provider was launched for (settleOutcome).                         *)
THEOREM SoundSent == Spec => []SentMeansDelivered
BY Inductive, PTL DEF IInv

(* One effect, and the row's "sent" is true of it (deliver, settleOutcome). *)
THEOREM EffectAsTold == Spec => []OneEffectAsTold
BY OneEffect, SoundSent, PTL DEF OneEffectAsTold

-----------------------------------------------------------------------------
(* The caps.  Every step but a claim of the poll leaves at most the         *)
(* deliveries busy that were busy before, with the messages they had.       *)
LEMMA BusyShrinks ==
    ASSUME IInv, [Next]_vars, ~(\E d \in Delivery, m \in Message : PollClaims(d, m)),
           NEW d \in Delivery, Busy(d)'
    PROVE  Busy(d) /\ dlv'[d].msg = dlv[d].msg
<1>1. CASE dlv' = dlv
  BY <1>1 DEF Busy
<1>2. ASSUME NEW c \in Delivery, NEW turn \in Turns, NEW verdict \in DlvVerdicts, Busy(c), Turn(c, turn, verdict)
      PROVE  Busy(d) /\ dlv'[d].msg = dlv[d].msg
  <2>1. /\ \A e \in Delivery \ {c} : dlv'[e] = dlv[e]
        /\ dlv'[c] = FreeDelivery \/ dlv'[c].msg = dlv[c].msg
    BY <1>2, TurnEffect
  <2>2. QED
    BY <1>2, <2>1 DEF Busy, FreeDelivery
<1>3. ASSUME NEW c \in Delivery, DeliveryStep(c) \/ AcceptanceTimeout(c)
      PROVE  Busy(d) /\ dlv'[d].msg = dlv[d].msg
  <2>1. dlv[c].turn \in Turns /\ \A m \in Message : ReplayVerdict(m) \in {"accepted", "fatal"}
    BY DEF IInv, TypeOK, DeliveryType, Turns, ReplayVerdict
  <2>2. CASE RefusedAtDue(c) \/ GateRefuses(c) \/ GateAdmits(c) \/ PreflightRefuses(c)
             \/ RefusedNotStarted(c) \/ Launch(c)
    BY <2>2, <1>2 DEF RefusedAtDue, GateRefuses, GateAdmits, PreflightRefuses, RefusedNotStarted, Launch,
                      Busy, Turns, DlvVerdicts
  <2>3. CASE AcceptsFrame(c) \/ ErrorFrame(c) \/ TurnEnds(c)
    BY <2>3, <1>2 DEF AcceptsFrame, ErrorFrame, TurnEnds, Busy, Turns, DlvVerdicts
  <2>4. CASE AcceptanceTimeout(c)
    BY <2>1, <2>4, <1>2 DEF AcceptanceTimeout, Busy, DlvVerdicts
  <2>5. CASE IngressClaim(c)
    <3>1. dlv[c].turn = "preflight" /\ Busy(c) /\ IngressType /\ dlv[c].msg \in Message /\ dlv[c].content \in Content
      BY <2>5 DEF IngressClaim, Busy, IInv, TypeOK, DlvInv
    <3>2. ClaimAnswer(dlv[c].msg, dlv[c].content)
             \in {"dispatch", "replay_verdict", "ambiguous_started", "fingerprint_mismatch"}
      BY <3>1, AnswerMeaning
    <3>3. \E turn \in Turns, verdict \in DlvVerdicts : Turn(c, turn, verdict)
      <4>1. CASE ClaimAnswer(dlv[c].msg, dlv[c].content) = "dispatch"
        BY <2>5, <4>1 DEF IngressClaim, Turns, DlvVerdicts
      <4>2. CASE ClaimAnswer(dlv[c].msg, dlv[c].content) = "replay_verdict"
        BY <2>1, <2>5, <3>1, <4>2 DEF IngressClaim, Turns, DlvVerdicts
      <4>3. CASE ClaimAnswer(dlv[c].msg, dlv[c].content) = "ambiguous_started"
        BY <2>5, <4>3 DEF IngressClaim, Turns, DlvVerdicts
      <4>4. CASE ClaimAnswer(dlv[c].msg, dlv[c].content) = "fingerprint_mismatch"
        BY <2>5, <4>4 DEF IngressClaim, Turns, DlvVerdicts
      <4>5. QED
        BY <3>2, <4>1, <4>2, <4>3, <4>4
    <3>4. QED
      BY <3>1, <3>3, <1>2
  <2>6. QED
    BY <1>3, <2>2, <2>3, <2>4, <2>5 DEF DeliveryStep
<1>4. ASSUME NEW c \in Delivery, Settle(c) \/ SettleFails(c)
      PROVE  Busy(d) /\ dlv'[d].msg = dlv[d].msg
  <2>1. ~dlv[c].settled /\ dlv' = [dlv EXCEPT ![c] = Released([@ EXCEPT !.settled = TRUE])]
    BY <1>4 DEF Settle, SettleFails
  <2>2. /\ \A e \in Delivery \ {c} : dlv'[e] = dlv[e]
        /\ dlv'[c] = FreeDelivery \/ dlv'[c].msg = dlv[c].msg
    BY <2>1, SettledEffect
  <2>3. ~dlv[c].settled
    BY <2>1
  <2>4. QED
    BY <2>2, <2>3 DEF Busy, FreeDelivery
<1>5. CASE Exit
  BY <1>5 DEF Exit, Busy, FreeDelivery
<1>6. CASE \E m \in Message : UserStep(m)
  BY <1>1, <1>6 DEF UserStep, Create, Update, CancelMessage
<1>7. CASE \E m \in Message : BecomesDue(m) \/ BackoffEnds(m) \/ RefundWindowCloses(m) \/ LeaseExpires(m)
  BY <1>1, <1>7 DEF BecomesDue, BackoffEnds, RefundWindowCloses, LeaseExpires
<1>8. CASE PollFails \/ Pause \/ Restart \/ UNCHANGED vars \/ \E c \in Delivery : RenewLease(c)
  BY <1>1, <1>8 DEF PollFails, Pause, Restart, vars, RenewLease
<1>9. CASE \E c \in Delivery : AuthorizationThrows(c)
  <2>1. PICK c \in Delivery : dlv' = [dlv EXCEPT ![c] = FreeDelivery]
    BY <1>9 DEF AuthorizationThrows
  <2>2. dlv'[c] = FreeDelivery /\ \A e \in Delivery \ {c} : dlv'[e] = dlv[e]
    BY <2>1 DEF IInv, TypeOK
  <2>3. QED
    BY <2>2 DEF Busy, FreeDelivery
<1>10. QED
  BY <1>3, <1>4, <1>5, <1>6, <1>7, <1>8, <1>9 DEF Next, TimeStep, Poll

LEMMA InitCapInv == Init => CapInv
<1> SUFFICES ASSUME Init PROVE CapInv
  OBVIOUS
<1>1. \A d \in Delivery : ~Busy(d)
  BY DEF Init, Busy, FreeDelivery
<1>2. BusyOnes = {} /\ \A u : BusyOf(u) = {}
  BY <1>1 DEF BusyOnes, BusyOf
<1>3. QED
  BY <1>1, <1>2, FS_EmptySet, ScheduledAssumption DEF CapInv

LEMMA NextCapInv == IInv /\ CapInv /\ [Next]_vars => CapInv'
<1> SUFFICES ASSUME IInv, CapInv, [Next]_vars PROVE CapInv'
  OBVIOUS
<1>1. /\ IsFiniteSet(Delivery) /\ Cap \in Nat /\ UserCap \in Nat
      /\ BusyOnes \subseteq Delivery /\ \A u : BusyOf(u) \subseteq Delivery
  BY ScheduledAssumption DEF BusyOnes, BusyOf
<1>2. /\ IsFiniteSet(BusyOnes) /\ Cardinality(BusyOnes) \in Nat
      /\ \A u : IsFiniteSet(BusyOf(u)) /\ Cardinality(BusyOf(u)) \in Nat
  BY <1>1, FS_Subset, FS_CardinalityType
<1>3. CASE \E d \in Delivery, m \in Message : PollClaims(d, m)
  <2>1. PICK d \in Delivery, m \in Message : PollClaims(d, m)
    BY <1>3
  <2>2. /\ ~Busy(d) /\ Cardinality(BusyOnes) < Cap
        /\ ~BusySession(SessionOf[m]) /\ ~Saturated(OwnerOf[m])
        /\ dlv' = [dlv EXCEPT ![d] = [msg |-> m, content |-> row[m].content, turn |-> "gate",
                                      verdict |-> "none", settled |-> FALSE]]
    BY <2>1 DEF PollClaims, CapLeft, Claimable, Starts, BusyOnes
  <2>3. /\ dlv'[d].msg = m /\ Busy(d)'
        /\ \A c \in Delivery \ {d} : dlv'[c] = dlv[c]
    BY <2>2 DEF IInv, TypeOK, Busy
  <2>4. \A c \in Delivery \ {d} : Busy(c)' <=> Busy(c)
    BY <2>3 DEF Busy
  <2>5. Cardinality(BusyOnes') <= Cap
    <3>1. BusyOnes' = BusyOnes \cup {d} /\ d \notin BusyOnes
      BY <2>2, <2>3, <2>4 DEF BusyOnes
    <3>2. Cardinality(BusyOnes') = Cardinality(BusyOnes) + 1
      BY <1>2, <3>1, FS_AddElement
    <3>3. QED
      BY <1>1, <1>2, <2>2, <3>2
  <2>6. ASSUME NEW u \in User PROVE Cardinality(BusyOf(u)') <= UserCap
    <3>1. CASE u = OwnerOf[m]
      <4>1. Cardinality(BusyOf(u)) < UserCap
        <5>1. ~(Cardinality(BusyOf(u)) >= UserCap)
          BY <2>2, <3>1 DEF Saturated, BusyOf
        <5>2. QED
          BY <1>1, <1>2, <5>1
      <4>2. BusyOf(u)' = BusyOf(u) \cup {d} /\ d \notin BusyOf(u)
        BY <2>2, <2>3, <2>4, <3>1 DEF BusyOf
      <4>3. Cardinality(BusyOf(u)') = Cardinality(BusyOf(u)) + 1
        BY <1>2, <4>2, FS_AddElement
      <4>4. QED
        BY <1>1, <1>2, <4>1, <4>3
    <3>2. CASE u # OwnerOf[m]
      <4>1. BusyOf(u)' = BusyOf(u)
        BY <2>2, <2>3, <2>4, <3>2 DEF BusyOf
      <4>2. QED
        BY <4>1 DEF CapInv
    <3>3. QED
      BY <3>1, <3>2
  <2>7. \A b, c \in Delivery : Busy(b)' /\ Busy(c)' /\ SessionOf[dlv'[b].msg] = SessionOf[dlv'[c].msg] => b = c
    <3>1. \A c \in Delivery \ {d} : Busy(c)' => SessionOf[dlv'[c].msg] # SessionOf[m]
      BY <2>2, <2>3, <2>4 DEF BusySession
    <3>2. QED
      BY <2>3, <2>4, <3>1 DEF CapInv
  <2>8. QED
    BY <2>5, <2>6, <2>7 DEF CapInv
<1>4. CASE ~(\E d \in Delivery, m \in Message : PollClaims(d, m))
  <2>1. \A d \in Delivery : Busy(d)' => Busy(d) /\ dlv'[d].msg = dlv[d].msg
    BY <1>4, BusyShrinks
  <2>2. BusyOnes' \subseteq BusyOnes /\ \A u : BusyOf(u)' \subseteq BusyOf(u)
    BY <2>1 DEF BusyOnes, BusyOf
  <2>3. /\ Cardinality(BusyOnes') \in Nat /\ Cardinality(BusyOnes') <= Cardinality(BusyOnes)
        /\ \A u : Cardinality(BusyOf(u)') \in Nat /\ Cardinality(BusyOf(u)') <= Cardinality(BusyOf(u))
    BY <1>2, <2>2, FS_Subset, FS_CardinalityType
  <2>4. Cardinality(BusyOnes') <= Cap /\ \A u \in User : Cardinality(BusyOf(u)') <= UserCap
    BY <1>1, <1>2, <2>3 DEF CapInv
  <2>5. QED
    BY <2>1, <2>4 DEF CapInv
<1>5. QED
  BY <1>3, <1>4

(* Running turns stay within the caps, one per session, although a turn     *)
(* outlives the delivery that launched it (claimAndLaunch, saturatedUsers). *)
THEOREM CapsHold == Spec => []TurnsWithinCaps
<1>1. IInv /\ CapInv => TurnsWithinCaps
  <2> SUFFICES ASSUME IInv, CapInv PROVE TurnsWithinCaps
    OBVIOUS
  <2>1. /\ IsFiniteSet(Delivery) /\ Cap \in Nat /\ UserCap \in Nat
        /\ IsFiniteSet(BusyOnes) /\ \A u : IsFiniteSet(BusyOf(u))
    <3>1. BusyOnes \subseteq Delivery /\ \A u : BusyOf(u) \subseteq Delivery
      BY DEF BusyOnes, BusyOf
    <3>2. QED
      BY <3>1, ScheduledAssumption, FS_Subset
  <2>2. /\ Live \subseteq BusyOnes
        /\ \A u : {d \in Live : OwnerOf[dlv[d].msg] = u} \subseteq BusyOf(u)
    BY DEF Live, Busy, BusyOnes, BusyOf
  <2>3. /\ Cardinality(Live) \in Nat /\ Cardinality(Live) <= Cardinality(BusyOnes) /\ Cardinality(BusyOnes) \in Nat
        /\ \A u : LET s == {d \in Live : OwnerOf[dlv[d].msg] = u} IN
                 Cardinality(s) \in Nat /\ Cardinality(s) <= Cardinality(BusyOf(u)) /\ Cardinality(BusyOf(u)) \in Nat
    BY <2>1, <2>2, FS_Subset, FS_CardinalityType
  <2>4. /\ Cardinality(Live) <= Cap
        /\ \A u \in User : Cardinality({d \in Live : OwnerOf[dlv[d].msg] = u}) <= UserCap
    BY <2>1, <2>3 DEF CapInv
  <2>5. \A c, d \in Live : SessionOf[dlv[c].msg] = SessionOf[dlv[d].msg] => c = d
    BY DEF CapInv, Live, Busy
  <2>6. QED
    BY <2>4, <2>5 DEF TurnsWithinCaps
<1>2. Spec => []CapInv
  BY InitCapInv, NextCapInv, Inductive, PTL DEF Spec
<1>3. QED
  BY <1>1, <1>2, Inductive, PTL
-----------------------------------------------------------------------------
(* What is launched is what the row says.  A delivery on its way to the     *)
(* launch holds an unexpired lease on a row that still has its content, or  *)
(* was settled as sent without having been observed; rows of either kind    *)
(* are out of the user's reach and of the poll's.  Neither survives a       *)
(* heartbeat that comes too late or a store that fails.                     *)
OnItsWay(d) == dlv[d].turn \in {"gate", "preflight", "claimed"}

Leased(m)  == row[m].status = "running" /\ row[m].token \in Delivery /\ ~row[m].expired
Steady(m)  == Leased(m) \/ row[m].status = "sent"

AsScheduled(d) ==
    LET m == dlv[d].msg IN
    /\ row[m].content = dlv[d].content
    /\ \/ /\ ~dlv[d].settled /\ dlv[d].verdict \in {"none", "unobserved"}
          /\ Leased(m) /\ row[m].token = d
       \/ dlv[d].settled /\ dlv[d].verdict = "unobserved" /\ row[m].status = "sent"

ScheduleInv == \A d \in Delivery : OnItsWay(d) => AsScheduled(d)

SameRow(m) == row'[m].status = row[m].status /\ row'[m].content = row[m].content
              /\ row'[m].token = row[m].token /\ row'[m].expired = row[m].expired

LEMMA OnItsWayIsSteady ==
    ASSUME IInv, ScheduleInv, NEW d \in Delivery, OnItsWay(d)
    PROVE  Busy(d) /\ dlv[d].msg \in Message /\ Steady(dlv[d].msg) /\ AsScheduled(d)
<1>1. Busy(d)
  BY DEF OnItsWay, Busy
<1>2. QED
  BY <1>1 DEF IInv, DlvInv, ScheduleInv, AsScheduled, Steady

(* As long as rows of deliveries under way are left alone, so is what they  *)
(* were claimed for.                                                        *)
LEMMA KeptAsScheduled ==
    ASSUME IInv, ScheduleInv, NEW d \in Delivery, OnItsWay(d), dlv'[d] = dlv[d], SameRow(dlv[d].msg)
    PROVE  AsScheduled(d)'
BY OnItsWayIsSteady DEF AsScheduled, SameRow, Leased

(* A user, or time, does not reach a steady row.                            *)
LEMMA RowStepsSteady ==
    ASSUME IInv, ~Faults, NEW n \in Message, Steady(n), NEW m \in Message,
           UserStep(m) \/ BecomesDue(m) \/ BackoffEnds(m) \/ RefundWindowCloses(m) \/ LeaseExpires(m)
    PROVE  SameRow(n) /\ dlv' = dlv
<1>1. row \in [Message -> RowType] /\ row[m] \in RowType /\ row[n].status \in {"running", "sent"}
  BY DEF IInv, TypeOK, Steady, Leased
<1>2. CASE UserStep(m)
  <2>1. row[m].status \in {"absent", "pending", "failed"} /\ \E r : row' = [row EXCEPT ![m] = r]
    BY <1>1, <1>2 DEF UserStep, Create, Update, CancelMessage, Editable
  <2>2. row'[n] = row[n]
    BY <1>1, <2>1
  <2>3. QED
    BY <1>2, <2>2 DEF SameRow, UserStep, Create, Update, CancelMessage
<1>3. CASE BecomesDue(m)
  BY <1>1, <1>3 DEF BecomesDue, SameRow, RowType
<1>4. CASE BackoffEnds(m)
  BY <1>1, <1>4 DEF BackoffEnds, SameRow, RowType
<1>5. CASE RefundWindowCloses(m)
  BY <1>1, <1>5 DEF RefundWindowCloses, SameRow, RowType
<1>6. CASE LeaseExpires(m)
  <2>1. row[m].status = "running" /\ row[m].token = Lost /\ dlv' = dlv
        /\ row' = [row EXCEPT ![m].expired = TRUE]
    BY <1>6 DEF LeaseExpires
  <2>2. n # m
    BY <2>1, ScheduledAssumption DEF Steady, Leased
  <2>3. QED
    BY <1>1, <2>1, <2>2 DEF SameRow
<1>7. QED
  BY <1>2, <1>3, <1>4, <1>5, <1>6

(* The sweep fails expired rows only.                                       *)
LEMMA SweepSteady ==
    ASSUME IInv, NEW n \in Message, Steady(n)
    PROVE  FailExpiredExhausted[n] = row[n]
BY DEF FailExpiredExhausted, Steady, Leased

(* What a step of a delivery leaves of it.                                  *)
LEMMA TurnDetail ==
    ASSUME IInv, NEW d \in Delivery, NEW turn \in Turns, NEW verdict \in DlvVerdicts, Turn(d, turn, verdict)
    PROVE  /\ \A c \in Delivery \ {d} : dlv'[c] = dlv[c]
           /\ \/ dlv'[d] = FreeDelivery
              \/ /\ dlv'[d].msg = dlv[d].msg /\ dlv'[d].content = dlv[d].content
                 /\ dlv'[d].settled = dlv[d].settled /\ dlv'[d].turn = turn
                 /\ dlv'[d].verdict = Decided(d, verdict)
<1> DEFINE r == [dlv[d] EXCEPT !.turn = turn, !.verdict = Decided(d, verdict)]
<1>1. dlv \in [Delivery -> DeliveryType] /\ dlv[d] \in DeliveryType
  BY DEF IInv, TypeOK
<1>2. dlv' = [dlv EXCEPT ![d] = Released(r)]
  BY <1>1 DEF Turn
<1>3. /\ r.msg = dlv[d].msg /\ r.content = dlv[d].content /\ r.turn = turn
      /\ r.settled = dlv[d].settled /\ r.verdict = Decided(d, verdict)
  BY <1>1 DEF DeliveryType
<1> HIDE DEF r
<1>4. Released(r) = r \/ Released(r) = FreeDelivery
  BY DEF Released
<1>5. QED
  BY <1>1, <1>2, <1>3, <1>4

(* A delivery that ends its turn, or goes live, is no longer on its way; one *)
(* that goes on without a verdict is as it was.                             *)
LEMMA TurnAsScheduled ==
    ASSUME IInv, ScheduleInv, NEW d \in Delivery, NEW turn \in Turns, NEW verdict \in DlvVerdicts,
           Turn(d, turn, verdict), row' = row,
           \/ turn \in {"live", "ended"}
           \/ OnItsWay(d) /\ verdict = "none"
           \/ turn = dlv[d].turn /\ ~dlv[d].settled /\ verdict = "unobserved"
    PROVE  ScheduleInv'
<1> SUFFICES ASSUME NEW c \in Delivery, OnItsWay(c)' PROVE AsScheduled(c)'
  BY DEF ScheduleInv
<1>1. /\ \A e \in Delivery \ {d} : dlv'[e] = dlv[e]
      /\ \/ dlv'[d] = FreeDelivery
         \/ /\ dlv'[d].msg = dlv[d].msg /\ dlv'[d].content = dlv[d].content
            /\ dlv'[d].settled = dlv[d].settled /\ dlv'[d].turn = turn
            /\ dlv'[d].verdict = Decided(d, verdict)
  BY TurnDetail
<1>2. CASE c # d
  <2>1. dlv'[c] = dlv[c] /\ OnItsWay(c)
    BY <1>1, <1>2 DEF OnItsWay
  <2>2. QED
    BY <2>1, KeptAsScheduled DEF SameRow
<1>3. CASE c = d
  <2>1. dlv'[d].turn = turn /\ turn \notin {"live", "ended"}
        /\ dlv'[d].msg = dlv[d].msg /\ dlv'[d].content = dlv[d].content
        /\ dlv'[d].settled = dlv[d].settled /\ dlv'[d].verdict = Decided(d, verdict)
    BY <1>1, <1>3 DEF OnItsWay, FreeDelivery
  <2>2. OnItsWay(d)
    BY <1>3, <2>1 DEF OnItsWay
  <2>3. AsScheduled(d)
    BY <2>2, OnItsWayIsSteady
  <2>4. QED
    BY <1>3, <2>1, <2>3 DEF AsScheduled, Decided, Leased
<1>4. QED
  BY <1>2, <1>3

LEMMA DeliveriesAsScheduled ==
    ASSUME IInv, ScheduleInv, NEW d \in Delivery, DeliveryStep(d) \/ AcceptanceTimeout(d)
    PROVE  ScheduleInv'
<1>1. dlv[d].turn \in Turns /\ \A m \in Message : ReplayVerdict(m) \in {"accepted", "fatal"}
  BY DEF IInv, TypeOK, DeliveryType, Turns, ReplayVerdict
<1>2. CASE RefusedAtDue(d) \/ GateRefuses(d) \/ PreflightRefuses(d) \/ RefusedNotStarted(d) \/ Launch(d)
  <2>1. row' = row /\ \E turn \in {"live", "ended"}, verdict \in DlvVerdicts : Turn(d, turn, verdict)
    BY <1>2 DEF RefusedAtDue, GateRefuses, PreflightRefuses, RefusedNotStarted, Launch, DlvVerdicts
  <2>2. QED
    BY <2>1, TurnAsScheduled DEF Turns
<1>3. CASE AcceptsFrame(d) \/ ErrorFrame(d) \/ TurnEnds(d)
  <2>1. row' = row /\ \E turn \in {"live", "ended"}, verdict \in DlvVerdicts : Turn(d, turn, verdict)
    BY <1>3 DEF AcceptsFrame, ErrorFrame, TurnEnds, DlvVerdicts
  <2>2. QED
    BY <2>1, TurnAsScheduled DEF Turns
<1>4. CASE GateAdmits(d)
  BY <1>4, TurnAsScheduled DEF GateAdmits, OnItsWay, Turns, DlvVerdicts
<1>5. CASE AcceptanceTimeout(d)
  BY <1>1, <1>5, TurnAsScheduled DEF AcceptanceTimeout, DlvVerdicts
<1>6. CASE IngressClaim(d)
  <2>1. /\ dlv[d].turn = "preflight" /\ OnItsWay(d) /\ row' = row
        /\ IngressType /\ dlv[d].msg \in Message /\ dlv[d].content \in Content
    BY <1>6 DEF IngressClaim, OnItsWay, Busy, IInv, TypeOK, DlvInv
  <2>2. ClaimAnswer(dlv[d].msg, dlv[d].content)
           \in {"dispatch", "replay_verdict", "ambiguous_started", "fingerprint_mismatch"}
    BY <2>1, AnswerMeaning
  <2>3. Turn(d, "claimed", "none") \/ \E verdict \in DlvVerdicts : Turn(d, "ended", verdict)
    <3>1. CASE ClaimAnswer(dlv[d].msg, dlv[d].content) = "dispatch"
      BY <1>6, <3>1 DEF IngressClaim
    <3>2. CASE ClaimAnswer(dlv[d].msg, dlv[d].content) = "replay_verdict"
      BY <1>1, <1>6, <2>1, <3>2 DEF IngressClaim, DlvVerdicts
    <3>3. CASE ClaimAnswer(dlv[d].msg, dlv[d].content) = "ambiguous_started"
      BY <1>6, <3>3 DEF IngressClaim, DlvVerdicts
    <3>4. CASE ClaimAnswer(dlv[d].msg, dlv[d].content) = "fingerprint_mismatch"
      BY <1>6, <3>4 DEF IngressClaim, DlvVerdicts
    <3>5. QED
      BY <2>2, <3>1, <3>2, <3>3, <3>4
  <2>4. QED
    BY <2>1, <2>3, TurnAsScheduled DEF Turns, DlvVerdicts
<1>7. QED
  BY <1>2, <1>3, <1>4, <1>5, <1>6 DEF DeliveryStep

(* A new delivery takes the content of its row, and its session had none    *)
(* under way.                                                               *)
LEMMA PollAsScheduled ==
    ASSUME IInv, ScheduleInv, NEW d \in Delivery, NEW m \in Message, PollClaims(d, m)
    PROVE  ScheduleInv'
<1> SUFFICES ASSUME NEW c \in Delivery, OnItsWay(c)' PROVE AsScheduled(c)'
  BY DEF ScheduleInv
<1> DEFINE rows == FailExpiredExhausted
           r == [rows[m] EXCEPT !.status = "running", !.attempts = @ + 1, !.token = d, !.expired = FALSE]
<1>1. /\ Claimable(rows, m) /\ row' = [rows EXCEPT ![m] = r]
      /\ rows \in [Message -> RowType] /\ row \in [Message -> RowType]
      /\ dlv' = [dlv EXCEPT ![d] = [msg |-> m, content |-> row[m].content, turn |-> "gate",
                                    verdict |-> "none", settled |-> FALSE]]
  BY SweepTyped DEF PollClaims, Starts, IInv, TypeOK
<1>2. /\ r.status = "running" /\ r.token = d /\ ~r.expired /\ r.content = rows[m].content
  BY <1>1 DEF RowType
<1>3. rows[m].content = row[m].content
  <2> DEFINE f == [row[m] EXCEPT !.status = "failed", !.token = None, !.expired = FALSE, !.error = "lease_expired"]
  <2>1. rows[m] = row[m] \/ rows[m] = f
    BY DEF FailExpiredExhausted
  <2>2. f.content = row[m].content
    BY <1>1 DEF RowType
  <2> HIDE DEF f
  <2>3. QED
    BY <2>1, <2>2
<1> HIDE DEF r, rows
<1>4. /\ row'[m] = r /\ \A n \in Message \ {m} : row'[n] = rows[n]
      /\ \A e \in Delivery \ {d} : dlv'[e] = dlv[e]
      /\ dlv'[d] = [msg |-> m, content |-> row[m].content, turn |-> "gate", verdict |-> "none", settled |-> FALSE]
  BY <1>1 DEF IInv, TypeOK
<1>5. CASE c = d
  BY <1>2, <1>3, <1>4, <1>5 DEF AsScheduled, Leased
<1>6. CASE c # d
  <2>1. dlv'[c] = dlv[c] /\ OnItsWay(c)
    BY <1>4, <1>6 DEF OnItsWay
  <2>2. Busy(c) /\ dlv[c].msg \in Message /\ Steady(dlv[c].msg)
    BY <2>1, OnItsWayIsSteady
  <2>3. dlv[c].msg # m
    BY <1>1, <2>2 DEF Claimable, BusySession
  <2>4. row'[dlv[c].msg] = row[dlv[c].msg]
    BY <1>4, <2>2, <2>3, SweepSteady DEF rows
  <2>5. QED
    BY <2>1, <2>4, KeptAsScheduled DEF SameRow
<1>7. QED
  BY <1>5, <1>6

(* A settlement writes the row of its own delivery: one that is still on    *)
(* its way was not observed, and its row becomes "sent".                    *)
LEMMA SettleAsScheduled ==
    ASSUME IInv, ScheduleInv, NEW d \in Delivery, Settle(d)
    PROVE  ScheduleInv'
<1> SUFFICES ASSUME NEW c \in Delivery, OnItsWay(c)' PROVE AsScheduled(c)'
  BY DEF ScheduleInv
<1> DEFINE m == dlv[d].msg
           verdict == dlv[d].verdict
<1>1. /\ ~dlv[d].settled /\ verdict # "none" /\ m \in Message /\ row \in [Message -> RowType]
      /\ dlv' = [dlv EXCEPT ![d] = Released([@ EXCEPT !.settled = TRUE])]
      /\ row' = IF HoldsToken(d) THEN [row EXCEPT ![m] = SettledRow(@, verdict)] ELSE row
  BY DEF Settle, IInv, TypeOK, DlvInv, Busy
<1>2. dlv \in [Delivery -> DeliveryType] /\ dlv[d] \in DeliveryType
  BY DEF IInv, TypeOK
<1>3. /\ \A e \in Delivery \ {d} : dlv'[e] = dlv[e]
      /\ dlv'[d] = FreeDelivery \/ (/\ dlv'[d].msg = m /\ dlv'[d].content = dlv[d].content
                                    /\ dlv'[d].turn = dlv[d].turn /\ dlv'[d].verdict = verdict
                                    /\ dlv'[d].settled)
  <2> DEFINE r == [dlv[d] EXCEPT !.settled = TRUE]
  <2>1. /\ r.msg = m /\ r.content = dlv[d].content /\ r.turn = dlv[d].turn /\ r.verdict = verdict /\ r.settled
        /\ dlv' = [dlv EXCEPT ![d] = Released(r)]
    BY <1>1, <1>2 DEF DeliveryType
  <2> HIDE DEF r
  <2>2. Released(r) = r \/ Released(r) = FreeDelivery
    BY DEF Released
  <2>3. QED
    BY <1>2, <2>1, <2>2
<1>4. CASE c = d
  <2>1. /\ OnItsWay(d) /\ dlv'[d].msg = m /\ dlv'[d].content = dlv[d].content
        /\ dlv'[d].verdict = verdict /\ dlv'[d].settled
    BY <1>3, <1>4 DEF OnItsWay, FreeDelivery
  <2>2. verdict = "unobserved" /\ HoldsToken(d) /\ row[m].content = dlv[d].content
    BY <1>1, <2>1, OnItsWayIsSteady DEF AsScheduled, Leased, HoldsToken
  <2>3. row'[m] = SettledRow(row[m], "unobserved")
    BY <1>1, <2>2
  <2>4. SettledRow(row[m], "unobserved").status = "sent" /\ SettledRow(row[m], "unobserved").content = row[m].content
    <3>1. row[m] \in RowType
      BY <1>1
    <3>2. Status("unobserved") = "sent"
      BY DEF Status
    <3>3. QED
      BY <3>1, <3>2 DEF SettledRow, RowType
  <2>5. QED
    BY <1>4, <2>1, <2>2, <2>3, <2>4 DEF AsScheduled
<1>5. CASE c # d
  <2>1. dlv'[c] = dlv[c] /\ OnItsWay(c)
    BY <1>3, <1>5 DEF OnItsWay
  <2>2. AsScheduled(c) /\ dlv[c].msg \in Message
    BY <2>1, OnItsWayIsSteady
  <2>3. HoldsToken(d) => dlv[c].msg # m
    BY <1>5, <2>2 DEF AsScheduled, Leased, HoldsToken
  <2>4. row'[dlv[c].msg] = row[dlv[c].msg]
    BY <1>1, <2>2, <2>3
  <2>5. QED
    BY <2>1, <2>4, KeptAsScheduled DEF SameRow
<1>6. QED
  BY <1>4, <1>5

(* Steps that leave the deliveries and the steady rows alone.               *)
LEMMA SteadySteps ==
    ASSUME IInv, ScheduleInv, dlv' = dlv, \A n \in Message : Steady(n) => SameRow(n)
    PROVE  ScheduleInv'
<1> SUFFICES ASSUME NEW d \in Delivery, OnItsWay(d)' PROVE AsScheduled(d)'
  BY DEF ScheduleInv
<1>1. OnItsWay(d) /\ dlv'[d] = dlv[d]
  BY DEF OnItsWay
<1>2. dlv[d].msg \in Message /\ Steady(dlv[d].msg)
  BY <1>1, OnItsWayIsSteady
<1>3. QED
  BY <1>1, <1>2, KeptAsScheduled

LEMMA NextScheduleInv == ASSUME ~Faults PROVE IInv /\ ScheduleInv /\ [Next]_vars => ScheduleInv'
<1> SUFFICES ASSUME IInv, ScheduleInv, [Next]_vars PROVE ScheduleInv'
  OBVIOUS
<1>1. CASE UNCHANGED vars \/ Pause \/ Restart
  BY <1>1, SteadySteps DEF vars, Pause, Restart, SameRow
<1>2. CASE \E m \in Message : \/ UserStep(m) \/ BecomesDue(m) \/ BackoffEnds(m)
                              \/ RefundWindowCloses(m) \/ LeaseExpires(m)
  <2>1. \A n \in Message : Steady(n) => SameRow(n)
    BY <1>2, RowStepsSteady
  <2>2. dlv' = dlv
    BY <1>2 DEF UserStep, Create, Update, CancelMessage, BecomesDue, BackoffEnds, RefundWindowCloses, LeaseExpires
  <2>3. QED
    BY <2>1, <2>2, SteadySteps
<1>3. CASE \E d \in Delivery : RenewLease(d)
  <2>1. PICK d \in Delivery : RenewLease(d)
    BY <1>3
  <2>2. /\ row[dlv[d].msg].expired /\ row[dlv[d].msg].status = "running" /\ dlv' = dlv
        /\ row' = [row EXCEPT ![dlv[d].msg].expired = FALSE] /\ row \in [Message -> RowType]
    BY <2>1 DEF RenewLease, IInv, TypeOK
  <2>3. \A n \in Message : Steady(n) => row'[n] = row[n]
    BY <2>2 DEF Steady, Leased
  <2>4. QED
    BY <2>2, <2>3, SteadySteps DEF SameRow
<1>4. CASE PollFails
  BY <1>4, SweepSteady, SteadySteps DEF PollFails, SameRow
<1>5. CASE \E d \in Delivery, m \in Message : PollClaims(d, m)
  BY <1>5, PollAsScheduled
<1>6. CASE \E d \in Delivery : DeliveryStep(d) \/ AcceptanceTimeout(d)
  BY <1>6, DeliveriesAsScheduled
<1>7. CASE \E d \in Delivery : Settle(d) \/ SettleFails(d) \/ AuthorizationThrows(d)
  BY <1>7, SettleAsScheduled DEF SettleFails, AuthorizationThrows
<1>8. CASE Exit
  BY <1>8 DEF Exit, FreeDelivery, ScheduleInv, OnItsWay
<1>9. QED
  BY <1>1, <1>2, <1>3, <1>4, <1>5, <1>6, <1>7, <1>8 DEF Next, TimeStep, Poll

(* What is launched is what the row says at that moment: no cancellation    *)
(* and no edit overtakes a delivery under way (claimDue, updateOwned and    *)
(* cancelOwned of scheduled-messages.db.ts), if heartbeats come in time and *)
(* the store does not fail.                                                 *)
THEOREM LaunchedAsScheduled == ASSUME ~Faults PROVE Spec => LaunchesWhatIsScheduled
<1> DEFINE Step == \A d \in Delivery : dlv[d].turn = "claimed" /\ dlv'[d].turn = "live" =>
                       /\ row[dlv[d].msg].status \in {"running", "sent"}
                       /\ row[dlv[d].msg].content = dlv[d].content
<1>1. Init => ScheduleInv
  BY DEF Init, FreeDelivery, ScheduleInv, OnItsWay
<1>2. IInv /\ ScheduleInv /\ [Next]_vars => ScheduleInv'
  BY NextScheduleInv
<1>3. ScheduleInv => Step
  BY DEF ScheduleInv, OnItsWay, AsScheduled, Leased
<1> HIDE DEF Step
<1>4. Spec => [][Step]_vars
  BY <1>1, <1>2, <1>3, Inductive, PTL DEF Spec
<1>5. QED
  BY <1>4 DEF LaunchesWhatIsScheduled, Step
=============================================================================
