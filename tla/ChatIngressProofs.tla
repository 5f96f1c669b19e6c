-------------------------- MODULE ChatIngressProofs --------------------------
(***************************************************************************)
(* Proofs about repeated deliveries of chat messages, for any number of    *)
(* messages, payloads, deliveries and exits.  CallInv ties a delivery to   *)
(* the row it claimed, with or without a supervisor.  Without one a claim  *)
(* of the message is exclusive until the delivery ends (ClaimInv), and the *)
(* one turn it launches is the only source of verdicts: its end, or an     *)
(* error frame before it (OutcomeInv).                                     *)
(***************************************************************************)
EXTENDS ChatIngress, TLAPS

Unanswered(c) == call[c].phase \in {"claimed", "live"}

(* A delivery under way, or one that launched, holds the bound payload; a   *)
(* terminal row has a verdict.                                              *)
CallInv ==
    /\ \A c \in Call : call[c].phase # "idle" => call[c].msg \in Message
    /\ \A c \in Call : Unanswered(c) =>
          /\ ingress[call[c].msg].state # "absent"
          /\ ingress[call[c].msg].content = call[c].content
    /\ \A m \in Message : ingress[m].state = "terminal" => ingress[m].verdict \in {"ok", "failed"}
    /\ \A c \in Call : call[c].phase = "live" => c \in launched[call[c].msg]
    /\ \A m \in Message : \A c \in launched[m] :
          /\ call[c].phase \in {"live", "done"} /\ call[c].msg = m
          /\ ingress[m].state # "absent"
          /\ ingress[m].content = call[c].content

(* Without a supervisor one delivery at a time may launch a message, and    *)
(* only while nothing was launched for it.                                  *)
ClaimInv ==
    /\ \A c \in Call : call[c].phase = "claimed" /\ Direct(c) =>
          ingress[call[c].msg].state = "claimed" /\ launched[call[c].msg] = {}
    /\ \A c, d \in Call : call[c].phase = "claimed" /\ call[d].phase = "claimed"
                          /\ call[c].msg = call[d].msg /\ Direct(c) => c = d
    /\ \A m \in Message \ Supervised :
          launched[m] # {} => ingress[m].state \in {"claimed", "started", "terminal"}

(* Without a supervisor the verdict in the ledger is that of the one turn,  *)
(* or the failure of an error frame it sent.                                *)
VerdictOf(m) == \/ ingress[m].verdict = outcome[m]
                \/ ingress[m].verdict = "failed" /\ m \in errored

OutcomeInv ==
    /\ \A m \in Message \ Supervised : outcome[m] # "none" => launched[m] # {}
    /\ \A c \in Call : call[c].phase = "live" /\ Direct(c) => outcome[call[c].msg] = "none"
    /\ \A m \in Message \ Supervised : ingress[m].state = "terminal" => VerdictOf(m)

IInv == /\ TypeOK /\ CallInv /\ ClaimInv /\ OutcomeInv
        /\ AtMostOneLaunch /\ ReceiptIsSound /\ ReplayIsTheOutcome

-----------------------------------------------------------------------------
(* What each write to the ledger does to a row, and that it leaves the      *)
(* others alone (the operators of MessageIngress).                          *)

(* A claim of one message leaves the others' rows and a bound payload       *)
(* alone; it dispatches only a row that was absent or never started, which  *)
(* it marks claimed with the claimed payload, and otherwise changes nothing *)
(* (message-coordination.db.ts, claim).                                     *)
LEMMA ClaimEffect ==
    ASSUME IngressType, NEW m \in Message, NEW content \in Content, Claim(m, content)
    PROVE  /\ IngressType'
           /\ \A n \in Message \ {m} : ingress'[n] = ingress[n]
           /\ \/ /\ ClaimAnswer(m, content) = "dispatch"
                 /\ ingress[m].state \in {"absent", "not_started"}
                 /\ ingress'[m].state = "claimed" /\ ingress'[m].content = content
                 /\ ingress[m].state # "absent" => ingress[m].content = content
                 /\ ingress'[m].accepted => ingress[m].accepted
              \/ /\ ClaimAnswer(m, content) # "dispatch"
                 /\ ingress' = ingress /\ ingress[m].state # "absent"
<1> DEFINE r == ingress[m]
<1>t. /\ r \in IngressRow
      /\ r.state \in IngressStates
  BY DEF IngressType, IngressRow
<1>1. CASE r.state = "absent"
  <2>1. ClaimAnswer(m, content) = "dispatch"
    BY <1>1 DEF ClaimAnswer
  <2>2. ingress' = [ingress EXCEPT ![m] = [state |-> "claimed", content |-> content, verdict |-> "none",
                                                 accepted |-> FALSE]]
    BY <1>1 DEF Claim
  <2>3. QED
    BY <1>1, <2>1, <2>2 DEF IngressType, IngressRow, IngressStates, Verdicts
<1>2. CASE r.state # "absent" /\ r.content # content
  <2>1. ClaimAnswer(m, content) = "fingerprint_mismatch"
    BY <1>2 DEF ClaimAnswer
  <2>2. ingress' = ingress
    BY <1>2, <2>1 DEF Claim
  <2>3. QED
    BY <1>2, <2>1, <2>2 DEF IngressType
<1>3. CASE r.state = "not_started" /\ r.content = content
  <2>1. ClaimAnswer(m, content) = "dispatch"
    BY <1>3 DEF ClaimAnswer
  <2>2. ingress' = [ingress EXCEPT ![m].state = "claimed", ![m].verdict = "none"]
    BY <1>3, <2>1 DEF Claim
  <2>3. QED
    BY <1>3, <2>1, <2>2 DEF IngressType, IngressRow, IngressStates, Verdicts
<1>4. CASE r.state \in {"claimed", "started", "terminal"} /\ r.content = content
  <2>1. ClaimAnswer(m, content) \in {"replay_verdict", "ambiguous_started"}
    BY <1>4 DEF ClaimAnswer
  <2>2. ingress' = ingress
    BY <1>4, <2>1 DEF Claim
  <2>3. QED
    BY <1>4, <2>1, <2>2 DEF IngressType
<1>5. QED
  BY <1>t, <1>1, <1>2, <1>3, <1>4 DEF IngressStates

(* What the other answers say of the row: the same payload has ended, or is *)
(* under way.                                                               *)
LEMMA AnswerMeaning ==
    ASSUME IngressType, NEW m \in Message, NEW content \in Content
    PROVE  /\ ClaimAnswer(m, content) \in {"dispatch", "replay_verdict", "ambiguous_started", "fingerprint_mismatch"}
           /\ ClaimAnswer(m, content) = "replay_verdict" =>
                 ingress[m].state = "terminal" /\ ingress[m].content = content
           /\ ClaimAnswer(m, content) = "ambiguous_started" =>
                 ingress[m].state \in {"claimed", "started"} /\ ingress[m].content = content
BY DEF IngressType, IngressRow, IngressStates, ClaimAnswer

(* Marking a message started touches its lifecycle only, and only a claimed *)
(* one's (markStarted).                                                     *)
LEMMA MarkStartedEffect ==
    ASSUME IngressType, NEW m \in Message, MarkStarted(m)
    PROVE  /\ IngressType'
           /\ \A n \in Message \ {m} : ingress'[n] = ingress[n]
           /\ ingress'[m].content = ingress[m].content
           /\ ingress'[m].verdict = ingress[m].verdict
           /\ ingress'[m].state =
                  IF ingress[m].state \in {"claimed", "started"} THEN "started" ELSE ingress[m].state
BY DEF IngressType, IngressRow, IngressStates, MarkStarted

(* A verdict touches one row, keeps its payload, and is dropped outside the *)
(* lifecycle states that allow it (recordVerdict).                          *)
LEMMA RecordVerdictEffect ==
    ASSUME IngressType, NEW m \in Message, NEW status \in {"not_started", "terminal"},
           NEW verdict \in Verdicts, RecordVerdict(m, status, verdict)
    PROVE  /\ IngressType'
           /\ \A n \in Message \ {m} : ingress'[n] = ingress[n]
           /\ ingress'[m].content = ingress[m].content
           /\ ingress'[m].accepted = ingress[m].accepted
           /\ \/ ingress'[m] = ingress[m]
              \/ /\ ingress'[m].state = status /\ ingress'[m].verdict = verdict
                 /\ ingress[m].state \in {"claimed", "started"}
                 /\ status = "not_started" => ingress[m].state = "claimed"
BY DEF IngressType, IngressRow, IngressStates, RecordVerdict, AllowedPrior

-----------------------------------------------------------------------------
LEMMA InitIInv == Init => IInv
BY IngressAssumption
   DEF Init, IngressInit, IngressType, IngressRow, IngressStates, Verdicts, Idle, IInv, TypeOK, CallType, CallInv, Direct, ClaimInv,
       OutcomeInv, AtMostOneLaunch, ReceiptIsSound, ReplayIsTheOutcome, Truthful, Accepted, Unanswered

(* What the invariant says of one delivery under way.                       *)
LEMMA UnansweredTyped ==
    ASSUME TypeOK, CallInv, NEW c \in Call, Unanswered(c)
    PROVE  /\ call[c].msg \in Message /\ call[c].content \in Content \cup {0}
           /\ call[c].reply = "none"
BY DEF TypeOK, CallType, CallInv, Unanswered

(* A step that claims or launches no message without a supervisor, and      *)
(* writes no row of one, keeps ClaimInv.                                    *)
LEMMA ClaimFrame ==
    ASSUME ClaimInv, CallInv,
           \A n \in Message \ Supervised : ingress'[n] = ingress[n] /\ launched'[n] = launched[n],
           \A d \in Call : call'[d].phase = "claimed" /\ call'[d].msg \notin Supervised =>
               call'[d].phase = call[d].phase /\ call'[d].msg = call[d].msg
    PROVE  ClaimInv'
<1>1. \A d \in Call : call'[d].phase = "claimed" /\ Direct(d)' =>
         /\ call[d].phase = "claimed" /\ Direct(d)
         /\ call'[d].msg = call[d].msg /\ call[d].msg \in Message \ Supervised
  BY DEF Direct, CallInv
<1>2. \A d \in Call : call'[d].phase = "claimed" /\ Direct(d)' =>
         ingress'[call'[d].msg].state = "claimed" /\ launched'[call'[d].msg] = {}
  BY <1>1 DEF ClaimInv
<1>3. \A d, e \in Call : call'[d].phase = "claimed" /\ call'[e].phase = "claimed"
                         /\ call'[d].msg = call'[e].msg /\ Direct(d)' => d = e
  BY <1>1 DEF ClaimInv, Direct
<1>4. \A n \in Message \ Supervised : launched'[n] # {} => ingress'[n].state \in {"claimed", "started", "terminal"}
  BY DEF ClaimInv
<1>5. QED
  BY <1>2, <1>3, <1>4 DEF ClaimInv

LEMMA ArriveStep ==
    ASSUME IInv, NEW c \in Call, NEW m \in Message, NEW content \in Content, Arrive(c, m, content)
    PROVE  IInv'
<1>1. /\ call[c].phase = "idle" /\ Claim(m, content)
      /\ launched' = launched /\ outcome' = outcome /\ errored' = errored /\ exits' = exits
  BY DEF Arrive
<1>2. /\ TypeOK /\ CallInv /\ ClaimInv /\ OutcomeInv /\ AtMostOneLaunch /\ ReceiptIsSound
      /\ IngressType /\ call \in [Call -> CallType]
      /\ ReplayIsTheOutcome
  BY DEF IInv, TypeOK
<1> DEFINE answer == ClaimAnswer(m, content)
           given(p, r) == call' = [call EXCEPT ![c] = [msg |-> m, content |-> content, phase |-> p, reply |-> r]]
<1>3. \/ answer = "dispatch" /\ given("claimed", "none")
      \/ answer = "ambiguous_started" /\ m \in Supervised /\ given("claimed", "none")
      \/ answer = "replay_verdict" /\ given("done", ingress[m].verdict)
      \/ answer # "dispatch" /\ given("done", "refused")
  <2>1. answer \in {"dispatch", "replay_verdict", "ambiguous_started", "fingerprint_mismatch"}
    BY <1>2, AnswerMeaning
  <2>2. CASE answer = "dispatch"
    BY <2>2 DEF Arrive
  <2>3. CASE answer = "replay_verdict"
    BY <2>3 DEF Arrive
  <2>4. CASE answer = "ambiguous_started"
    BY <2>4 DEF Arrive
  <2>5. CASE answer = "fingerprint_mismatch"
    BY <2>5 DEF Arrive
  <2>6. QED
    BY <2>1, <2>2, <2>3, <2>4, <2>5
<1>4. /\ IngressType'
      /\ \A n \in Message \ {m} : ingress'[n] = ingress[n]
      /\ \/ /\ answer = "dispatch"
            /\ ingress[m].state \in {"absent", "not_started"}
            /\ ingress'[m].state = "claimed" /\ ingress'[m].content = content
            /\ ingress[m].state # "absent" => ingress[m].content = content
            /\ ingress'[m].accepted => ingress[m].accepted
         \/ /\ answer # "dispatch"
            /\ ingress' = ingress /\ ingress[m].state # "absent"
  BY <1>1, <1>2, ClaimEffect
<1>5. /\ answer = "replay_verdict" => ingress[m].state = "terminal" /\ ingress[m].content = content
      /\ answer = "ambiguous_started" => ingress[m].state # "absent" /\ ingress[m].content = content
  BY <1>2, AnswerMeaning
<1>6. /\ \A d \in Call \ {c} : call'[d] = call[d]
      /\ call'[c].msg = m /\ call'[c].content = content
      /\ call'[c].phase \in {"claimed", "done"}
      /\ call'[c].phase = "claimed" => answer = "dispatch" \/ (answer = "ambiguous_started" /\ m \in Supervised)
      /\ call'[c].reply \in {"ok", "failed"} => answer = "replay_verdict" /\ call'[c].reply = ingress[m].verdict
  BY <1>2, <1>3
<1> HIDE DEF answer, given
<1>7. TypeOK'
  <2>1. answer = "replay_verdict" => ingress[m].verdict \in {"ok", "failed"}
    BY <1>2, <1>5 DEF CallInv
  <2>2. call' \in [Call -> CallType] /\ (\A d \in Call : call'[d].reply # "none" <=> call'[d].phase = "done")
    BY <1>2, <1>3, <2>1 DEF TypeOK, CallType, given
  <2>3. QED
    BY <1>1, <1>2, <1>4, <2>2 DEF TypeOK
<1>8. \A n \in Message : c \notin launched[n]
  BY <1>1, <1>2 DEF CallInv
<1>9. CallInv'
  BY <1>1, <1>2, <1>4, <1>5, <1>6, <1>8 DEF CallInv, Unanswered, TypeOK
<1>10. ClaimInv'
  <2>1. CASE m \in Supervised
    BY <1>1, <1>2, <1>4, <1>6, <2>1, ClaimFrame
  <2>2. CASE m \notin Supervised /\ answer # "dispatch"
    BY <1>1, <1>2, <1>4, <1>6, <2>2 DEF Direct, ClaimInv
  <2>3. CASE m \notin Supervised /\ answer = "dispatch"
    <3>1. launched[m] = {} /\ ingress'[m].state = "claimed" /\ ingress[m].state \notin {"claimed", "started", "terminal"}
      BY <1>2, <1>4, <2>3 DEF Direct, ClaimInv
    <3>2. \A d \in Call \ {c} : call[d].phase = "claimed" => call[d].msg \in Message \ {m}
      BY <1>2, <2>3, <3>1 DEF Direct, ClaimInv, CallInv, Unanswered
    <3>3. \A d \in Call : call'[d].phase = "claimed" /\ Direct(d)' =>
             ingress'[call'[d].msg].state = "claimed" /\ launched'[call'[d].msg] = {}
      BY <1>1, <1>2, <1>4, <1>6, <2>3, <3>1, <3>2 DEF Direct, ClaimInv
    <3>4. \A d, e \in Call : call'[d].phase = "claimed" /\ call'[e].phase = "claimed"
                             /\ call'[d].msg = call'[e].msg /\ Direct(d)' => d = e
      BY <1>2, <1>6, <2>3, <3>2 DEF Direct, ClaimInv
    <3>5. \A n \in Message \ Supervised : launched'[n] # {} => ingress'[n].state \in {"claimed", "started", "terminal"}
      BY <1>1, <1>2, <1>4, <2>3, <3>1 DEF Direct, ClaimInv
    <3>6. QED
      BY <3>3, <3>4, <3>5 DEF Direct, ClaimInv
  <2>4. QED
    BY <2>1, <2>2, <2>3
<1>11. OutcomeInv' /\ ReplayIsTheOutcome'
  <2>1. \A n \in Message : ingress'[n].state = "terminal" => ingress[n].state = "terminal" /\ ingress'[n] = ingress[n]
    BY <1>4
  <2>2. OutcomeInv'
    BY <1>1, <1>2, <1>6, <2>1 DEF Direct, OutcomeInv, VerdictOf, TypeOK, CallInv
  <2>3. call'[c].reply \in {"ok", "failed"} /\ m \notin Supervised => outcome[m] = call'[c].reply \/ (call'[c].reply = "failed" /\ m \in errored)
    BY <1>2, <1>5, <1>6 DEF OutcomeInv, VerdictOf
  <2>4. ReplayIsTheOutcome'
    BY <1>1, <1>2, <1>6, <1>8, <2>3 DEF Direct, ReplayIsTheOutcome, Truthful, CallInv
  <2>5. QED
    BY <2>2, <2>4
<1>12. AtMostOneLaunch' /\ ReceiptIsSound'
  BY <1>1, <1>2, <1>4 DEF AtMostOneLaunch, ReceiptIsSound, Accepted
<1> QED
  BY <1>7, <1>9, <1>10, <1>11, <1>12 DEF IInv

(* What a write of a sidecar may do to the row of a message, done or lost.  *)
LEMMA SidecarEffect ==
    ASSUME IngressType, NEW m \in Message,
           \/ Sidecar(MarkStarted(m))
           \/ \E status \in {"not_started", "terminal"}, verdict \in Verdicts :
                  Sidecar(RecordVerdict(m, status, verdict))
    PROVE  /\ IngressType'
           /\ \A n \in Message \ {m} : ingress'[n] = ingress[n]
           /\ ingress'[m].content = ingress[m].content
           /\ ingress[m].state # "absent" => ingress'[m].state # "absent"
<1>1. CASE UNCHANGED ingress
  BY <1>1 DEF IngressType
<1>2. CASE MarkStarted(m)
  BY <1>2, MarkStartedEffect
<1>3. ASSUME NEW status \in {"not_started", "terminal"}, NEW verdict \in Verdicts, RecordVerdict(m, status, verdict)
      PROVE  /\ IngressType'
             /\ \A n \in Message \ {m} : ingress'[n] = ingress[n]
             /\ ingress'[m].content = ingress[m].content
             /\ ingress[m].state # "absent" => ingress'[m].state # "absent"
  BY <1>3, RecordVerdictEffect
<1>4. QED
  BY <1>1, <1>2, <1>3 DEF Sidecar

LEMMA ClaimFailsStep ==
    ASSUME IInv, NEW c \in Call, NEW m \in Message, NEW content \in Content, ClaimFails(c, m, content)
    PROVE  IInv'
<1>1. /\ call[c].phase = "idle"
      /\ call' = [call EXCEPT ![c] = [msg |-> m, content |-> content, phase |-> "done", reply |-> "unavailable"]]
      /\ UNCHANGED <<ingress, launched, outcome, errored, exits>>
  BY DEF ClaimFails
<1>2. /\ TypeOK /\ CallInv /\ ClaimInv /\ OutcomeInv /\ AtMostOneLaunch /\ ReceiptIsSound
      /\ ReplayIsTheOutcome
  BY DEF IInv
<1>3. /\ \A d \in Call \ {c} : call'[d] = call[d]
      /\ call'[c].phase = "done" /\ call'[c].reply = "unavailable"
  BY <1>1, <1>2 DEF TypeOK
<1>4. TypeOK'
  BY <1>1, <1>2 DEF TypeOK, CallType, IngressType, IngressRow
<1>5. CallInv'
  <2>1. \A n \in Message : c \notin launched[n]
    BY <1>1, <1>2 DEF CallInv
  <2>2. QED
    BY <1>1, <1>2, <1>3, <2>1 DEF CallInv, Unanswered, TypeOK
<1>6. ClaimInv' /\ OutcomeInv'
  <2>1. ClaimInv'
    BY <1>1, <1>2, <1>3, ClaimFrame
  <2>2. OutcomeInv'
    BY <1>1, <1>2, <1>3 DEF Direct, OutcomeInv, VerdictOf
  <2>3. QED
    BY <2>1, <2>2
<1>7. AtMostOneLaunch' /\ ReceiptIsSound' /\ ReplayIsTheOutcome'
  BY <1>1, <1>2, <1>3 DEF AtMostOneLaunch, ReceiptIsSound, Accepted, Direct, ReplayIsTheOutcome, Truthful
<1>8. QED
  BY <1>4, <1>5, <1>6, <1>7 DEF IInv

LEMMA RefusedNotStartedStep ==
    ASSUME IInv, NEW c \in Call, RefusedNotStarted(c)
    PROVE  IInv'
<1> DEFINE m == call[c].msg
<1>1. /\ call[c].phase = "claimed"
      /\ RecordVerdict(m, "not_started", "none") \/ UNCHANGED ingress
      /\ Sidecar(RecordVerdict(m, "not_started", "none"))
      /\ call' = [call EXCEPT ![c].phase = "done", ![c].reply = "retryable"]
      /\ UNCHANGED <<launched, outcome, errored, exits>>
  BY DEF RefusedNotStarted, Sidecar, Answers
<1>2. /\ TypeOK /\ CallInv /\ ClaimInv /\ OutcomeInv /\ AtMostOneLaunch /\ ReceiptIsSound
      /\ ReplayIsTheOutcome
      /\ IngressType
  BY DEF IInv, TypeOK
<1>3. m \in Message
  BY <1>1, <1>2 DEF CallInv, Unanswered
<1> HIDE DEF m
<1>4. /\ IngressType'
      /\ \A n \in Message \ {m} : ingress'[n] = ingress[n]
      /\ ingress'[m].content = ingress[m].content
      /\ ingress[m].state # "absent" => ingress'[m].state # "absent"
  BY <1>1, <1>2, <1>3, SidecarEffect DEF Verdicts
<1>5. /\ ingress'[m] = ingress[m] \/ (ingress'[m].state = "not_started" /\ ingress[m].state = "claimed")
      /\ ingress'[m].accepted = ingress[m].accepted
  BY <1>1, <1>2, <1>3, RecordVerdictEffect DEF Verdicts
<1>6. /\ \A d \in Call \ {c} : call'[d] = call[d]
      /\ call'[c].phase = "done" /\ call'[c].reply = "retryable"
      /\ call'[c].msg = call[c].msg /\ call'[c].content = call[c].content
  BY <1>1, <1>2 DEF TypeOK, CallType
<1>7. TypeOK'
  BY <1>1, <1>2, <1>4 DEF TypeOK, CallType
<1>8. CallInv'
  <2>1. \A n \in Message : c \notin launched[n]
    BY <1>1, <1>2 DEF CallInv
  <2>2. \A n \in Message : ingress'[n].state = "terminal" => ingress'[n] = ingress[n]
    BY <1>4, <1>5
  <2>3. QED
    BY <1>1, <1>2, <1>4, <1>6, <2>1, <2>2 DEF CallInv, Unanswered, TypeOK
<1>9. ClaimInv'
  <2>1. CASE m \in Supervised
    BY <1>1, <1>2, <1>4, <1>6, <2>1, ClaimFrame
  <2>2. CASE m \notin Supervised
    <3>1. launched[m] = {} /\ \A d \in Call \ {c} : call[d].phase = "claimed" => call[d].msg \in Message \ {m}
      BY <1>1, <1>2, <2>2 DEF Direct, ClaimInv, CallInv, Unanswered, m
    <3>2. \A d \in Call : call'[d].phase = "claimed" /\ Direct(d)' =>
             /\ d # c /\ call'[d] = call[d]
             /\ ingress'[call[d].msg].state = "claimed" /\ launched[call[d].msg] = {}
      BY <1>2, <1>4, <1>6, <2>2, <3>1 DEF Direct, ClaimInv
    <3>3. \A n \in Message \ Supervised :
             launched[n] # {} => ingress'[n].state \in {"claimed", "started", "terminal"}
      BY <1>2, <1>4, <2>2, <3>1 DEF Direct, ClaimInv
    <3>4. \A d, e \in Call : call'[d].phase = "claimed" /\ call'[e].phase = "claimed"
                             /\ call'[d].msg = call'[e].msg /\ Direct(d)' => d = e
      BY <1>2, <2>2, <3>2 DEF Direct, ClaimInv
    <3>5. QED
      BY <1>1, <3>2, <3>3, <3>4 DEF Direct, ClaimInv
  <2>3. QED
    BY <2>1, <2>2
<1>10. OutcomeInv' /\ AtMostOneLaunch' /\ ReceiptIsSound' /\ ReplayIsTheOutcome'
  <2>1. \A n \in Message : \/ ingress'[n] = ingress[n]
                            \/ /\ ingress'[n].state = "not_started"
                               /\ ingress'[n].accepted = ingress[n].accepted
    BY <1>4, <1>5
  <2>2. OutcomeInv'
    BY <1>1, <1>2, <1>6, <2>1 DEF Direct, OutcomeInv, VerdictOf
  <2>3. AtMostOneLaunch' /\ ReceiptIsSound'
    BY <1>1, <1>2, <2>1 DEF AtMostOneLaunch, ReceiptIsSound, Accepted
  <2>4. ReplayIsTheOutcome'
    <3>1. \A d \in Call : call'[d].reply \in {"ok", "failed"} => call'[d] = call[d]
      BY <1>6
    <3>2. QED
      <4>1. ASSUME NEW d \in Call, Direct(d)', call'[d].reply \in {"ok", "failed"}
            PROVE  Truthful(d, call[d].msg)' /\ call'[d] = call[d]
        <5>1. call'[d] = call[d]
          BY <3>1, <4>1
        <5>2. Truthful(d, call[d].msg)
          BY <1>2, <4>1, <5>1 DEF Direct, ReplayIsTheOutcome
        <5>3. launched' = launched /\ outcome' = outcome /\ errored' = errored
          BY <1>1
        <5>4. QED
          BY <5>1, <5>2, <5>3 DEF Truthful
      <4>2. QED
        BY <4>1 DEF Direct, ReplayIsTheOutcome, Truthful
  <2>5. QED
    BY <2>2, <2>3, <2>4
<1>11. QED
  BY <1>7, <1>8, <1>9, <1>10 DEF IInv

(* A launch follows a claim, so nothing was launched before.                *)
LEMMA LaunchStep ==
    ASSUME IInv, NEW c \in Call, Launch(c)
    PROVE  IInv'
<1> DEFINE m == call[c].msg
<1>1. /\ call[c].phase = "claimed"
      /\ m \in Supervised => launched[m] = {}
      /\ call' = [call EXCEPT ![c].phase = "live"]
      /\ launched' = [launched EXCEPT ![m] = @ \cup {c}]
      /\ ingress' = ingress /\ outcome' = outcome /\ errored' = errored /\ exits' = exits
  BY DEF Launch
<1>2. /\ TypeOK /\ CallInv /\ ClaimInv /\ OutcomeInv /\ AtMostOneLaunch /\ ReceiptIsSound
      /\ ReplayIsTheOutcome
      /\ IngressType
  BY DEF IInv, TypeOK
<1>3. /\ m \in Message /\ ingress[m].state # "absent" /\ ingress[m].content = call[c].content
      /\ launched[m] = {}
      /\ m \notin Supervised => ingress[m].state = "claimed" /\ outcome[m] = "none"
  BY <1>1, <1>2 DEF CallInv, Unanswered, Direct, ClaimInv, OutcomeInv
<1>4. m \notin Supervised => \A d \in Call \ {c} : call[d].phase = "claimed" => call[d].msg # m
  BY <1>1, <1>2 DEF Direct, ClaimInv
<1>5. /\ call[c].msg = m
      /\ \A d \in Call \ {c} : call'[d] = call[d]
      /\ call'[c].phase = "live" /\ call'[c].reply = call[c].reply
      /\ call'[c].msg = m /\ call'[c].content = call[c].content
      /\ launched'[m] = {c} /\ \A n \in Message \ {m} : launched'[n] = launched[n]
  BY <1>1, <1>2, <1>3 DEF TypeOK, CallType
<1>6. TypeOK'
  BY <1>1, <1>2, <1>3 DEF TypeOK, CallType, IngressType, IngressRow
<1> HIDE DEF m
<1>7. CallInv'
  <2>1. \A n \in Message : \A d \in launched'[n] :
           (d = c /\ n = m) \/ (d \in launched[n] /\ d # c /\ n # m)
    BY <1>1, <1>2, <1>5 DEF CallInv
  <2>2. \A n \in Message : \A d \in launched'[n] :
           /\ call'[d].phase \in {"live", "done"} /\ call'[d].msg = n
           /\ ingress[n].state # "absent" /\ ingress[n].content = call'[d].content
    BY <1>2, <1>3, <1>5, <2>1 DEF CallInv, TypeOK
  <2>3. \A d \in Call : call'[d].phase \in {"claimed", "live"} =>
           /\ call'[d].msg \in Message /\ ingress[call'[d].msg].state # "absent"
           /\ ingress[call'[d].msg].content = call'[d].content
    BY <1>2, <1>3, <1>5 DEF CallInv, Unanswered
  <2>4. \A d \in Call : call'[d].phase = "live" => d \in launched'[call'[d].msg]
    BY <1>2, <1>3, <1>5 DEF CallInv, Unanswered
  <2>5. \A n \in Message : ingress[n].state = "terminal" => ingress[n].verdict \in {"ok", "failed"}
    BY <1>2 DEF CallInv
  <2>6. \A d \in Call : call'[d].phase # "idle" => call'[d].msg \in Message
    BY <1>2, <1>3, <1>5 DEF CallInv
  <2>7. QED
    BY <1>1, <2>2, <2>3, <2>4, <2>5, <2>6 DEF CallInv, Unanswered
<1>8. ClaimInv'
  <2>1. \A d \in Call : call'[d].phase = "claimed" => d # c /\ call[d].phase = "claimed" /\ call'[d] = call[d]
                                                    /\ call[d].msg \in Message
    BY <1>2, <1>5 DEF CallInv, Unanswered
  <2>2. \A d \in Call : call'[d].phase = "claimed" /\ Direct(d)' =>
           d # c /\ call'[d] = call[d] /\ Direct(d) /\ call[d].msg \in Message \ {m}
    BY <1>3, <1>4, <1>5, <2>1 DEF Direct
  <2>3. \A d \in Call : call'[d].phase = "claimed" /\ Direct(d)' =>
           ingress'[call'[d].msg].state = "claimed" /\ launched'[call'[d].msg] = {}
    BY <1>1, <1>2, <1>5, <2>1, <2>2 DEF ClaimInv
  <2>4. \A d, e \in Call : call'[d].phase = "claimed" /\ call'[e].phase = "claimed"
                           /\ call'[d].msg = call'[e].msg /\ Direct(d)' => d = e
    BY <1>2, <2>1, <2>2 DEF ClaimInv
  <2>5. \A n \in Message \ Supervised : launched'[n] # {} => ingress'[n].state \in {"claimed", "started", "terminal"}
    BY <1>1, <1>2, <1>3, <1>5 DEF ClaimInv
  <2>6. QED
    BY <2>3, <2>4, <2>5 DEF ClaimInv
<1>9. OutcomeInv'
  BY <1>1, <1>2, <1>3, <1>5 DEF Direct, OutcomeInv, VerdictOf
<1>10. AtMostOneLaunch' /\ ReceiptIsSound'
  BY <1>1, <1>2, <1>5 DEF AtMostOneLaunch, ReceiptIsSound, Accepted
<1>11. ReplayIsTheOutcome'
  <2>1. ASSUME NEW d \in Call, Direct(d)', call'[d].reply \in {"ok", "failed"}
        PROVE  Truthful(d, call[d].msg)'
    <3>1. d # c /\ call'[d] = call[d] /\ call[d].phase = "done"
      BY <1>1, <1>2, <1>5, <2>1 DEF TypeOK
    <3>2. Truthful(d, call[d].msg) /\ call[d].msg \in Message
      BY <1>2, <2>1, <3>1 DEF ReplayIsTheOutcome, Direct, CallInv
    <3>3. d \notin launched[call[d].msg] => d \notin launched'[call[d].msg]
      BY <1>3, <1>5, <3>1, <3>2
    <3>4. QED
      BY <1>1, <3>1, <3>2, <3>3 DEF Truthful
  <2>2. QED
    BY <1>5, <2>1 DEF ReplayIsTheOutcome, Truthful, Direct
<1>12. QED
  BY <1>6, <1>7, <1>8, <1>9, <1>10, <1>11 DEF IInv

(* The answers after which the delivery is done and the ledger may say      *)
(* "terminal".                                                              *)
LEMMA TerminalAnswer ==
    ASSUME IInv, NEW c \in Call, NEW m \in Message, NEW result \in {"ok", "failed"},
           call[c].msg = m, Unanswered(c), launched[m] # {},
           Sidecar(RecordVerdict(m, "terminal", result)), Answers(c, result),
           outcome' = outcome \/ (call[c].phase = "live" /\ outcome' = [outcome EXCEPT ![m] = result]),
           m \notin Supervised => call[c].phase = "live" /\ outcome'[m] = result,
           launched' = launched, errored' = errored, exits' = exits
    PROVE  IInv'
<1>1. /\ TypeOK /\ CallInv /\ ClaimInv /\ OutcomeInv /\ AtMostOneLaunch /\ ReceiptIsSound
      /\ ReplayIsTheOutcome
      /\ IngressType
  BY DEF IInv, TypeOK
<1>2. /\ IngressType'
      /\ \A n \in Message \ {m} : ingress'[n] = ingress[n]
      /\ ingress'[m].content = ingress[m].content
      /\ ingress[m].state # "absent" => ingress'[m].state # "absent"
  BY <1>1, SidecarEffect DEF Verdicts
<1>3. ingress'[m] = ingress[m] \/ (ingress'[m].state = "terminal" /\ ingress'[m].verdict = result)
  BY <1>1, RecordVerdictEffect DEF Sidecar, Verdicts
<1>4. /\ \A d \in Call \ {c} : call'[d] = call[d]
      /\ call'[c].phase = "done" /\ call'[c].reply = result
      /\ call'[c].msg = m /\ call'[c].content = call[c].content
  BY <1>1 DEF TypeOK, CallType, Answers
<1>5. /\ outcome' \in [Message -> {"none", "ok", "failed"}]
      /\ \A n \in Message \ {m} : outcome'[n] = outcome[n]
  BY <1>1 DEF TypeOK
<1>6. TypeOK'
  <2>1. call' \in [Call -> CallType] /\ (\A d \in Call : call'[d].reply # "none" <=> call'[d].phase = "done")
    <3>1. call' = [call EXCEPT ![c] = [call[c] EXCEPT !.phase = "done", !.reply = result]]
      BY DEF Answers
    <3>2. [call[c] EXCEPT !.phase = "done", !.reply = result] \in CallType
      BY <1>1 DEF TypeOK, CallType
    <3>3. QED
      BY <1>1, <1>4, <3>1, <3>2 DEF TypeOK
  <2>2. QED
    BY <1>1, <1>2, <1>5, <2>1 DEF TypeOK
<1>7. CallInv'
  <2>1. \A n \in Message : ingress'[n].state = "terminal" => ingress'[n].verdict \in {"ok", "failed"}
    BY <1>1, <1>2, <1>3 DEF CallInv
  <2>2. QED
    BY <1>1, <1>2, <1>4, <2>1 DEF CallInv, Unanswered, TypeOK
<1>8. ClaimInv'
  <2>1. \A d \in Call : call[d].phase = "claimed" /\ Direct(d) => call[d].msg \in Message \ {m}
    BY <1>1 DEF Direct, ClaimInv, CallInv, Unanswered
  <2>2. \A d \in Call : call'[d].phase = "claimed" /\ Direct(d)' => d # c /\ call'[d] = call[d] /\ Direct(d)
    BY <1>4 DEF Direct
  <2>3. QED
    BY <1>1, <1>2, <1>3, <1>4, <2>1, <2>2 DEF Direct, ClaimInv
<1>9. OutcomeInv' /\ ReplayIsTheOutcome'
  <2>1. \A d \in Call \ {c} : call[d].phase = "live" => m \in Supervised \/ call[d].msg # m
    BY <1>1 DEF CallInv, AtMostOneLaunch
  <2>2. ASSUME m \notin Supervised
        PROVE  /\ outcome[m] = "none" /\ outcome'[m] = result
               /\ ingress[m].state = "terminal" => ingress[m].verdict = "failed" /\ m \in errored
    BY <1>1, <2>2 DEF Direct, OutcomeInv, VerdictOf, CallInv
  <2>3. OutcomeInv'
    <3>1. \A n \in Message \ Supervised : outcome'[n] # "none" => launched'[n] # {}
      BY <1>1, <1>5 DEF OutcomeInv
    <3>2. \A d \in Call : call'[d].phase = "live" /\ Direct(d)' => outcome'[call'[d].msg] = "none"
      BY <1>1, <1>4, <1>5, <2>1 DEF Direct, OutcomeInv, CallInv, Unanswered
    <3>3. \A n \in Message \ Supervised :
             ingress'[n].state = "terminal" => VerdictOf(n)'
      <4>1. ASSUME NEW n \in Message \ Supervised, n # m
            PROVE  ingress'[n].state = "terminal" => VerdictOf(n)'
        BY <1>1, <1>2, <1>5, <4>1 DEF OutcomeInv, VerdictOf
      <4>2. ASSUME m \notin Supervised, ingress'[m].state = "terminal"
            PROVE  VerdictOf(m)'
        <5>1. outcome'[m] = result /\ errored' = errored
          BY <4>2
        <5>2. CASE ingress'[m] = ingress[m]
          BY <2>2, <4>2, <5>1, <5>2 DEF VerdictOf
        <5>3. CASE ingress'[m].verdict = result
          BY <5>1, <5>3 DEF VerdictOf
        <5>4. QED
          BY <1>3, <5>2, <5>3
      <4>3. QED
        BY <4>1, <4>2
    <3>4. QED
      BY <3>1, <3>2, <3>3 DEF OutcomeInv
  <2>4. ReplayIsTheOutcome'
    <3>1. \A d \in Call \ {c} : Direct(d) => Truthful(d, call[d].msg)'
      <4>1. ASSUME NEW d \in Call \ {c}, Direct(d), call[d].reply \in {"ok", "failed"}
            PROVE  Truthful(d, call[d].msg)'
        <5>1. call[d].msg \in Message /\ Truthful(d, call[d].msg) /\ call'[d] = call[d]
          BY <1>1, <1>4, <4>1 DEF TypeOK, CallInv, ReplayIsTheOutcome
        <5>2. CASE call[d].msg = m
          <6>1. m \notin Supervised /\ outcome[m] = "none"
            BY <2>2, <4>1, <5>2 DEF Direct
          <6>2. call[d].reply = "failed" /\ d \notin launched[m] /\ m \in errored
            BY <4>1, <5>1, <5>2, <6>1 DEF Truthful
          <6>3. QED
            BY <5>1, <5>2, <6>2 DEF Truthful
        <5>3. CASE call[d].msg # m
          BY <1>5, <5>1, <5>3 DEF Truthful
        <5>4. QED
          BY <5>2, <5>3
      <4>2. QED
        BY <1>4, <4>1 DEF Truthful
    <3>2. m \notin Supervised => Truthful(c, m)'
      BY <1>4, <2>2 DEF Truthful
    <3>3. QED
      BY <1>4, <3>1, <3>2 DEF Direct, ReplayIsTheOutcome
  <2>5. QED
    BY <2>3, <2>4
<1>10. AtMostOneLaunch' /\ ReceiptIsSound'
  BY <1>1, <1>2 DEF AtMostOneLaunch, ReceiptIsSound, Accepted
<1>11. QED
  BY <1>6, <1>7, <1>8, <1>9, <1>10 DEF IInv

LEMMA SupervisorAnswersStep ==
    ASSUME IInv, NEW c \in Call, SupervisorAnswers(c)
    PROVE  IInv'
<1> DEFINE m == call[c].msg
           verdict == IF outcome[m] = "ok" THEN "ok" ELSE "failed"
<1>1. /\ m \in Supervised /\ call[c].phase = "claimed" /\ launched[m] # {}
      /\ Sidecar(RecordVerdict(m, "terminal", verdict)) /\ Answers(c, verdict)
      /\ outcome' = outcome /\ launched' = launched /\ errored' = errored /\ exits' = exits
  BY DEF SupervisorAnswers
<1>2. m \in Message /\ Unanswered(c) /\ verdict \in {"ok", "failed"}
  BY <1>1 DEF IInv, CallInv, Unanswered
<1> HIDE DEF verdict
<1>3. QED
  BY <1>1, <1>2, TerminalAnswer

LEMMA EndsStep ==
    ASSUME IInv, NEW c \in Call, Ends(c)
    PROVE  IInv'
<1> DEFINE m == call[c].msg
<1>1. PICK result \in {"ok", "failed"} :
         /\ outcome' = [outcome EXCEPT ![m] = result]
         /\ Sidecar(RecordVerdict(m, "terminal", result)) /\ Answers(c, result)
  BY DEF Ends
<1>2. call[c].phase = "live" /\ launched' = launched /\ errored' = errored /\ exits' = exits
  BY DEF Ends
<1>3. m \in Message /\ Unanswered(c) /\ launched[m] # {}
  BY <1>2 DEF IInv, CallInv, Unanswered
<1>4. outcome'[m] = result
  BY <1>1, <1>3 DEF IInv, TypeOK
<1>5. QED
  BY <1>1, <1>2, <1>3, <1>4, TerminalAnswer

LEMMA ActivityStep ==
    ASSUME IInv, NEW c \in Call, Activity(c)
    PROVE  IInv'
<1> DEFINE m == call[c].msg
<1>1. /\ call[c].phase = "live" /\ Sidecar(MarkStarted(m))
      /\ call' = call /\ launched' = launched /\ outcome' = outcome /\ errored' = errored /\ exits' = exits
  BY DEF Activity
<1>2. /\ TypeOK /\ CallInv /\ ClaimInv /\ OutcomeInv /\ AtMostOneLaunch /\ ReceiptIsSound
      /\ ReplayIsTheOutcome
      /\ IngressType
  BY DEF IInv, TypeOK
<1>3. m \in Message /\ c \in launched[m]
  BY <1>1, <1>2 DEF CallInv
<1> HIDE DEF m
<1>4. /\ IngressType'
      /\ \A n \in Message \ {m} : ingress'[n] = ingress[n]
      /\ ingress'[m].content = ingress[m].content
      /\ ingress[m].state # "absent" => ingress'[m].state # "absent"
  BY <1>1, <1>2, <1>3, SidecarEffect
<1>5. /\ ingress'[m].verdict = ingress[m].verdict
      /\ ingress'[m] = ingress[m] \/ (ingress[m].state \in {"claimed", "started"} /\ ingress'[m].state = "started")
  <2>1. CASE MarkStarted(m)
    <3>1. ingress'[m].state = IF ingress[m].state \in {"claimed", "started"} THEN "started" ELSE ingress[m].state
      BY <1>2, <1>3, <2>1, MarkStartedEffect
    <3>2. ingress'[m].verdict = ingress[m].verdict
      BY <1>2, <1>3, <2>1, MarkStartedEffect
    <3>3. CASE ingress[m].state \in {"claimed", "started"}
      BY <3>1, <3>2, <3>3
    <3>4. CASE ingress[m].state \notin {"claimed", "started"}
      BY <1>2, <2>1, <3>4 DEF MarkStarted, IngressType
    <3>5. QED
      BY <3>2, <3>3, <3>4
  <2>2. QED
    BY <1>1, <2>1 DEF Sidecar
<1>6. TypeOK' /\ CallInv'
  BY <1>1, <1>2, <1>4, <1>5 DEF TypeOK, CallInv, Unanswered
<1>7. ClaimInv'
  <2>1. CASE m \in Supervised
    BY <1>1, <1>2, <1>4, <2>1, ClaimFrame
  <2>2. CASE m \notin Supervised
    <3>1. \A d \in Call : call[d].phase = "claimed" => call[d].msg \in Message \ {m}
      BY <1>2, <1>3, <2>2 DEF Direct, ClaimInv, CallInv
    <3>2. \A d \in Call : call[d].phase = "claimed" /\ Direct(d) =>
             ingress'[call[d].msg].state = "claimed" /\ launched[call[d].msg] = {}
      BY <1>2, <1>4, <2>2, <3>1 DEF Direct, ClaimInv
    <3>3. \A n \in Message \ Supervised :
             launched[n] # {} => ingress'[n].state \in {"claimed", "started", "terminal"}
      BY <1>2, <1>4, <1>5, <2>2 DEF Direct, ClaimInv
    <3>4. QED
      BY <1>1, <1>2, <2>2, <3>2, <3>3 DEF Direct, ClaimInv
  <2>3. QED
    BY <2>1, <2>2
<1>8. OutcomeInv' /\ AtMostOneLaunch' /\ ReplayIsTheOutcome'
  BY <1>1, <1>2, <1>4, <1>5 DEF Direct, OutcomeInv, VerdictOf, AtMostOneLaunch, ReplayIsTheOutcome, Truthful
<1>9. ReceiptIsSound'
  BY <1>1, <1>2, <1>3, <1>4 DEF ReceiptIsSound, Accepted
<1>10. QED
  BY <1>6, <1>7, <1>8, <1>9 DEF IInv

(* An error frame may close the row as failed before the turn ends; what    *)
(* anybody was told before stays as true as it was.                         *)
LEMMA ErrorFrameStep ==
    ASSUME IInv, NEW c \in Call, ErrorFrame(c)
    PROVE  IInv'
<1> DEFINE m == call[c].msg
<1>1. /\ call[c].phase = "live" /\ Sidecar(RecordVerdict(m, "terminal", "failed"))
      /\ errored' = errored \cup {m}
      /\ call' = call /\ launched' = launched /\ outcome' = outcome /\ exits' = exits
  BY DEF ErrorFrame
<1>2. /\ TypeOK /\ CallInv /\ ClaimInv /\ OutcomeInv /\ AtMostOneLaunch /\ ReceiptIsSound
      /\ ReplayIsTheOutcome
      /\ IngressType
  BY DEF IInv, TypeOK
<1>3. m \in Message /\ c \in launched[m]
  BY <1>1, <1>2 DEF CallInv
<1> HIDE DEF m
<1>4. /\ IngressType'
      /\ \A n \in Message \ {m} : ingress'[n] = ingress[n]
      /\ ingress'[m].content = ingress[m].content
      /\ ingress[m].state # "absent" => ingress'[m].state # "absent"
  BY <1>1, <1>2, <1>3, SidecarEffect DEF Verdicts
<1>5. \/ ingress'[m] = ingress[m]
      \/ /\ ingress[m].state \in {"claimed", "started"}
         /\ ingress'[m].state = "terminal" /\ ingress'[m].verdict = "failed"
  BY <1>1, <1>2, <1>3, RecordVerdictEffect DEF Sidecar, Verdicts
<1>6. TypeOK' /\ CallInv'
  BY <1>1, <1>2, <1>3, <1>4, <1>5 DEF TypeOK, CallInv, Unanswered
<1>7. ClaimInv'
  <2>1. CASE m \in Supervised
    BY <1>1, <1>2, <1>4, <2>1, ClaimFrame
  <2>2. CASE m \notin Supervised
    <3>1. \A d \in Call : call[d].phase = "claimed" /\ Direct(d) => call[d].msg \in Message \ {m}
      BY <1>2, <1>3, <2>2 DEF Direct, ClaimInv, CallInv
    <3>2. \A d \in Call : call[d].phase = "claimed" /\ Direct(d) =>
             ingress'[call[d].msg].state = "claimed" /\ launched[call[d].msg] = {}
      BY <1>2, <1>4, <3>1 DEF Direct, ClaimInv
    <3>3. \A n \in Message \ Supervised :
             launched[n] # {} => ingress'[n].state \in {"claimed", "started", "terminal"}
      BY <1>2, <1>4, <1>5, <2>2 DEF Direct, ClaimInv
    <3>4. QED
      BY <1>1, <1>2, <3>2, <3>3 DEF Direct, ClaimInv
  <2>3. QED
    BY <2>1, <2>2
<1>8. OutcomeInv'
  <2>1. \A n \in Message \ Supervised : ingress'[n].state = "terminal" => VerdictOf(n)'
    BY <1>1, <1>2, <1>4, <1>5 DEF OutcomeInv, VerdictOf
  <2>2. QED
    BY <1>1, <1>2, <2>1 DEF OutcomeInv, Direct
<1>9. AtMostOneLaunch' /\ ReplayIsTheOutcome'
  BY <1>1, <1>2 DEF Direct, AtMostOneLaunch, ReplayIsTheOutcome, Truthful
<1>10. ReceiptIsSound'
  BY <1>1, <1>2, <1>3, <1>4 DEF ReceiptIsSound, Accepted
<1>11. QED
  BY <1>6, <1>7, <1>8, <1>9, <1>10 DEF IInv

LEMMA ExitStep ==
    ASSUME IInv, Exit
    PROVE  IInv'
<1>1. /\ exits < MaxExits /\ exits' = exits + 1
      /\ call' = [c \in Call |-> IF call[c].phase \in {"claimed", "live"}
                                 THEN [call[c] EXCEPT !.phase = "done", !.reply = "lost"] ELSE call[c]]
      /\ ingress' = ingress /\ launched' = launched /\ outcome' = outcome /\ errored' = errored
  BY DEF Exit
<1>2. /\ TypeOK /\ CallInv /\ ClaimInv /\ OutcomeInv /\ AtMostOneLaunch /\ ReceiptIsSound
      /\ ReplayIsTheOutcome
      /\ IngressType
  BY DEF IInv, TypeOK
<1>3. ASSUME NEW c \in Call
      PROVE  /\ call'[c].msg = call[c].msg /\ call'[c].content = call[c].content
             /\ call[c].phase = "idle" <=> call'[c].phase = "idle"
             /\ call'[c].phase \in {"idle", "done"}
             /\ call'[c].reply # "none" <=> call'[c].phase = "done"
             /\ call'[c].reply \in {"ok", "failed"} => call'[c] = call[c]
             /\ call'[c] \in CallType
  <2>1. call[c] \in CallType /\ (call[c].reply # "none" <=> call[c].phase = "done")
    BY <1>2 DEF TypeOK
  <2>2. CASE call[c].phase \in {"claimed", "live"}
    <3>1. call'[c] = [call[c] EXCEPT !.phase = "done", !.reply = "lost"]
      BY <1>1, <2>2
    <3>2. QED
      BY <2>1, <2>2, <3>1 DEF CallType
  <2>3. CASE call[c].phase \notin {"claimed", "live"}
    <3>1. call'[c] = call[c]
      BY <1>1, <2>3
    <3>2. QED
      BY <2>1, <2>3, <3>1 DEF CallType
  <2>4. QED
    BY <2>2, <2>3
<1>4. call' \in [Call -> CallType]
  BY <1>1, <1>3
<1>5. TypeOK'
  <2>1. IngressType' /\ exits' \in 0..MaxExits
    <3>1. exits \in 0..MaxExits /\ exits < MaxExits /\ exits' = exits + 1 /\ MaxExits \in Nat
      BY <1>1, <1>2, IngressAssumption DEF TypeOK
    <3>2. IngressType'
      BY <1>1, <1>2 DEF IngressType
    <3>3. QED
      BY <3>1, <3>2
  <2>2. \A c \in Call : call'[c].reply # "none" <=> call'[c].phase = "done"
    BY <1>3
  <2>3. QED
    BY <1>1, <1>2, <1>4, <2>1, <2>2 DEF TypeOK
<1>6. CallInv' /\ ClaimInv' /\ OutcomeInv'
  <2>1. CallInv'
    <3>1. \A m \in Message : \A c \in launched[m] : c \in Call /\ call'[c].phase = "done"
      BY <1>2, <1>3 DEF CallInv, TypeOK
    <3>2. \A m \in Message : \A c \in launched[m] :
             /\ call'[c].msg = m
             /\ ingress[m].state # "absent" /\ ingress[m].content = call'[c].content
      BY <1>2, <1>3, <3>1 DEF CallInv
    <3>3. \A c \in Call : call'[c].phase # "idle" => call'[c].msg \in Message
      BY <1>2, <1>3 DEF CallInv
    <3>4. \A c \in Call : call'[c].phase \notin {"claimed", "live"}
      BY <1>3
    <3>5. \A m \in Message : ingress[m].state = "terminal" => ingress[m].verdict \in {"ok", "failed"}
      BY <1>2 DEF CallInv
    <3>6. /\ \A c \in Call : Unanswered(c)' => /\ ingress[call'[c].msg].state # "absent"
                                               /\ ingress[call'[c].msg].content = call'[c].content
          /\ \A c \in Call : call'[c].phase = "live" => c \in launched[call'[c].msg]
      BY <3>4 DEF Unanswered
    <3>7. ingress' = ingress /\ launched' = launched
      BY <1>1
    <3>8. QED
      BY <3>1, <3>2, <3>3, <3>5, <3>6, <3>7 DEF CallInv, Unanswered
  <2>2. ClaimInv' /\ OutcomeInv'
    BY <1>1, <1>2, <1>3 DEF Direct, ClaimInv, OutcomeInv, VerdictOf
  <2>3. QED
    BY <2>1, <2>2
<1>7. AtMostOneLaunch' /\ ReceiptIsSound' /\ ReplayIsTheOutcome'
  BY <1>1, <1>2, <1>3 DEF AtMostOneLaunch, ReceiptIsSound, Accepted, Direct, ReplayIsTheOutcome, Truthful
<1>8. QED
  BY <1>5, <1>6, <1>7 DEF IInv

LEMMA NextIInv == IInv /\ [Next]_vars => IInv'
<1> SUFFICES ASSUME IInv, [Next]_vars PROVE IInv'
  OBVIOUS
<1>1. CASE UNCHANGED vars
  BY <1>1 DEF vars, IInv, TypeOK, IngressType, CallInv, Direct, ClaimInv, OutcomeInv, VerdictOf, Unanswered,
              AtMostOneLaunch, ReceiptIsSound, Accepted, ReplayIsTheOutcome, Truthful
<1>2. ASSUME NEW c \in Call, NEW m \in Message, NEW content \in Content,
             Arrive(c, m, content) \/ ClaimFails(c, m, content)
      PROVE IInv'
  BY <1>2, ArriveStep, ClaimFailsStep
<1>3. ASSUME NEW c \in Call,
             \/ RefusedNotStarted(c) \/ Launch(c) \/ SupervisorAnswers(c)
             \/ Activity(c) \/ ErrorFrame(c) \/ Ends(c)
      PROVE IInv'
  BY <1>3, RefusedNotStartedStep, LaunchStep, SupervisorAnswersStep, ActivityStep, ErrorFrameStep, EndsStep
<1>4. QED
  BY <1>1, <1>2, <1>3, ExitStep DEF Next

LEMMA Inductive == Spec => []IInv
BY InitIInv, NextIInv, PTL DEF Spec

(* Types: a delivery is answered exactly when it is done                    *)
(* (chat-websocket.service.ts, withCoordinationMetadata).                   *)
THEOREM TypeCorrect == Spec => []TypeOK
BY Inductive, PTL DEF IInv

(* However often a message is delivered, resent after a crash or reopened   *)
(* after a proven refusal, one provider turn starts for it                  *)
(* (dispatchProviderCommand and message-coordination.db.ts, claim).         *)
THEOREM OneLaunch == Spec => []AtMostOneLaunch
BY Inductive, PTL DEF IInv

(* The payload a provider starts on is the one first bound to the id (claim).*)
THEOREM LaunchedPayload == Spec => []LaunchedPayloadIsBound
<1>1. IInv => LaunchedPayloadIsBound
  BY DEF IInv, CallInv, LaunchedPayloadIsBound
<1>2. QED
  BY <1>1, Inductive, PTL

(* A receipt "accepted" is given only of a message that was launched        *)
(* (sessions.service.ts, readMessageDelivery), supervised or not.           *)
THEOREM SoundReceipt == Spec => []ReceiptIsSound
BY Inductive, PTL DEF IInv

(* Without a turn supervisor the delivery that launched the turn is told    *)
(* how it ended; a duplicate is told "ok" only of a turn that ended so and  *)
(* "failed" only of one that failed or sent an error frame on its way.      *)
THEOREM SoundReplay == Spec => []ReplayIsTheOutcome
BY Inductive, PTL DEF IInv

(* Without a turn supervisor a client is invited to use a message id again  *)
(* only if nothing was ever launched for it (sameClientMsgIdRetryable).     *)
THEOREM SoundRetry == Spec => RetryableMeansNotLaunched
<1>1. ASSUME IInv, Next,
             NEW c \in Call, Direct(c), call[c].reply = "none", call'[c].reply = "retryable"
      PROVE  launched[call[c].msg] = {}
  <2>1. call \in [Call -> CallType] /\ ClaimInv
    BY <1>1 DEF IInv, TypeOK
  <2>2. CASE \E d \in Call : RefusedNotStarted(d)
    <3>1. PICK d \in Call : RefusedNotStarted(d)
      BY <2>2
    <3>2. c = d /\ call[c].phase = "claimed"
      BY <1>1, <2>1, <3>1 DEF RefusedNotStarted, Answers
    <3>3. QED
      BY <1>1, <2>1, <3>2 DEF ClaimInv
  <2>3. CASE \E d \in Call, m \in Message, content \in Content : Arrive(d, m, content)
    <3>1. PICK d \in Call, m \in Message, content \in Content : Arrive(d, m, content)
      BY <2>3
    <3>2. ingress[m].verdict # "retryable"
      BY <1>1 DEF IInv, TypeOK, IngressType, IngressRow, Verdicts
    <3>3. call'[c].reply # "retryable" \/ call'[c] = call[c]
      BY <2>1, <3>1, <3>2 DEF Arrive
    <3>4. QED
      BY <1>1, <3>3
  <2>4. CASE \E d \in Call, m \in Message, content \in Content : ClaimFails(d, m, content)
    BY <1>1, <2>1, <2>4 DEF ClaimFails
  <2>5. CASE \E d \in Call : Launch(d)
    <3>1. PICK d \in Call : call' = [call EXCEPT ![d].phase = "live"]
      BY <2>5 DEF Launch
    <3>2. call'[c].reply = call[c].reply
      BY <2>1, <3>1 DEF CallType
    <3>3. QED
      BY <1>1, <3>2
  <2>6. CASE \E d \in Call : SupervisorAnswers(d) \/ Activity(d) \/ ErrorFrame(d) \/ Ends(d)
    <3>1. call' = call \/ \E d \in Call, r \in {"ok", "failed"} :
             call' = [call EXCEPT ![d].phase = "done", ![d].reply = r]
      BY <2>6 DEF SupervisorAnswers, Activity, ErrorFrame, Ends, Answers
    <3>2. call'[c].reply \in {call[c].reply, "ok", "failed"}
      BY <2>1, <3>1 DEF CallType
    <3>3. QED
      BY <1>1, <3>2
  <2>7. CASE Exit
    <3>1. call'[c].reply = call[c].reply \/ call'[c].reply = "lost"
      <4>1. CASE call[c].phase \in {"claimed", "live"}
        BY <2>1, <2>7, <4>1 DEF Exit, CallType
      <4>2. CASE call[c].phase \notin {"claimed", "live"}
        BY <2>1, <2>7, <4>2 DEF Exit
      <4>3. QED
        BY <4>1, <4>2
    <3>2. QED
      BY <1>1, <3>1
  <2>8. QED
    BY <1>1, <2>2, <2>3, <2>4, <2>5, <2>6, <2>7 DEF Next
<1>2. IInv /\ [Next]_vars =>
         [RetriesNothing]_vars
  BY <1>1 DEF RetriesNothing
<1>3. QED
  BY <1>2, Inductive, PTL DEF Spec, RetryableMeansNotLaunched

(* One launch, of the payload first bound to the id (claim).                *)
THEOREM OneBoundLaunch == Spec => []LaunchedOnceAsBound
BY OneLaunch, LaunchedPayload, PTL DEF LaunchedOnceAsBound

(* Receipts, terminal frames, replays and invitations to resend are true    *)
(* (readMessageDelivery, withCoordinationMetadata).                         *)
THEOREM TrueAnswers == Spec => AnswersAreTrue
<1>1. Spec => []ReceiptIsSound /\ []ReplayIsTheOutcome
  BY SoundReceipt, SoundReplay
<1>2. Spec => [][RetriesNothing]_vars
  BY SoundRetry DEF RetryableMeansNotLaunched
<1>3. QED
  BY <1>1, <1>2, PTL DEF AnswersAreTrue

=============================================================================
