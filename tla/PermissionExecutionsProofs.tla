---------------------- MODULE PermissionExecutionsProofs ----------------------
(***************************************************************************)
(* Proofs about permits, leases and fences, for any number of decisions,   *)
(* sessions, users, servers and kinds.  RowInv ties the row of a decision  *)
(* to the handle in its owner's memory and to what really runs, which no   *)
(* process sees; CoverInv says what a lift of a session has answered for.  *)
(***************************************************************************)
EXTENDS PermissionExecutions, TLAPS

(* A handle that can still act belongs to a living owner, and one that was  *)
(* claimed finds its lease active; an effect exists only once its start was *)
(* recorded, and in-process work ends with its owner.                       *)
Live == {"issued", "consumed", "refused", "started", "unattached"}
Claimed == {"consumed", "refused", "started", "unattached"}

RowInv(d) ==
    /\ hand[d] \in Live => dec[d].owner \in Proc
    /\ hand[d] = "unattached" => dec[d].kind = "spawn"
    /\ effect[d] # "none" => /\ dec[d].state \in {"started", "terminal"}
                             /\ hand[d] \in {"started", "unattached", "gone"}
    /\ hand[d] \in Claimed => dec[d].lease = "active"
    /\ effect[d] = "running" => dec[d].lease = "active" \/ dec[d].outcome \in {"unknown", "done"}
    /\ dec[d].outcome \in {"not_started", "spawn_failed"} => effect[d] = "none"
    /\ dec[d].kind = "read" /\ effect[d] = "running" => dec[d].lease = "active" /\ OwnerUp(d)
    /\ dec[d].state # "none" => dec[d].kind \in Kind

(* What a committed lift of a session names was unknown, and over unless an *)
(* owner answered for it.                                                   *)
CoverInv ==
    \A s \in Session : \A e \in covered[s] :
        Unknown(e) /\ (dec[e].session = s /\ effect[e] = "running" => e \in owned)

IInv == TypeOK /\ (\A d \in Decision : RowInv(d)) /\ FencesHold /\ CoverInv

-----------------------------------------------------------------------------
LEMMA InitIInv == Init => IInv
<1>1. SUFFICES ASSUME Init PROVE IInv
  OBVIOUS
<1>2. NoDecision \in DecisionRow /\ Coherent(NoDecision)
  BY PermissionAssumption DEF NoDecision, DecisionRow, Coherent
<1>3. TypeOK
  <2>1. dec = [d \in Decision |-> NoDecision]
    BY <1>1 DEF Init
  <2>2. covered \in [Session -> SUBSET Decision]
    BY <1>1 DEF Init
  <2>3. QED
    BY <1>1, <1>2, <2>1, <2>2 DEF Init, TypeOK, Hands
<1>4. \A d \in Decision : RowInv(d) /\ ~Unknown(d)
  BY <1>1, PermissionAssumption DEF Init, NoDecision, RowInv, Live, Claimed, Unknown
<1>5. FencesHold /\ CoverInv
  BY <1>1, <1>4 DEF Init, FencesHold, UnknownRunsFenced, FenceNamesItsDecision, CoverInv
<1>6. QED
  BY <1>3, <1>4, <1>5 DEF IInv

(* Scopes: the scope of a decision is one of its keys; a session is no key  *)
(* of a user.                                                               *)
LEMMA ScopeTyped ==
    ASSUME TypeOK, NEW d \in Decision, RowInv(d), dec[d].state # "none"
    PROVE  /\ ScopeOf(d) \in Scope /\ ScopeOf(d) \in Keys(d)
           /\ \A s \in Session : ScopeOf(d) = s => dec[d].session = s
<1>1. dec[d].session \in Session \cup {None} /\ dec[d].kind \in Kind /\ UserOf[d] \in User
  BY PermissionAssumption DEF TypeOK, DecisionRow, RowInv
<1>2. UserKey(d) \in User \X Kind
  BY <1>1 DEF UserKey
<1>3. QED
  BY <1>1, <1>2, PermissionAssumption DEF ScopeOf, Scope, Keys

(* A closed row keeps its scope.                                            *)
LEMMA ClosedTyped ==
    ASSUME NEW r \in DecisionRow, NEW o \in {"done", "spawn_failed", "not_started", "unknown"}
    PROVE  /\ Closed(r, o) \in DecisionRow /\ Coherent(Closed(r, o))
           /\ Closed(r, o).state = "terminal" /\ Closed(r, o).outcome = o
           /\ Closed(r, o).kind = r.kind /\ Closed(r, o).session = r.session
           /\ Closed(r, o).owner = None /\ Closed(r, o).lease \notin {"issued", "active"}
           /\ Closed(r, o).child = None
<1>1. Closed(r, o) \in DecisionRow
  <2>1. CASE o = "not_started"
    BY <2>1 DEF Closed, DecisionRow
  <2>2. CASE o # "not_started"
    BY <2>2 DEF Closed, DecisionRow
  <2>3. QED
    BY <2>1, <2>2
<1>2. /\ Closed(r, o).state = "terminal" /\ Closed(r, o).outcome = o
      /\ Closed(r, o).kind = r.kind /\ Closed(r, o).session = r.session
      /\ Closed(r, o).owner = None /\ Closed(r, o).child = None
      /\ Closed(r, o).lease \in {"revoked", "terminal"}
  BY DEF Closed, DecisionRow
<1>3. o # None
  BY PermissionAssumption
<1>4. QED
  BY <1>1, <1>2, <1>3 DEF Coherent

-----------------------------------------------------------------------------
(* What a step leaves alone of the decisions whose outcome is unknown.      *)
Quiet == /\ \A d \in Decision : Unknown(d)' <=> Unknown(d)
         /\ \A d \in Decision : Unknown(d) => /\ dec'[d].session = dec[d].session
                                              /\ dec'[d].kind = dec[d].kind
                                              /\ effect'[d] = "running" => effect[d] = "running"

LEMMA QuietStep ==
    ASSUME IInv, Quiet, UNCHANGED <<fence, covered, owned>>
    PROVE  FencesHold' /\ CoverInv'
<1>1. \A d \in Decision : Unknown(d) => ScopeOf(d)' = ScopeOf(d)
  BY DEF Quiet, ScopeOf, UserKey
<1>2. fence \in [Scope -> Decision \cup {None}] /\ covered \in [Session -> SUBSET Decision]
  BY DEF IInv, TypeOK
<1>3. UnknownRunsFenced'
  BY <1>1 DEF IInv, FencesHold, UnknownRunsFenced, Quiet
<1>4. FenceNamesItsDecision'
  BY <1>1, <1>2 DEF IInv, FencesHold, FenceNamesItsDecision, Quiet
<1>5. CoverInv'
  BY <1>2 DEF IInv, CoverInv, Quiet
<1>6. QED
  BY <1>3, <1>4, <1>5 DEF FencesHold

(* A step that changes one decision, not to unknown nor from it.            *)
LEMMA OneDecision ==
    ASSUME IInv, NEW d \in Decision, NEW r \in DecisionRow, NEW h \in Hands,
           NEW e \in {"none", "running", "ended"},
           dec' = [dec EXCEPT ![d] = r], hand' = [hand EXCEPT ![d] = h], effect' = [effect EXCEPT ![d] = e],
           Coherent(r), RowInv(d)',
           (~Unknown(d) /\ r.outcome # "unknown") \/ (r = dec[d] /\ (e = "running" => effect[d] = "running")),
           UNCHANGED <<fence, covered, seen, proc, owned>>, blocked' \in BOOLEAN
    PROVE  IInv'
<1>1. TypeOK'
  BY DEF IInv, TypeOK
<1>2. \A c \in Decision : RowInv(c)'
  <2>1. ASSUME NEW c \in Decision, c # d PROVE RowInv(c)'
    <3>1. dec'[c] = dec[c] /\ hand'[c] = hand[c] /\ effect'[c] = effect[c]
      BY <2>1 DEF IInv, TypeOK
    <3>2. QED
      BY <3>1 DEF IInv, RowInv, Unknown, OwnerUp
  <2>2. QED
    BY <2>1
<1>3. Quiet
  BY DEF Quiet, Unknown, IInv, TypeOK
<1>4. QED
  BY <1>1, <1>2, <1>3, QuietStep DEF IInv

-----------------------------------------------------------------------------
(* Admission, claim and refusal of a launch.                                *)
LEMMA AdmissionStep ==
    ASSUME IInv, NEW d \in Decision,
           (\E p \in Proc : Authorize(d, p)) \/ Expire(d) \/ Consume(d) \/ NotStarted(d)
    PROVE  IInv'
<1> USE DEF IInv
<1>1. /\ dec[d] \in DecisionRow /\ Coherent(dec[d]) /\ hand[d] \in Hands
      /\ effect[d] \in {"none", "running", "ended"} /\ RowInv(d) /\ blocked \in BOOLEAN
      /\ dec \in [Decision -> DecisionRow] /\ hand \in [Decision -> Hands]
      /\ effect \in [Decision -> {"none", "running", "ended"}]
  BY DEF TypeOK
<1>2. effect = [effect EXCEPT ![d] = effect[d]] /\ hand = [hand EXCEPT ![d] = hand[d]]
      /\ dec = [dec EXCEPT ![d] = dec[d]]
  BY <1>1
<1>3. ASSUME NEW p \in Proc, Authorize(d, p) PROVE IInv'
  <2>1. PICK k \in Kind, s \in Session \cup {None} :
           dec' = [dec EXCEPT ![d] = [NoDecision EXCEPT !.state = "authorized", !.kind = k,
                      !.session = s, !.lease = "issued", !.owner = p]]
    BY <1>3 DEF Authorize
  <2> DEFINE r == [NoDecision EXCEPT !.state = "authorized", !.kind = k,
                      !.session = s, !.lease = "issued", !.owner = p]
  <2>2. r \in DecisionRow /\ r.state = "authorized" /\ r.outcome = None /\ r.lease = "issued"
        /\ r.kind = k /\ r.owner = p
    BY DEF NoDecision, DecisionRow
  <2>3. Coherent(r)
    BY <2>2 DEF Coherent
  <2>4. effect[d] = "none" /\ ~Unknown(d)
    BY <1>1, <1>3, PermissionAssumption DEF Authorize, RowInv, Coherent, Unknown
  <2>5. /\ dec'[d] = r /\ hand'[d] = "issued" /\ effect'[d] = "none"
    BY <1>1, <1>3, <2>1, <2>4 DEF Authorize
  <2>6. RowInv(d)'
    BY <2>2, <2>5, PermissionAssumption DEF RowInv, Claimed, Unknown, OwnerUp
  <2>7. "issued" \in Hands /\ r.outcome # "unknown"
    BY <2>2, PermissionAssumption DEF Hands
  <2> HIDE DEF r
  <2>8. QED
    BY <1>1, <1>2, <1>3, <2>1, <2>2, <2>3, <2>4, <2>6, <2>7, OneDecision DEF Authorize, r
<1>4. CASE Expire(d)
  <2> DEFINE r == [dec[d] EXCEPT !.expired = TRUE]
  <2>1. dec' = [dec EXCEPT ![d] = r]
    BY <1>1, <1>4 DEF Expire
  <2>2. r \in DecisionRow /\ r.state = dec[d].state /\ r.outcome = dec[d].outcome
        /\ r.lease = dec[d].lease /\ r.kind = dec[d].kind /\ r.owner = dec[d].owner
    BY <1>1 DEF DecisionRow
  <2>3. Coherent(r)
    BY <1>1, <2>2 DEF Coherent
  <2>4. ~Unknown(d)
    BY <1>1, <1>4, PermissionAssumption DEF Expire, Open, Coherent, Unknown
  <2>5. RowInv(d)'
    BY <1>1, <1>4, <2>1, <2>2 DEF Expire, RowInv, Unknown, OwnerUp
  <2> HIDE DEF r
  <2>6. QED
    BY <1>1, <1>2, <1>4, <2>1, <2>2, <2>3, <2>4, <2>5, OneDecision DEF Expire, Unknown
<1>5. CASE Consume(d)
  <2>1. CASE Claimable(d)
    <3> DEFINE r == [dec[d] EXCEPT !.lease = "active", !.state = "effect_claimed"]
    <3>1. dec' = [dec EXCEPT ![d] = r] /\ hand' = [hand EXCEPT ![d] = "consumed"]
      BY <1>1, <1>5, <2>1 DEF Consume
    <3>2. r \in DecisionRow /\ r.state = "effect_claimed" /\ r.outcome = dec[d].outcome
          /\ r.lease = "active" /\ r.kind = dec[d].kind /\ r.owner = dec[d].owner
      BY <1>1 DEF DecisionRow
    <3>3. dec[d].outcome = None /\ dec[d].owner \in Proc /\ effect[d] = "none" /\ dec[d].kind \in Kind
      BY <1>1, <1>5, <2>1 DEF Consume, Claimable, Coherent, RowInv, Live
    <3>4. Coherent(r) /\ ~Unknown(d) /\ r.outcome # "unknown"
      BY <3>2, <3>3, PermissionAssumption DEF Coherent, Unknown
    <3>5. RowInv(d)'
      BY <1>1, <1>5, <3>1, <3>2, <3>3, PermissionAssumption DEF Consume, RowInv
    <3> HIDE DEF r
    <3>6. QED
      BY <1>1, <1>2, <1>5, <3>1, <3>2, <3>4, <3>5, OneDecision DEF Consume, Hands
  <2>2. CASE ~Claimable(d)
    <3>1. dec' = dec /\ hand' = [hand EXCEPT ![d] = "gone"]
      BY <1>5, <2>2 DEF Consume
    <3>2. RowInv(d)'
      BY <1>1, <1>5, <3>1 DEF Consume, RowInv, Live, Claimed, Unknown, OwnerUp
    <3>3. QED
      BY <1>1, <1>2, <1>5, <3>1, <3>2, OneDecision DEF Consume, Hands
  <2>3. QED
    BY <2>1, <2>2
<1>6. CASE NotStarted(d)
  <2>1. CASE dec[d].state = "authorized" /\ dec' = [dec EXCEPT ![d] = Closed(@, "not_started")]
    <3> DEFINE r == Closed(dec[d], "not_started")
    <3>1. /\ r \in DecisionRow /\ Coherent(r) /\ r.state = "terminal" /\ r.outcome = "not_started"
          /\ r.kind = dec[d].kind
      BY <1>1, ClosedTyped
    <3>2. dec' = [dec EXCEPT ![d] = r] /\ effect[d] = "none" /\ ~Unknown(d) /\ dec[d].kind \in Kind
      BY <1>1, <1>6, <2>1, PermissionAssumption DEF NotStarted, RowInv, Coherent, Unknown
    <3>3. RowInv(d)'
      BY <1>1, <1>6, <3>1, <3>2 DEF NotStarted, RowInv, Live, Claimed
    <3> HIDE DEF r
    <3>4. QED
      BY <1>1, <1>2, <1>6, <3>1, <3>2, <3>3, OneDecision DEF NotStarted, Hands
  <2>2. CASE dec' = dec
    <3>1. RowInv(d)'
      BY <1>1, <1>6, <2>2 DEF NotStarted, RowInv, Live, Claimed, Unknown, OwnerUp
    <3>2. QED
      BY <1>1, <1>2, <1>6, <2>2, <3>1, OneDecision DEF NotStarted, Hands
  <2>3. QED
    BY <1>6, <2>1, <2>2 DEF NotStarted
<1>7. QED
  BY <1>3, <1>4, <1>5, <1>6

(* Start, binding and end of an effect.                                     *)
LEMMA EffectStep ==
    ASSUME IInv, NEW d \in Decision,
           Bind(d) \/ Start(d) \/ StartFails(d) \/ Forget(d) \/ Attach(d) \/ EffectEnds(d)
    PROVE  IInv'
<1> USE DEF IInv
<1>1. /\ dec[d] \in DecisionRow /\ Coherent(dec[d]) /\ hand[d] \in Hands
      /\ effect[d] \in {"none", "running", "ended"} /\ RowInv(d) /\ blocked \in BOOLEAN
      /\ dec \in [Decision -> DecisionRow] /\ hand \in [Decision -> Hands]
      /\ effect \in [Decision -> {"none", "running", "ended"}]
  BY DEF TypeOK
<1>2. effect = [effect EXCEPT ![d] = effect[d]] /\ hand = [hand EXCEPT ![d] = hand[d]]
      /\ dec = [dec EXCEPT ![d] = dec[d]]
  BY <1>1
<1>3. CASE Bind(d)
  <2>1. PICK s \in Session : dec' = [dec EXCEPT ![d].session = s]
    BY <1>3 DEF Bind
  <2> DEFINE r == [dec[d] EXCEPT !.session = s]
  <2>2. r \in DecisionRow /\ r.state = dec[d].state /\ r.outcome = dec[d].outcome
        /\ r.lease = dec[d].lease /\ r.kind = dec[d].kind /\ r.owner = dec[d].owner
    BY <1>1 DEF DecisionRow
  <2>3. Coherent(r) /\ dec' = [dec EXCEPT ![d] = r]
    BY <1>1, <2>1, <2>2 DEF Coherent
  <2>4. ~Unknown(d)
    BY <1>1, <1>3, PermissionAssumption DEF Bind, Bindable, Coherent, Unknown
  <2>5. RowInv(d)'
    BY <1>1, <1>3, <2>2, <2>3 DEF Bind, RowInv, Unknown, OwnerUp
  <2> HIDE DEF r
  <2>6. r.outcome # "unknown"
    BY <2>2, <2>4 DEF Unknown
  <2>7. /\ hand' = [hand EXCEPT ![d] = hand[d]] /\ effect' = [effect EXCEPT ![d] = effect[d]]
        /\ UNCHANGED <<fence, covered, seen, proc, owned>> /\ blocked' \in BOOLEAN
    BY <1>1, <1>2, <1>3 DEF Bind
  <2>8. QED
    BY <1>1, <2>2, <2>3, <2>4, <2>5, <2>6, <2>7, OneDecision
<1>4. CASE Start(d)
  <2>1. PICK c \in Child(d) : dec' = [dec EXCEPT ![d].state = "started", ![d].child = c]
    BY <1>4 DEF Start
  <2>2. c \in {None, "child", "owner"}
    BY <1>1, <1>4, PermissionAssumption DEF Child, Start, RowInv
  <2> DEFINE r == [dec[d] EXCEPT !.state = "started", !.child = c]
  <2>3. r \in DecisionRow /\ r.state = "started" /\ r.outcome = dec[d].outcome
        /\ r.lease = dec[d].lease /\ r.kind = dec[d].kind /\ r.owner = dec[d].owner
    BY <1>1, <2>2 DEF DecisionRow
  <2>4. dec[d].lease = "active" /\ dec[d].outcome = None /\ dec[d].owner \in Proc /\ dec[d].kind \in Kind
    BY <1>1, <1>4 DEF Start, Coherent, RowInv, Live
  <2>5. Coherent(r) /\ ~Unknown(d) /\ r.outcome # "unknown"
    BY <2>3, <2>4, PermissionAssumption DEF Coherent, Unknown
  <2>6. dec' = [dec EXCEPT ![d] = r]
    BY <1>1, <2>1
  <2>7. RowInv(d)'
    BY <1>1, <1>4, <2>3, <2>4, <2>6, PermissionAssumption DEF Start, RowInv, OwnerUp
  <2> HIDE DEF r
  <2>8. PICK h \in Hands, e \in {"none", "running", "ended"} :
           /\ hand' = [hand EXCEPT ![d] = h] /\ effect' = [effect EXCEPT ![d] = e]
    BY <1>4 DEF Start, Hands
  <2>9. UNCHANGED <<fence, covered, seen, proc, owned>> /\ blocked' \in BOOLEAN
    BY <1>1, <1>4 DEF Start
  <2>10. QED
    BY <2>3, <2>5, <2>6, <2>7, <2>8, <2>9, OneDecision
<1>5. CASE StartFails(d)
  <2>1. RowInv(d)'
    BY <1>1, <1>5 DEF StartFails, RowInv, Live, Claimed, Unknown, OwnerUp
  <2>2. QED
    BY <1>1, <1>2, <1>5, <2>1, OneDecision DEF StartFails, Hands
<1>6. CASE Forget(d)
  <2>1. RowInv(d)'
    BY <1>1, <1>6 DEF Forget, rows, RowInv, Live, Claimed, Unknown, OwnerUp
  <2>2. QED
    BY <1>1, <1>2, <1>6, <2>1, OneDecision DEF Forget, rows, Hands
<1>7. CASE Attach(d)
  <2>1. CASE dec' = [dec EXCEPT ![d].child = "child"] /\ UNCHANGED <<blocked, hand>>
    <3> DEFINE r == [dec[d] EXCEPT !.child = "child"]
    <3>1. r \in DecisionRow /\ r.state = dec[d].state /\ r.outcome = dec[d].outcome
          /\ r.lease = dec[d].lease /\ r.kind = dec[d].kind /\ r.owner = dec[d].owner
          /\ r.session = dec[d].session
      BY <1>1 DEF DecisionRow
    <3>2. Coherent(r) /\ dec' = [dec EXCEPT ![d] = r]
      BY <1>1, <2>1, <3>1 DEF Coherent
    <3>3. RowInv(d)'
      BY <1>1, <1>7, <2>1, <3>1, <3>2 DEF Attach, RowInv, Unknown, OwnerUp
    <3>4. TypeOK'
      BY <1>7, <2>1, <3>1, <3>2 DEF Attach, TypeOK
    <3>5. \A e \in Decision : RowInv(e)'
      <4>1. ASSUME NEW e \in Decision, e # d PROVE RowInv(e)'
        BY <1>1, <1>7, <2>1, <3>2, <4>1 DEF Attach, RowInv, Unknown, OwnerUp
      <4>2. QED
        BY <3>3, <4>1
    <3>6. Quiet
      BY <1>1, <1>7, <3>1, <3>2 DEF Attach, Quiet, Unknown
    <3>7. QED
      BY <1>7, <3>4, <3>5, <3>6, QuietStep DEF Attach
  <2>2. CASE blocked' \in {blocked, TRUE} /\ hand' = [hand EXCEPT ![d] = "unattached"] /\ dec' = dec
    <3>1. RowInv(d)'
      BY <1>1, <1>7, <2>2 DEF Attach, RowInv, Live, Claimed, Unknown, OwnerUp
    <3>2. QED
      BY <1>1, <1>2, <1>7, <2>2, <3>1, OneDecision DEF Attach, Hands
  <2>3. QED
    BY <1>7, <2>1, <2>2 DEF Attach
<1>8. CASE EffectEnds(d)
  <2>1. RowInv(d)'
    BY <1>1, <1>8 DEF EffectEnds, rows, RowInv, Live, Claimed, Unknown, OwnerUp
  <2>2. QED
    BY <1>1, <1>2, <1>8, <2>1, OneDecision DEF EffectEnds, rows
<1>9. QED
  BY <1>3, <1>4, <1>5, <1>6, <1>7, <1>8

-----------------------------------------------------------------------------
(* A settlement: unknown is fenced in the same transaction.                 *)
LEMMA OutcomesTyped ==
    ASSUME NEW d \in Decision, dec[d].kind \in Kind, NEW o \in Outcomes(d)
    PROVE  o \in {"done", "spawn_failed", "unknown"}
<1>1. CASE hand[d] \in {"consumed", "refused"}
  BY <1>1, PermissionAssumption DEF Outcomes
<1>2. CASE hand[d] \in {"unattached", "started"}
  BY <1>2 DEF Outcomes
<1>3. CASE hand[d] \notin {"consumed", "refused", "unattached", "started"}
  BY <1>3 DEF Outcomes
<1>4. QED
  BY <1>1, <1>2, <1>3

LEMMA SettleFailsStep ==
    ASSUME IInv, NEW d \in Decision, SettleFails(d)
    PROVE  IInv'
<1> USE DEF IInv
<1>1. /\ dec[d] \in DecisionRow /\ Coherent(dec[d]) /\ hand[d] \in Hands
      /\ effect[d] \in {"none", "running", "ended"} /\ RowInv(d) /\ blocked \in BOOLEAN
      /\ dec = [dec EXCEPT ![d] = dec[d]] /\ effect = [effect EXCEPT ![d] = effect[d]]
  BY DEF TypeOK
<1>2. RowInv(d)'
  <2>1. hand'[d] = "gone" /\ dec'[d] = dec[d] /\ effect'[d] = effect[d]
    BY DEF SettleFails, TypeOK
  <2>2. QED
    BY <1>1, <2>1 DEF RowInv, Live, Claimed, Unknown, OwnerUp
<1>3. QED
  BY <1>1, <1>2, OneDecision DEF SettleFails, Hands

(* What an owner may say of a row: a turn that did not spawn had no effect,  *)
(* and in-process work is over when it is settled, and never unknown.       *)
LEMMA OutcomesHonest ==
    ASSUME NEW d \in Decision, RowInv(d), dec[d].kind \in Kind, NEW o \in Outcomes(d)
    PROVE  /\ o = "spawn_failed" => effect[d] = "none"
           /\ dec[d].kind = "read" => effect[d] # "running" /\ o # "unknown"
<1>1. CASE hand[d] \in {"consumed", "refused"}
  <2>1. effect[d] = "none"
    BY <1>1 DEF RowInv
  <2>2. dec[d].kind = "read" => o # "unknown"
    BY <1>1 DEF Outcomes
  <2>3. QED
    BY <2>1, <2>2
<1>2. CASE hand[d] = "unattached"
  BY <1>2 DEF Outcomes, RowInv
<1>3. CASE hand[d] = "started"
  BY <1>3 DEF Outcomes
<1>4. CASE hand[d] \notin {"consumed", "refused", "unattached", "started"}
  BY <1>4 DEF Outcomes
<1>5. QED
  BY <1>1, <1>2, <1>3, <1>4

(* A step that settles decisions unknown, fences them, and lifts no fence.  *)
LEMMA FencingStep ==
    ASSUME IInv,
           \A e \in Decision : Unknown(e) => /\ Unknown(e)' /\ ScopeOf(e)' = ScopeOf(e)
                                             /\ dec'[e].session = dec[e].session /\ effect'[e] = effect[e],
           \A e \in Decision : Unknown(e)' /\ ~Unknown(e) /\ effect'[e] = "running" => fence'[ScopeOf(e)'] # None,
           \A s \in Scope : fence[s] # None => fence'[s] = fence[s],
           \A s \in Scope : fence'[s] # fence[s] => (Unknown(fence[s]) /\ ScopeOf(fence[s]) = s)',
           UNCHANGED <<covered, owned>>
    PROVE  FencesHold' /\ CoverInv'
<1>1. UnknownRunsFenced'
  <2>1. SUFFICES ASSUME NEW e \in Decision, e \notin owned, Unknown(e)', effect'[e] = "running"
                 PROVE  fence'[ScopeOf(e)'] # None
    BY DEF UnknownRunsFenced
  <2>2. CASE Unknown(e)
    <3>1. fence[ScopeOf(e)] # None /\ ScopeOf(e)' = ScopeOf(e)
      BY <2>1, <2>2 DEF IInv, FencesHold, UnknownRunsFenced
    <3>2. ScopeOf(e) \in Scope
      <4>1. dec[e].state = "terminal"
        BY <2>2, PermissionAssumption DEF IInv, TypeOK, Coherent, Unknown
      <4>2. QED
        BY <4>1, ScopeTyped DEF IInv
    <3>3. QED
      BY <3>1, <3>2
  <2>3. QED
    BY <2>1, <2>2
<1>2. FenceNamesItsDecision'
  <2>1. SUFFICES ASSUME NEW s \in Scope, fence'[s] # None
                 PROVE  (Unknown(fence[s]) /\ ScopeOf(fence[s]) = s)'
    BY DEF FenceNamesItsDecision
  <2>2. CASE fence'[s] = fence[s]
    <3>1. fence[s] \in Decision /\ Unknown(fence[s]) /\ ScopeOf(fence[s]) = s
      BY <2>1, <2>2 DEF IInv, TypeOK, FencesHold, FenceNamesItsDecision
    <3>2. PICK e \in Decision : e = fence[s]
      BY <3>1
    <3>3. Unknown(e)' /\ ScopeOf(e)' = s /\ fence'[s] = e
      BY <2>2, <3>1, <3>2
    <3>4. QED
      BY <3>3 DEF Unknown, ScopeOf, UserKey
  <2>3. QED
    BY <2>1, <2>2
<1>3. CoverInv'
  BY DEF IInv, TypeOK, CoverInv
<1>4. QED
  BY <1>1, <1>2, <1>3 DEF FencesHold

LEMMA SettleStep ==
    ASSUME IInv, NEW d \in Decision, Settle(d)
    PROVE  IInv'
<1> USE DEF IInv
<1>1. /\ dec[d] \in DecisionRow /\ Coherent(dec[d]) /\ hand[d] \in Hands
      /\ effect[d] \in {"none", "running", "ended"} /\ RowInv(d)
      /\ dec \in [Decision -> DecisionRow] /\ hand \in [Decision -> Hands]
      /\ fence \in [Scope -> Decision \cup {None}]
  BY DEF TypeOK
<1>2. PICK o \in Outcomes(d) :
         /\ dec[d].state \in {"effect_claimed", "started"} /\ dec[d].lease = "active"
         /\ dec' = [dec EXCEPT ![d] = Closed(@, o)]
         /\ fence' = IF o = "unknown" /\ ~InProcess(d) THEN Fenced(d) ELSE fence
         /\ hand' = [hand EXCEPT ![d] = "gone"]
         /\ UNCHANGED <<effect, blocked, covered, seen, proc, owned>>
  BY DEF Settle
<1>3. dec[d].kind \in Kind /\ ~Unknown(d)
  BY <1>1, <1>2, PermissionAssumption DEF RowInv, Coherent, Unknown
<1>4. o \in {"done", "spawn_failed", "unknown"}
  BY <1>3, OutcomesTyped
<1>5. /\ o = "spawn_failed" => effect[d] = "none"
      /\ dec[d].kind = "read" => effect[d] # "running" /\ o # "unknown"
  BY <1>1, <1>3, OutcomesHonest
<1> DEFINE r == Closed(dec[d], o)
<1>6. /\ r \in DecisionRow /\ Coherent(r) /\ r.state = "terminal" /\ r.outcome = o
      /\ r.kind = dec[d].kind /\ r.session = dec[d].session
  BY <1>1, <1>4, ClosedTyped
<1>7. dec' = [dec EXCEPT ![d] = r] /\ dec'[d] = r
  BY <1>1, <1>2
<1> HIDE DEF r
<1>8. ScopeOf(d) \in Scope
  BY <1>1, <1>2, ScopeTyped
<1>9. fence' \in [Scope -> Decision \cup {None}]
  BY <1>1, <1>2, <1>8 DEF Fenced
<1>10. TypeOK'
  BY <1>2, <1>6, <1>7, <1>9 DEF TypeOK, Hands
<1>11. \A e \in Decision : RowInv(e)'
  <2>1. RowInv(d)'
    <3>1. hand'[d] = "gone" /\ effect'[d] = effect[d]
      BY <1>1, <1>2
    <3>2. effect[d] = "running" => o \in {"unknown", "done"}
      BY <1>4, <1>5
    <3>3. r.kind = "read" => effect[d] # "running"
      BY <1>5, <1>6
    <3>4. o \in {"not_started", "spawn_failed"} => effect[d] = "none"
      BY <1>4, <1>5
    <3>5. QED
      BY <1>3, <1>6, <1>7, <3>1, <3>2, <3>3, <3>4 DEF RowInv, Live, Claimed, Unknown
  <2>2. ASSUME NEW e \in Decision, e # d PROVE RowInv(e)'
    <3>1. dec'[e] = dec[e] /\ hand'[e] = hand[e] /\ effect'[e] = effect[e] /\ RowInv(e)
      BY <1>1, <1>2, <2>2
    <3>2. QED
      BY <3>1 DEF RowInv, Unknown, OwnerUp
  <2>3. QED
    BY <2>1, <2>2
<1>12. \A e \in Decision : dec'[e].session = dec[e].session /\ ScopeOf(e)' = ScopeOf(e)
  <2>1. ASSUME NEW e \in Decision
        PROVE  dec'[e].session = dec[e].session /\ dec'[e].kind = dec[e].kind
    BY <1>1, <1>6, <1>7
  <2>2. QED
    BY <2>1 DEF ScopeOf, UserKey
<1>13. \A e \in Decision : Unknown(e) => e # d /\ Unknown(e)' /\ effect'[e] = effect[e]
  BY <1>1, <1>2, <1>3 DEF Unknown
<1>14. \A e \in Decision : Unknown(e)' /\ ~Unknown(e) => e = d /\ o = "unknown"
  BY <1>1, <1>6, <1>7 DEF Unknown
<1>15. o = "unknown" => fence' = Fenced(d) /\ Unknown(d)'
  BY <1>2, <1>5, <1>6, <1>7 DEF InProcess, Unknown
<1>16. o = "unknown" => fence'[ScopeOf(d)] # None
  BY <1>1, <1>8, <1>15, PermissionAssumption DEF Fenced
<1>17. \A s \in Scope : fence[s] # None => fence'[s] = fence[s]
  BY <1>1, <1>2, <1>8 DEF Fenced
<1>18. \A s \in Scope : fence'[s] # fence[s] => fence'[s] = d /\ s = ScopeOf(d) /\ o = "unknown"
  BY <1>1, <1>2, <1>8 DEF Fenced
<1>19. \A s \in Scope : fence'[s] # fence[s] => (Unknown(fence[s]) /\ ScopeOf(fence[s]) = s)'
  <2>1. SUFFICES ASSUME NEW s \in Scope, fence'[s] # fence[s]
                 PROVE  (Unknown(fence[s]) /\ ScopeOf(fence[s]) = s)'
    OBVIOUS
  <2>2. fence'[s] = d /\ s = ScopeOf(d) /\ Unknown(d)' /\ ScopeOf(d)' = ScopeOf(d)
    BY <1>12, <1>15, <1>18, <2>1
  <2>3. QED
    BY <2>2 DEF Unknown, ScopeOf, UserKey
<1>20. FencesHold' /\ CoverInv'
  BY <1>2, <1>12, <1>13, <1>14, <1>16, <1>17, <1>19, FencingStep
<1>21. QED
  BY <1>10, <1>11, <1>20

-----------------------------------------------------------------------------
(* Processes.                                                               *)
LEMMA ProcessStep ==
    ASSUME IInv, NEW p \in Proc, Drain(p) \/ Dies(p)
    PROVE  IInv'
<1> USE DEF IInv
<1>1. CASE Drain(p)
  <2>1. TypeOK'
    BY <1>1 DEF Drain, rows, TypeOK
  <2>2. \A d \in Decision : RowInv(d)'
    BY <1>1 DEF Drain, rows, RowInv, Unknown, OwnerUp
  <2>3. Quiet /\ UNCHANGED <<fence, covered, owned>>
    BY <1>1 DEF Drain, rows, Quiet, Unknown
  <2>4. QED
    BY <2>1, <2>2, <2>3, QuietStep
<1>2. CASE Dies(p)
  <2>1. \A d \in Decision : dec[d] \in DecisionRow /\ Coherent(dec[d])
    BY DEF TypeOK
  <2>2. \A d \in Decision : /\ dec'[d] \in DecisionRow /\ Coherent(dec'[d])
                            /\ dec'[d].state = dec[d].state /\ dec'[d].outcome = dec[d].outcome
                            /\ dec'[d].kind = dec[d].kind /\ dec'[d].session = dec[d].session
                            /\ dec'[d].lease = dec[d].lease
                            /\ dec[d].owner # p => dec'[d].owner = dec[d].owner
    <3>1. ASSUME NEW d \in Decision
          PROVE  dec'[d] = IF dec[d].owner = p THEN [dec[d] EXCEPT !.owner = None] ELSE dec[d]
      BY <1>2 DEF Dies
    <3>2. ASSUME NEW r \in DecisionRow, Coherent(r), NEW q, q = [r EXCEPT !.owner = None]
          PROVE  /\ q \in DecisionRow /\ Coherent(q) /\ q.state = r.state /\ q.outcome = r.outcome
                 /\ q.kind = r.kind /\ q.session = r.session /\ q.lease = r.lease
      BY <3>2 DEF DecisionRow, Coherent
    <3>3. QED
      BY <2>1, <3>1, <3>2
  <2>3. \A d \in Decision : /\ hand'[d] = (IF dec[d].owner = p THEN "gone" ELSE hand[d])
                            /\ effect'[d] = (IF dec[d].owner = p /\ dec[d].kind = "read" /\ effect[d] = "running"
                                             THEN "ended" ELSE effect[d])
    BY <1>2 DEF Dies
  <2>4. TypeOK'
    <3>1. dec' \in [Decision -> DecisionRow]
      BY <1>2, <2>2 DEF Dies
    <3>2. hand' \in [Decision -> Hands]
      BY <1>2 DEF Dies, TypeOK, Hands
    <3>3. effect' \in [Decision -> {"none", "running", "ended"}]
      BY <1>2 DEF Dies, TypeOK
    <3>4. QED
      BY <1>2, <2>2, <3>1, <3>2, <3>3 DEF Dies, TypeOK
  <2>5. \A d \in Decision : RowInv(d)'
    <3>1. SUFFICES ASSUME NEW d \in Decision PROVE RowInv(d)'
      OBVIOUS
    <3>2. CASE dec[d].owner = p
      BY <2>2, <2>3, <3>2 DEF RowInv, Live, Claimed, Unknown, OwnerUp
    <3>3. CASE dec[d].owner # p
      BY <2>2, <2>3, <3>3 DEF RowInv, Live, Claimed, Unknown, OwnerUp
    <3>4. QED
      BY <3>2, <3>3
  <2>6. Quiet /\ UNCHANGED <<fence, covered, owned>>
    BY <1>2, <2>2, <2>3 DEF Dies, Quiet, Unknown
  <2>7. QED
    BY <2>4, <2>5, <2>6, QuietStep
<1>3. QED
  BY <1>1, <1>2

(* A boot settles what dead owners left: nothing that was never claimed had *)
(* an effect, and of what runs on every scope is fenced.                    *)
LEMMA BootStep ==
    ASSUME IInv, NEW p \in Proc, Boot(p)
    PROVE  IInv'
<1> USE DEF IInv
<1> DEFINE due == {d \in Decision : Open(d) /\ dec[d].expired /\ dec[d].state # "terminal"}
           stillActive == {d \in due : dec[d].lease = "active" /\ OwnerUp(d)}
           unclaimed == {d \in due : dec[d].lease = "issued"}
           lost == (due \ stillActive) \ unclaimed
           external == {d \in lost : ~ProvenDead(d)}
<1>1. \A d \in Decision : /\ dec[d] \in DecisionRow /\ Coherent(dec[d]) /\ RowInv(d)
                          /\ effect[d] \in {"none", "running", "ended"}
  BY DEF TypeOK
<1>2. /\ \A d \in unclaimed : d \in Decision /\ dec[d].lease = "issued"
      /\ \A d \in lost : d \in Decision /\ dec[d].lease = "active" /\ ~OwnerUp(d)
      /\ external \subseteq lost
      /\ \A d \in lost : d \notin unclaimed
  BY DEF Open
<1>3. /\ dec' = [d \in Decision |->
                  CASE d \in unclaimed -> [Closed(dec[d], "not_started") EXCEPT !.owner = dec[d].owner]
                    [] d \in lost      -> Closed(dec[d], "unknown")
                    [] OTHER           -> dec[d]]
      /\ \E first \in [{ScopeOf(d) : d \in external} -> external] :
            /\ \A s \in DOMAIN first : ScopeOf(first[s]) = s
            /\ fence' = [s \in Scope |-> IF s \in DOMAIN first /\ fence[s] = None THEN first[s] ELSE fence[s]]
      /\ proc' \in [Proc -> {"off", "up", "draining"}]
      /\ UNCHANGED <<hand, effect, blocked, covered, seen, owned>>
  BY DEF Boot, TypeOK
<1> HIDE DEF due, stillActive, unclaimed, lost
<1>4. ASSUME NEW d \in unclaimed
      PROVE  /\ dec'[d] \in DecisionRow /\ Coherent(dec'[d]) /\ dec'[d].state = "terminal"
             /\ dec'[d].outcome = "not_started" /\ dec'[d].kind = dec[d].kind
             /\ dec'[d].session = dec[d].session /\ dec'[d].owner = dec[d].owner
  <2> DEFINE r == Closed(dec[d], "not_started")
  <2>1. /\ r \in DecisionRow /\ Coherent(r) /\ r.state = "terminal" /\ r.outcome = "not_started"
        /\ r.kind = dec[d].kind /\ r.session = dec[d].session
    BY <1>1, <1>2, ClosedTyped
  <2>2. dec'[d] = [r EXCEPT !.owner = dec[d].owner]
    BY <1>2, <1>3
  <2>3. dec[d].owner \in Proc \cup {None}
    BY <1>1, <1>2 DEF DecisionRow
  <2> HIDE DEF r
  <2>4. QED
    BY <2>1, <2>2, <2>3 DEF DecisionRow, Coherent
<1>5. ASSUME NEW d \in lost
      PROVE  /\ dec'[d] \in DecisionRow /\ Coherent(dec'[d]) /\ dec'[d].state = "terminal"
             /\ dec'[d].outcome = "unknown" /\ dec'[d].kind = dec[d].kind
             /\ dec'[d].session = dec[d].session
  <2>1. dec'[d] = Closed(dec[d], "unknown")
    BY <1>2, <1>3
  <2>2. QED
    BY <1>1, <1>2, <2>1, ClosedTyped
<1>6. \A d \in Decision : d \notin unclaimed /\ d \notin lost => dec'[d] = dec[d]
  BY <1>3
<1>7. \A d \in unclaimed : /\ effect[d] = "none" /\ ~Unknown(d) /\ dec[d].kind \in Kind
                           /\ hand[d] \notin Claimed
  BY <1>1, <1>2, PermissionAssumption DEF RowInv, Coherent, Unknown
<1>8. \A d \in lost : /\ ~Unknown(d) /\ dec[d].kind \in Kind /\ hand[d] \notin Live
                      /\ ~(dec[d].kind = "read" /\ effect[d] = "running")
  BY <1>1, <1>2, PermissionAssumption DEF RowInv, Coherent, Unknown, OwnerUp
<1>9. \A d \in Decision : dec'[d].session = dec[d].session /\ ScopeOf(d)' = ScopeOf(d)
  <2>1. \A d \in Decision : dec'[d].session = dec[d].session /\ dec'[d].kind = dec[d].kind
    BY <1>4, <1>5, <1>6
  <2>2. QED
    BY <2>1 DEF ScopeOf, UserKey
<1>10. \A d \in lost : ScopeOf(d) \in Scope
  BY <1>1, <1>2, ScopeTyped DEF Coherent
<1>11. PICK first \in [{ScopeOf(d) : d \in external} -> external] :
            /\ \A s \in DOMAIN first : ScopeOf(first[s]) = s
            /\ fence' = [s \in Scope |-> IF s \in DOMAIN first /\ fence[s] = None THEN first[s] ELSE fence[s]]
  BY <1>3
<1>12. \A s \in Scope : /\ fence[s] # None => fence'[s] = fence[s]
                        /\ fence'[s] # fence[s] => fence'[s] \in lost /\ ScopeOf(fence'[s]) = s
  BY <1>2, <1>11
<1>13. TypeOK'
  <2>1. dec' \in [Decision -> DecisionRow]
    <3>1. \A d \in Decision : dec'[d] \in DecisionRow
      BY <1>1, <1>4, <1>5, <1>6
    <3>2. QED
      BY <1>3, <3>1
  <2>2. \A d \in Decision : Coherent(dec'[d])
    BY <1>1, <1>4, <1>5, <1>6
  <2>3. fence' \in [Scope -> Decision \cup {None}]
    BY <1>2, <1>11 DEF TypeOK
  <2>4. QED
    BY <1>3, <2>1, <2>2, <2>3 DEF TypeOK
<1>14. \A d \in Decision : RowInv(d)'
  <2>1. SUFFICES ASSUME NEW d \in Decision PROVE RowInv(d)'
    OBVIOUS
  <2>2. hand'[d] = hand[d] /\ effect'[d] = effect[d] /\ RowInv(d)
    BY <1>1, <1>3
  <2>3. CASE d \in unclaimed
    BY <1>4, <1>7, <2>2, <2>3, PermissionAssumption DEF RowInv
  <2>4. CASE d \in lost
    BY <1>5, <1>8, <2>2, <2>4, PermissionAssumption DEF RowInv, Unknown, Live, Claimed
  <2>5. CASE d \notin unclaimed /\ d \notin lost
    BY <1>6, <2>2, <2>5 DEF RowInv, Unknown, OwnerUp
  <2>6. QED
    BY <2>3, <2>4, <2>5
<1>15. \A d \in Decision : Unknown(d) => Unknown(d)'
  BY <1>6, <1>7, <1>8 DEF Unknown
<1>16. ASSUME NEW d \in Decision, Unknown(d)', ~Unknown(d), effect'[d] = "running"
       PROVE  fence'[ScopeOf(d)'] # None
  <2>1. d \in lost
    BY <1>4, <1>6, <1>16 DEF Unknown
  <2>2. d \in external
    BY <1>3, <1>8, <1>16, <2>1 DEF ProvenDead, InProcess
  <2>3. fence'[ScopeOf(d)] # None
    BY <1>2, <1>10, <1>11, <2>1, <2>2, PermissionAssumption
  <2>4. QED
    BY <1>9, <2>3
<1>17. ASSUME NEW s \in Scope, fence'[s] # fence[s]
       PROVE  (Unknown(fence[s]) /\ ScopeOf(fence[s]) = s)'
  <2>1. PICK d \in lost : d = fence'[s] /\ ScopeOf(d) = s
    BY <1>12, <1>17
  <2>2. d \in Decision /\ Unknown(d)' /\ ScopeOf(d)' = s
    BY <1>2, <1>5, <1>9, <2>1 DEF Unknown
  <2>3. QED
    BY <2>1, <2>2 DEF Unknown, ScopeOf, UserKey
<1>18. FencesHold' /\ CoverInv'
  BY <1>3, <1>9, <1>12, <1>15, <1>16, <1>17, FencingStep
<1>19. QED
  BY <1>13, <1>14, <1>18

-----------------------------------------------------------------------------
(* Lifts.                                                                   *)
LEMMA UnknownIsClosed ==
    ASSUME IInv, NEW d \in Decision, Unknown(d)
    PROVE  /\ dec[d].state # "none" /\ ScopeOf(d) \in Scope /\ ScopeOf(d) \in Keys(d)
           /\ \A s \in Session : ScopeOf(d) = s => dec[d].session = s
<1>1. dec[d].state = "terminal"
  BY PermissionAssumption DEF IInv, TypeOK, Coherent, Unknown
<1>2. QED
  BY <1>1, ScopeTyped DEF IInv

LEMMA CommittedTyped ==
    ASSUME IInv, NEW s \in Scope, covered' \in Committed(s)
    PROVE  /\ covered' \in [Session -> SUBSET Decision]
           /\ \A t \in Session : \A e \in covered'[t] : e \in covered[t] \/ (t = s /\ e \in UnknownIn(s))
<1>1. covered \in [Session -> SUBSET Decision] /\ UnknownIn(s) \subseteq Decision
  BY DEF IInv, TypeOK, UnknownIn, InScope
<1>2. CASE covered' = covered
  BY <1>1, <1>2
<1>3. CASE s \in Session /\ covered' = [covered EXCEPT ![s] = @ \cup UnknownIn(s)]
  BY <1>1, <1>3
<1>4. QED
  BY <1>2, <1>3 DEF Committed

(* Whoever lifts a fence answers for every unknown decision of its scope:   *)
(* nothing of them runs, or an owner took them on.                          *)
LEMMA LiftingStep ==
    ASSUME IInv, NEW s \in Scope,
           fence' = [fence EXCEPT ![s] = None], covered' \in Committed(s),
           owned \subseteq owned', owned' \subseteq Decision,
           \A d \in UnknownIn(s) : (s \in Session /\ dec[d].session # s) \/ effect[d] # "running" \/ d \in owned',
           seen' \in [Session -> Decision \cup {None}],
           UNCHANGED <<dec, blocked, hand, effect, proc>>
    PROVE  IInv'
<1>1. TypeOK'
  BY CommittedTyped DEF IInv, TypeOK
<1>2. \A d \in Decision : RowInv(d)'
  BY DEF IInv, RowInv, Unknown, OwnerUp
<1>3. fence \in [Scope -> Decision \cup {None}]
  BY DEF IInv, TypeOK
<1>4. \A d \in Decision : (Unknown(d)' <=> Unknown(d)) /\ ScopeOf(d)' = ScopeOf(d)
  BY DEF Unknown, ScopeOf, UserKey
<1>5. UnknownRunsFenced'
  <2>1. SUFFICES ASSUME NEW d \in Decision, d \notin owned', Unknown(d), effect[d] = "running"
                 PROVE  fence'[ScopeOf(d)] # None
    BY <1>4 DEF UnknownRunsFenced
  <2>2. /\ fence[ScopeOf(d)] # None /\ dec[d].state # "none" /\ ScopeOf(d) \in Scope
        /\ ScopeOf(d) \in Keys(d) /\ \A t \in Session : ScopeOf(d) = t => dec[d].session = t
    BY <2>1, UnknownIsClosed DEF IInv, FencesHold, UnknownRunsFenced
  <2>3. ScopeOf(d) # s
    <3>1. SUFFICES ASSUME ScopeOf(d) = s PROVE FALSE
      OBVIOUS
    <3>2. d \in UnknownIn(s)
      BY <2>1, <2>2, <3>1 DEF UnknownIn, InScope
    <3>3. QED
      BY <2>1, <2>2, <3>1, <3>2
  <2>4. QED
    BY <1>3, <2>2, <2>3
<1>6. FenceNamesItsDecision'
  <2>1. SUFFICES ASSUME NEW t \in Scope, fence'[t] # None
                 PROVE  (Unknown(fence[t]) /\ ScopeOf(fence[t]) = t)'
    BY DEF FenceNamesItsDecision
  <2>2. fence'[t] = fence[t] /\ fence[t] # None
    BY <1>3, <2>1
  <2>3. PICK e \in Decision : e = fence[t] /\ Unknown(e) /\ ScopeOf(e) = t
    BY <1>3, <2>2 DEF IInv, FencesHold, FenceNamesItsDecision
  <2>4. QED
    BY <1>4, <2>2, <2>3 DEF Unknown, ScopeOf, UserKey
<1>7. CoverInv'
  <2>1. SUFFICES ASSUME NEW t \in Session, NEW e \in covered'[t]
                 PROVE  Unknown(e) /\ (dec[e].session = t /\ effect[e] = "running" => e \in owned')
    BY DEF CoverInv, Unknown
  <2>2. e \in covered[t] \/ (t = s /\ e \in UnknownIn(s))
    BY <2>1, CommittedTyped
  <2>3. CASE e \in covered[t]
    BY <2>1, <2>3 DEF IInv, CoverInv
  <2>4. CASE t = s /\ e \in UnknownIn(s)
    BY <2>1, <2>4 DEF UnknownIn
  <2>5. QED
    BY <2>2, <2>3, <2>4
<1>8. QED
  BY <1>1, <1>2, <1>5, <1>6, <1>7 DEF IInv, FencesHold

LEMMA OwnerLiftStep ==
    ASSUME IInv, NEW s \in Scope, NEW force \in BOOLEAN, OwnerLift(s, force)
    PROVE  IInv'
<1>1. UnknownIn(s) \subseteq Decision
  BY DEF UnknownIn, InScope
<1>2. owned' = owned \cup UnknownIn(s) /\ owned' \subseteq Decision
  BY <1>1 DEF OwnerLift, IInv, TypeOK
<1>3. seen' \in [Session -> Decision \cup {None}]
  BY DEF OwnerLift, IInv, TypeOK
<1>4. QED
  BY <1>2, <1>3, LiftingStep DEF OwnerLift

(* A writer proves over what the fence names and what no earlier lift of    *)
(* its session has answered for.                                            *)
LEMMA AckStep ==
    ASSUME IInv, NEW s \in Session, AckInspect(s) \/ AckLift(s)
    PROVE  IInv'
<1>1. s \in Scope /\ fence \in [Scope -> Decision \cup {None}]
      /\ seen \in [Session -> Decision \cup {None}] /\ owned \subseteq Decision
  BY DEF Scope, IInv, TypeOK
<1>2. CASE UNCHANGED <<dec, blocked, hand, effect, proc, owned, fence, covered>>
           /\ seen' \in [Session -> Decision \cup {None}]
  <2>1. TypeOK'
    BY <1>2 DEF IInv, TypeOK
  <2>2. \A d \in Decision : RowInv(d)'
    BY <1>2 DEF IInv, RowInv, Unknown, OwnerUp
  <2>3. Quiet /\ UNCHANGED <<fence, covered, owned>>
    BY <1>2 DEF Quiet, Unknown
  <2>4. QED
    BY <2>1, <2>2, <2>3, QuietStep DEF IInv
<1>3. CASE AckInspect(s)
  <2>1. UNCHANGED <<dec, blocked, hand, effect, proc, owned, fence, covered>>
        /\ seen' \in [Session -> Decision \cup {None}]
    BY <1>1, <1>3 DEF AckInspect, rows
  <2>2. QED
    BY <1>2, <2>1
<1>4. CASE AckLift(s)
  <2>1. seen' \in [Session -> Decision \cup {None}] /\ UNCHANGED <<dec, blocked, hand, effect, proc, owned>>
    BY <1>1, <1>4 DEF AckLift
  <2>2. CASE UNCHANGED <<fence, covered>>
    BY <1>2, <2>1, <2>2
  <2>3. CASE /\ fence' = [fence EXCEPT ![s] = None] /\ covered' \in Committed(s)
             /\ Contained(s, seen[s])
    <3>1. ASSUME NEW d \in UnknownIn(s), dec[d].session = s, effect[d] = "running"
          PROVE  d \in owned
      <4>1. d \in Decision /\ Unknown(d)
        BY DEF UnknownIn, InScope
      <4>2. d \in covered[s]
        BY <2>3, <3>1, <4>1 DEF Contained, Unresolved
      <4>3. QED
        BY <3>1, <4>2 DEF IInv, CoverInv
    <3>2. QED
      BY <1>1, <2>1, <2>3, <3>1, LiftingStep
  <2>4. QED
    BY <1>4, <2>2, <2>3 DEF AckLift
<1>5. QED
  BY <1>3, <1>4

LEMMA GenerationLiftStep ==
    ASSUME IInv, NEW force \in BOOLEAN, GenerationLift(force)
    PROVE  IInv'
<1>1. TypeOK'
  BY DEF GenerationLift, IInv, TypeOK
<1>2. \A d \in Decision : RowInv(d)'
  BY DEF GenerationLift, IInv, RowInv, Unknown, OwnerUp
<1>3. Quiet /\ UNCHANGED <<fence, covered, owned>>
  BY DEF GenerationLift, Quiet, Unknown
<1>4. QED
  BY <1>1, <1>2, <1>3, QuietStep DEF IInv

LEMMA StutterStep ==
    ASSUME IInv, UNCHANGED vars
    PROVE  IInv'
<1>1. TypeOK'
  BY DEF vars, rows, IInv, TypeOK
<1>2. \A d \in Decision : RowInv(d)'
  BY DEF vars, rows, IInv, RowInv, Unknown, OwnerUp
<1>3. Quiet /\ UNCHANGED <<fence, covered, owned>>
  BY DEF vars, rows, Quiet, Unknown
<1>4. QED
  BY <1>1, <1>2, <1>3, QuietStep DEF IInv

-----------------------------------------------------------------------------
LEMMA NextIInv == IInv /\ [Next]_vars => IInv'
<1>1. SUFFICES ASSUME IInv, [Next]_vars PROVE IInv'
  OBVIOUS
<1>2. ASSUME NEW d \in Decision,
             \/ \E p \in Proc : Authorize(d, p)
             \/ Expire(d) \/ Consume(d) \/ NotStarted(d) \/ Bind(d)
             \/ Start(d) \/ StartFails(d) \/ Forget(d) \/ Attach(d) \/ EffectEnds(d)
             \/ Settle(d) \/ SettleFails(d)
      PROVE  IInv'
  BY <1>1, <1>2, AdmissionStep, EffectStep, SettleStep, SettleFailsStep
<1>3. ASSUME NEW p \in Proc, Drain(p) \/ Dies(p) \/ Boot(p) PROVE IInv'
  BY <1>1, <1>3, ProcessStep, BootStep
<1>4. QED
  BY <1>1, <1>2, <1>3, OwnerLiftStep, GenerationLiftStep, AckStep, StutterStep DEF Next

LEMMA Inductive == Spec => []IInv
BY InitIInv, NextIInv, PTL DEF Spec

(* Type correctness for any number of decisions, sessions, users, servers   *)
(* and kinds; a lease is issued or active exactly while its decision is     *)
(* authorized or claimed (permission-execution.ts, decision and lease rows).*)
THEOREM TypeCorrect == Spec => []TypeOK
BY Inductive, PTL DEF IInv

(* The rows never deny an effect, whatever crashes, races and write faults  *)
(* there are: a living owner's claim is closed by nobody else, an effect    *)
(* that runs is open, unknown or settled by its own owner, and what is said *)
(* not to have started never did (permission-execution.ts, settle and       *)
(* reconcile).                                                              *)
THEOREM HonestOutcomes == Spec => []OutcomeIsHonest
<1>1. IInv => OutcomeIsHonest
  BY DEF IInv, RowInv, OutcomeIsHonest, Claimed
<1>2. QED
  BY <1>1, Inductive, PTL

(* What was settled unknown and still runs keeps its scope fenced unless an *)
(* owner answered for it, and every fence names an unknown decision of its  *)
(* own scope (permission-execution.ts, session-fence-acknowledgement.ts).   *)
THEOREM FencesAlwaysHold == Spec => []FencesHold
BY Inductive, PTL DEF IInv

(* Only a consumed handle whose claim was found open makes a lease active.  *)
LEMMA ClaimOnly ==
    ASSUME IInv, Next, NEW d \in Decision, dec[d].lease = "issued", dec'[d].lease = "active"
    PROVE  Claimable(d)
<1>1. dec \in [Decision -> DecisionRow] /\ \A e \in Decision : Coherent(dec[e])
  BY DEF IInv, TypeOK
<1>2. dec[d].state = "authorized" /\ dec[d].lease = "issued"
  BY <1>1 DEF Coherent
<1>3. ASSUME NEW r \in DecisionRow, NEW o \in {"done", "spawn_failed", "not_started", "unknown"}
      PROVE  Closed(r, o).lease # "active"
  BY ClosedTyped
<1>4. ASSUME NEW e \in Decision, \E p \in Proc : Authorize(e, p) PROVE FALSE
  <2>1. dec[e].state = "none"
    BY <1>4 DEF Authorize
  <2>2. e # d
    BY <1>2, <2>1
  <2>3. dec'[d] = dec[d]
    BY <1>1, <1>4, <2>2 DEF Authorize
  <2>4. QED
    BY <2>3
<1>5. ASSUME NEW e \in Decision, Expire(e) \/ Bind(e) PROVE FALSE
  <2>1. dec'[d].lease = dec[d].lease
    <3>1. CASE Expire(e)
      BY <1>1, <3>1 DEF Expire, DecisionRow
    <3>2. CASE Bind(e)
      <4>1. PICK s \in Session : dec' = [dec EXCEPT ![e].session = s]
        BY <3>2 DEF Bind
      <4>2. QED
        BY <1>1, <4>1 DEF DecisionRow
    <3>3. QED
      BY <1>5, <3>1, <3>2
  <2>2. QED
    BY <2>1
<1>6. ASSUME NEW e \in Decision, Consume(e) PROVE Claimable(d)
  <2>1. CASE e = d
    <3>1. CASE Claimable(e)
      BY <2>1, <3>1
    <3>2. CASE ~Claimable(e)
      <4>1. dec' = dec
        BY <1>6, <3>2 DEF Consume
      <4>2. QED
        BY <1>2, <4>1
    <3>3. QED
      BY <3>1, <3>2
  <2>2. CASE e # d
    <3>1. dec'[d] = dec[d]
      BY <1>1, <1>6, <2>2 DEF Consume
    <3>2. QED
      BY <3>1
  <2>3. QED
    BY <2>1, <2>2
<1>7. ASSUME NEW e \in Decision, NotStarted(e) PROVE FALSE
  <2>1. dec'[d] = dec[d] \/ dec'[d] = Closed(dec[d], "not_started")
    BY <1>1, <1>7 DEF NotStarted
  <2>2. QED
    BY <1>1, <1>3, <2>1
<1>8. ASSUME NEW e \in Decision, Start(e) \/ Attach(e) PROVE FALSE
  <2>1. dec'[d].lease = dec[d].lease
    <3>1. CASE Start(e)
      <4>1. PICK c \in Child(e) : dec' = [dec EXCEPT ![e].state = "started", ![e].child = c]
        BY <3>1 DEF Start
      <4>2. e # d
        BY <1>2, <3>1 DEF Start
      <4>3. QED
        BY <1>1, <4>1, <4>2
    <3>2. CASE Attach(e)
      <4>1. dec' = dec \/ dec' = [dec EXCEPT ![e].child = "child"]
        BY <3>2 DEF Attach
      <4>2. QED
        BY <1>1, <4>1 DEF DecisionRow
    <3>3. QED
      BY <1>8, <3>1, <3>2
  <2>2. QED
    BY <2>1
<1>9. ASSUME NEW e \in Decision, Settle(e) PROVE FALSE
  <2>1. PICK o \in Outcomes(e) : /\ dec[e].state \in {"effect_claimed", "started"}
                                 /\ dec' = [dec EXCEPT ![e] = Closed(@, o)]
    BY <1>9 DEF Settle
  <2>2. e # d
    BY <1>2, <2>1
  <2>3. QED
    BY <1>1, <2>1, <2>2
<1>10. ASSUME NEW p \in Proc, Dies(p) PROVE FALSE
  <2>1. dec'[d] = IF dec[d].owner = p THEN [dec[d] EXCEPT !.owner = None] ELSE dec[d]
    BY <1>10 DEF Dies
  <2>2. dec'[d].lease = dec[d].lease
    BY <1>1, <2>1 DEF DecisionRow
  <2>3. QED
    BY <2>2
<1>11. ASSUME NEW p \in Proc, Boot(p) PROVE FALSE
  <2>1. \/ dec'[d] = [Closed(dec[d], "not_started") EXCEPT !.owner = dec[d].owner]
        \/ dec'[d] = Closed(dec[d], "unknown")
        \/ dec'[d] = dec[d]
    BY <1>11 DEF Boot
  <2>2. ASSUME NEW r \in DecisionRow, NEW x, r.lease # "active" PROVE [r EXCEPT !.owner = x].lease # "active"
    BY <2>2 DEF DecisionRow
  <2>3. Closed(dec[d], "not_started") \in DecisionRow
    BY <1>1, ClosedTyped
  <2>4. QED
    BY <1>1, <1>3, <2>1, <2>2, <2>3
<1>12. QED
  BY <1>4, <1>5, <1>6, <1>7, <1>8, <1>9, <1>10, <1>11
     DEF Next, StartFails, Forget, EffectEnds, SettleFails, Drain, OwnerLift, GenerationLift,
         AckInspect, AckLift, rows

(* No lease is claimed into a scope where an effect of unknown outcome      *)
(* still runs (permission-execution.ts, consume).                           *)
THEOREM NoClaimBeside == Spec => NoClaimBesideAnOrphan
<1>1. ASSUME IInv, Next, NEW d \in Decision, dec[d].lease = "issued", dec'[d].lease = "active",
             NEW e \in Decision \ owned, Unknown(e), effect[e] = "running"
      PROVE  ScopeOf(e) \notin Keys(d)
  <2>1. Claimable(d)
    BY <1>1, ClaimOnly
  <2>2. fence[ScopeOf(e)] # None
    BY <1>1 DEF IInv, FencesHold, UnknownRunsFenced
  <2>3. QED
    BY <2>1, <2>2 DEF Claimable, ScopeOpen
<1>2. IInv /\ [Next]_vars =>
         [\A d \in Decision : dec[d].lease = "issued" /\ dec'[d].lease = "active" =>
             \A e \in Decision \ owned : Unknown(e) /\ effect[e] = "running" => ScopeOf(e) \notin Keys(d)]_vars
  BY <1>1
<1>3. QED
  BY <1>2, Inductive, PTL DEF Spec, NoClaimBesideAnOrphan
===============================================================================
