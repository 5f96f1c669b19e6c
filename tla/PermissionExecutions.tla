------------------------ MODULE PermissionExecutions ------------------------
(***************************************************************************)
(* Permits for provider effects.  A launch is authorized as a decision with *)
(* a lease; its owner consumes the lease, records the start, lets the       *)
(* effect run and settles it.  An effect whose end nobody saw is settled    *)
(* unknown and fences its scope, the session or else the user's launches of *)
(* that kind, until an owner lifts the fence or a writer of the session     *)
(* acknowledges it on proof that nothing of it still runs.  A server that   *)
(* boots reconciles the leases dead owners left behind, and refuses to      *)
(* serve once when it met an unknown.                                       *)
(*                                                                          *)
(* Kinds: "turn" is a provider turn, which outlives the host and is bound   *)
(* to its session late; "spawn" is a local child; "read" runs inside the    *)
(* owner.  A refusal that writes nothing is not an action.                  *)
(* Source: server/modules/database/repositories/permission-execution.ts,    *)
(* server/modules/execution-permissions/.                                   *)
(***************************************************************************)
EXTENDS Integers, FiniteSets

CONSTANTS Decision,     \* ids, used in their order
          Session, User,
          UserOf,       \* the user each decision is made for
          Proc,         \* server processes
          Kind,         \* kinds of effects in the instance
          None

ASSUME PermissionAssumption ==
    /\ Decision \subseteq Nat
    /\ UserOf \in [Decision -> User]
    /\ Kind \subseteq {"turn", "spawn", "read"}
    /\ None \notin Decision /\ None \notin Session /\ None \notin Proc
    /\ None \notin {"done", "spawn_failed", "not_started", "unknown",
                    "issued", "active", "child", "owner"} \cup Kind
    /\ Session \cap (User \X Kind) = {}

VARIABLES dec,      \* decision and lease rows
          hand,     \* the handle of the decision in its owner's memory
          effect,   \* what really runs
          fence,    \* permission_effect_fences: the decision each fence names
          blocked,  \* the protocol generation is blocked
          covered,  \* unknown decisions named by committed lifts of a session
          seen,     \* the fence a writer has inspected and proved contained
          proc,     \* server processes
          owned     \* unknown decisions an owner has answered for

rows == <<dec, fence, blocked, covered>>
vars == <<rows, hand, effect, seen, proc, owned>>

Scope == Session \cup (User \X Kind)
NoDecision == [state |-> "none", outcome |-> None, kind |-> None, session |-> None,
               lease |-> None, expired |-> FALSE, child |-> None, owner |-> None]

(* A closed row keeps what is still asked of it: its owner, lease term and   *)
(* child are not.                                                            *)
Closed(r, o) == [r EXCEPT !.state = "terminal", !.outcome = o, !.child = None, !.owner = None,
                          !.lease = IF o = "not_started" THEN "revoked" ELSE "terminal",
                          !.expired = FALSE]

UserKey(d) == <<UserOf[d], dec[d].kind>>
Keys(d)    == {UserKey(d)} \cup ({dec[d].session} \ {None})
ScopeOf(d) == IF dec[d].session = None THEN UserKey(d) ELSE dec[d].session
Unknown(d) == dec[d].outcome = "unknown"
Open(d)    == dec[d].lease \in {"issued", "active"}
OwnerServes(d) == dec[d].owner \in Proc /\ proc[dec[d].owner] = "up"
OwnerUp(d) == dec[d].owner \in Proc

Init == /\ dec = [d \in Decision |-> NoDecision]
        /\ hand = [d \in Decision |-> "none"]
        /\ effect = [d \in Decision |-> "none"]
        /\ fence = [s \in Scope |-> None]
        /\ blocked = FALSE
        /\ covered = [s \in Session |-> {}]
        /\ seen = [s \in Session |-> None]
        /\ proc = [p \in Proc |-> "off"]
        /\ owned = {}

-----------------------------------------------------------------------------
(* Admission and claim: both recheck the generation and every scope that    *)
(* the decision belongs to, in the transaction that writes.                 *)
ScopeOpen(keys) == ~blocked /\ \A s \in keys : fence[s] = None

Authorize(d, p) ==
    /\ proc[p] = "up" /\ dec[d].state = "none"
    /\ \A e \in Decision : e < d => dec[e].state # "none"
    /\ \E k \in Kind, s \in Session \cup {None} :
        /\ k = "read" => s = None
        /\ ScopeOpen({<<UserOf[d], k>>} \cup ({s} \ {None}))
        /\ dec' = [dec EXCEPT ![d] = [NoDecision EXCEPT !.state = "authorized", !.kind = k,
                       !.session = s, !.lease = "issued", !.owner = p]]
    /\ hand' = [hand EXCEPT ![d] = "issued"]
    /\ UNCHANGED <<effect, fence, blocked, covered, seen, proc, owned>>

Expire(d) ==
    /\ Open(d) /\ ~dec[d].expired
    /\ dec' = [dec EXCEPT ![d].expired = TRUE]
    /\ UNCHANGED <<hand, effect, fence, blocked, covered, seen, proc, owned>>

ClaimableOnceAdmitted(d) == dec[d].lease = "issued" /\ ~dec[d].expired /\ dec[d].state = "authorized"
Claimable(d) == /\ dec[d].lease = "issued" /\ ~dec[d].expired /\ dec[d].state = "authorized"
                /\ ScopeOpen(Keys(d))

(* The handle counts as consumed before the claim is tried: a refused claim  *)
(* leaves it good for nothing, and the lease issued.                         *)
Consume(d) ==
    /\ hand[d] = "issued"
    /\ IF Claimable(d)
       THEN /\ hand' = [hand EXCEPT ![d] = "consumed"]
            /\ dec' = [dec EXCEPT ![d].lease = "active", ![d].state = "effect_claimed"]
       ELSE /\ hand' = [hand EXCEPT ![d] = "gone"]
            /\ dec' = dec
    /\ UNCHANGED <<effect, fence, blocked, covered, seen, proc, owned>>

(* A launch that ends before its claim.  The row may be settled already, and *)
(* some callers just forget the handle.                                      *)
NotStarted(d) ==
    /\ hand[d] = "issued"
    /\ hand' = [hand EXCEPT ![d] = "gone"]
    /\ \/ /\ dec[d].state = "authorized"
          /\ dec' = [dec EXCEPT ![d] = Closed(@, "not_started")]
       \/ /\ dec[d].state # "authorized" \/ dec[d].kind = "spawn"
          /\ dec' = dec
    /\ UNCHANGED <<effect, fence, blocked, covered, seen, proc, owned>>

-----------------------------------------------------------------------------
(* The effect: its start is recorded before it can run; a turn without a    *)
(* session is bound to the one its provider will use, or uses, unless a     *)
(* decision of another user names it.                                       *)
Bindable(d) == dec[d].state \in {"authorized", "effect_claimed", "started"}

Bind(d) ==
    /\ hand[d] \in {"issued", "started"} /\ dec[d].kind = "turn" /\ dec[d].session = None
    /\ Bindable(d)
    /\ \E s \in Session :
        /\ \A e \in Decision : dec[e].session = s => UserOf[e] = UserOf[d]
        /\ dec' = [dec EXCEPT ![d].session = s]
    /\ UNCHANGED <<hand, effect, fence, blocked, covered, seen, proc, owned>>

Child(d) == CASE dec[d].kind = "turn"  -> {None}
              [] dec[d].kind = "spawn" -> {None, "child"}
              [] dec[d].kind = "read"  -> {"owner"}

Start(d) ==
    /\ hand[d] = "consumed" /\ dec[d].state = "effect_claimed"
    /\ hand' = [hand EXCEPT ![d] = "started"]
    /\ \E c \in Child(d) : dec' = [dec EXCEPT ![d].state = "started", ![d].child = c]
    /\ effect' = [effect EXCEPT ![d] = "running"]
    /\ UNCHANGED <<fence, blocked, covered, seen, proc, owned>>

(* The start is refused for a revoked actor, or cannot be written, which     *)
(* blocks the generation.  The terminal broker forgets such a launch; the    *)
(* other callers settle it.                                                  *)
StartFails(d) ==
    /\ hand[d] = "consumed"
    /\ hand' = [hand EXCEPT ![d] = "refused"]
    /\ blocked' \in {blocked, TRUE}
    /\ UNCHANGED <<dec, effect, fence, covered, seen, proc, owned>>

Forget(d) ==
    /\ hand[d] = "refused" /\ dec[d].kind = "spawn"
    /\ hand' = [hand EXCEPT ![d] = "gone"]
    /\ UNCHANGED <<rows, effect, seen, proc, owned>>

(* The child's identity, recorded once it is known; a write that fails      *)
(* blocks the generation, and the effect is settled unknown while it runs.   *)
Attach(d) ==
    /\ hand[d] = "started" /\ dec[d].kind = "spawn" /\ dec[d].child = None
    /\ \/ /\ dec' = [dec EXCEPT ![d].child = "child"]
          /\ UNCHANGED <<blocked, hand>>
       \/ /\ blocked' \in {blocked, TRUE}
          /\ hand' = [hand EXCEPT ![d] = "unattached"]
          /\ UNCHANGED dec
    /\ UNCHANGED <<effect, fence, covered, seen, proc, owned>>

EffectEnds(d) ==
    /\ effect[d] = "running"
    /\ effect' = [effect EXCEPT ![d] = "ended"]
    /\ UNCHANGED <<rows, hand, seen, proc, owned>>

(* What the owner says.  "done" is any definite word on a launch, succeeded, *)
(* failed, cancelled or timed out: an owner whose loop threw, or whose user  *)
(* stopped it, gives it while the provider or the child may run on; a read   *)
(* is awaited until it is over or aborted.  "unknown" is for an end nobody   *)
(* saw.  A turn whose start was refused is spawn_failed, cancelled when it   *)
(* was stopped as well, or unknown, as its caller has it.                    *)
Outcomes(d) ==
    CASE hand[d] \in {"consumed", "refused"} ->
            (CASE dec[d].kind = "turn"  -> {"spawn_failed"} \cup
                                           (IF hand[d] = "refused" THEN {"done", "unknown"} ELSE {})
               [] dec[d].kind = "spawn" -> IF hand[d] = "refused" THEN {"unknown"} ELSE {}
               [] dec[d].kind = "read"  -> IF hand[d] = "refused" THEN {"done"} ELSE {})
      [] hand[d] = "unattached" -> {"unknown"}
      [] hand[d] = "started" ->
            (IF dec[d].kind # "read" THEN {"done", "unknown"}
             ELSE IF effect[d] = "ended" THEN {"done"} ELSE {})
      [] OTHER -> {}

InProcess(d) == dec[d].kind = "read" /\ dec[d].child = "owner"

(* First evidence wins: a fence that is there is kept.                       *)
Fenced(d) == IF fence[ScopeOf(d)] = None THEN [fence EXCEPT ![ScopeOf(d)] = d] ELSE fence

Settle(d) ==
    \E o \in Outcomes(d) :
        /\ dec[d].state \in {"effect_claimed", "started"} /\ dec[d].lease = "active"
        /\ dec' = [dec EXCEPT ![d] = Closed(@, o)]
        /\ fence' = IF o = "unknown" /\ ~InProcess(d) THEN Fenced(d) ELSE fence
        /\ hand' = [hand EXCEPT ![d] = "gone"]
        /\ UNCHANGED <<effect, blocked, covered, seen, proc, owned>>

(* The settlement cannot be written: the generation is blocked, if that can  *)
(* be, and the row stays active under a living owner.                        *)
SettleFails(d) ==
    /\ Outcomes(d) # {}
    /\ blocked' \in {blocked, TRUE}
    /\ hand' = [hand EXCEPT ![d] = "gone"]
    /\ UNCHANGED <<dec, effect, fence, covered, seen, proc, owned>>

-----------------------------------------------------------------------------
(* Processes.  The identity a lease records is exact: once its owner is      *)
(* dead, no process that boots later is taken for it.                        *)
Drain(p) ==
    /\ proc[p] = "up"
    /\ proc' = [proc EXCEPT ![p] = "draining"]
    /\ UNCHANGED <<rows, hand, effect, seen, owned>>

Dies(p) ==
    /\ proc[p] # "off"
    /\ proc' = [proc EXCEPT ![p] = "off"]
    /\ dec' = [d \in Decision |-> IF dec[d].owner = p THEN [dec[d] EXCEPT !.owner = None] ELSE dec[d]]
    /\ hand' = [d \in Decision |-> IF dec[d].owner = p THEN "gone" ELSE hand[d]]
    /\ effect' = [d \in Decision |-> IF dec[d].owner = p /\ dec[d].kind = "read" /\ effect[d] = "running"
                                     THEN "ended" ELSE effect[d]]
    /\ UNCHANGED <<fence, blocked, covered, seen, owned>>

(* Only an exact identity can be proven dead; a child that was never         *)
(* recorded may be anywhere.                                                 *)
ProvenDead(d) == /\ dec[d].kind # "turn" /\ dec[d].child # None
                 /\ InProcess(d) \/ effect[d] # "running"

FatalWhenBlocked(external, stillActive) == external # {} \/ stillActive # {} \/ blocked
Fatal(external, stillActive) == external # {} \/ stillActive # {}

(* The rows a boot settles: issued ones, and active ones of dead owners.     *)
Boot(p) ==
    LET due         == {d \in Decision : Open(d) /\ dec[d].expired /\ dec[d].state # "terminal"}
        stillActive == {d \in due : dec[d].lease = "active" /\ OwnerUp(d)}
        unclaimed   == {d \in due : dec[d].lease = "issued"}
        lost        == (due \ stillActive) \ unclaimed
        external    == {d \in lost : ~ProvenDead(d)} IN
    /\ proc[p] = "off" /\ \A q \in Proc : proc[q] # "up"
    /\ dec' = [d \in Decision |->
                  CASE d \in unclaimed -> [Closed(dec[d], "not_started") EXCEPT !.owner = dec[d].owner]
                    [] d \in lost      -> Closed(dec[d], "unknown")
                    [] OTHER           -> dec[d]]
    /\ \E first \in [{ScopeOf(d) : d \in external} -> external] :
        /\ \A s \in DOMAIN first : ScopeOf(first[s]) = s
        /\ fence' = [s \in Scope |-> IF s \in DOMAIN first /\ fence[s] = None THEN first[s] ELSE fence[s]]
    /\ proc' = [proc EXCEPT ![p] = IF Fatal(external, stillActive) THEN "off" ELSE "up"]
    /\ UNCHANGED <<hand, effect, blocked, covered, seen, owned>>

-----------------------------------------------------------------------------
(* Lifts.  Each is one transaction: an intent with the evidence of the       *)
(* scope, the deletion, then a completion record that may fail to be         *)
(* written.  Work of the scope that is open refuses it unless forced.        *)
InScope(s)       == {d \in Decision : dec[d].state # "none" /\ (s \in Keys(d) \/ fence[s] = d)}
OpenWork(s)      == \E d \in InScope(s) : Open(d) \/ dec[d].state \in {"effect_claimed", "started"}
UnknownIn(s)     == {d \in InScope(s) : Unknown(d)}
Committed(s)     == IF s \in Session
                    THEN {covered, [covered EXCEPT ![s] = @ \cup UnknownIn(s)]}
                    ELSE {covered}

OwnerLift(s, force) ==
    /\ fence[s] # None
    /\ force \/ ~OpenWork(s)
    /\ fence' = [fence EXCEPT ![s] = None]
    /\ covered' \in Committed(s)
    /\ owned' = owned \cup UnknownIn(s)
    /\ UNCHANGED <<dec, blocked, hand, effect, seen, proc>>

GenerationLift(force) ==
    /\ blocked /\ (force \/ \A d \in Decision : ~Open(d))
    /\ blocked' = FALSE
    /\ UNCHANGED <<dec, fence, covered, hand, effect, seen, proc, owned>>

(* A writer of the session: every unknown decision of the session that no    *)
(* committed lift covers, and the one the fence names, must be proven over.  *)
UnresolvedOfTheFence(s, d) == {d}
Unresolved(s, d) == {d} \cup {e \in Decision : dec[e].session = s /\ Unknown(e) /\ e \notin covered[s]}
Contained(s, d)  == ~OpenWork(s) /\ \A e \in Unresolved(s, d) : effect[e] # "running"

AckInspect(s) ==
    /\ fence[s] # None /\ seen[s] # fence[s] /\ Contained(s, fence[s])
    /\ \E p \in Proc : proc[p] # "off"
    /\ seen' = [seen EXCEPT ![s] = fence[s]]
    /\ UNCHANGED <<rows, hand, effect, proc, owned>>

(* The snapshot of the transaction must hold no decision of another scope.   *)
AckLift(s) ==
    /\ seen[s] # None
    /\ seen' = [seen EXCEPT ![s] = None]
    /\ IF /\ fence[s] = seen[s] /\ Contained(s, seen[s])
          /\ \A d \in InScope(s) : s \in Keys(d)
       THEN /\ fence' = [fence EXCEPT ![s] = None]
            /\ covered' \in Committed(s)
       ELSE UNCHANGED <<fence, covered>>
    /\ UNCHANGED <<dec, blocked, hand, effect, proc, owned>>

-----------------------------------------------------------------------------
Next == \/ \E d \in Decision :
              \/ \E p \in Proc : Authorize(d, p)
              \/ Expire(d) \/ Consume(d) \/ NotStarted(d) \/ Bind(d)
              \/ Start(d) \/ StartFails(d) \/ Forget(d) \/ Attach(d) \/ EffectEnds(d)
              \/ Settle(d) \/ SettleFails(d)
        \/ \E p \in Proc : Drain(p) \/ Dies(p) \/ Boot(p)
        \/ \E s \in Scope, force \in BOOLEAN : OwnerLift(s, force)
        \/ \E force \in BOOLEAN : GenerationLift(force)
        \/ \E s \in Session : AckInspect(s) \/ AckLift(s)

Spec == Init /\ [][Next]_vars

(* A supervisor restarts the server until it serves, and ends one that       *)
(* drains.                                                                   *)
Fairness == \A p \in Proc : /\ WF_vars(Boot(p))
                            /\ WF_vars(proc[p] = "draining" /\ Dies(p))
FairSpec == Spec /\ Fairness

-----------------------------------------------------------------------------
DecisionRow == [state : {"none", "authorized", "effect_claimed", "started", "terminal"},
                outcome : {None, "done", "spawn_failed", "not_started", "unknown"},
                kind : Kind \cup {None}, session : Session \cup {None},
                lease : {None, "issued", "active", "revoked", "terminal"},
                expired : BOOLEAN, child : {None, "child", "owner"},
                owner : Proc \cup {None}]

Coherent(r) == /\ r.lease = "issued" <=> r.state = "authorized"
               /\ r.lease = "active" <=> r.state \in {"effect_claimed", "started"}
               /\ r.outcome # None <=> r.state = "terminal"

Hands == {"none", "issued", "consumed", "refused", "started", "unattached", "gone"}

TypeOK ==
    /\ dec \in [Decision -> DecisionRow] /\ \A d \in Decision : Coherent(dec[d])
    /\ hand \in [Decision -> Hands]
    /\ effect \in [Decision -> {"none", "running", "ended"}]
    /\ fence \in [Scope -> Decision \cup {None}]
    /\ blocked \in BOOLEAN
    /\ covered \in [Session -> SUBSET Decision]
    /\ seen \in [Session -> Decision \cup {None}]
    /\ proc \in [Proc -> {"off", "up", "draining"}]
    /\ owned \subseteq Decision

(* Whatever crashes, races and write faults happen, the rows never deny an   *)
(* effect.  While a living owner holds a claimed launch in hand its lease    *)
(* stays active, whatever expires and boots beside it, so a definite word on *)
(* it is the owner's own; an effect that runs is open, unknown or has that   *)
(* word, which no boot gives; and a decision said not to have started, or    *)
(* not to have spawned, never had one (permission-execution.ts:483-501,      *)
(* 584-612, 743-839).                                                        *)
OutcomeIsHonest ==
    \A d \in Decision :
        /\ hand[d] \in {"consumed", "refused", "started", "unattached"} => dec[d].lease = "active"
        /\ effect[d] = "running" => dec[d].lease = "active" \/ dec[d].outcome \in {"unknown", "done"}
        /\ dec[d].outcome \in {"not_started", "spawn_failed"} => effect[d] = "none"

(* An effect settled unknown that still runs keeps its scope fenced, however *)
(* many lifts, restarts and other decisions of the scope there were, unless  *)
(* an owner answered for it (session-fence-acknowledgement.ts:8-13).         *)
UnknownRunsFenced ==
    \A d \in Decision \ owned :
        Unknown(d) /\ effect[d] = "running" => fence[ScopeOf(d)] # None

(* A fence names an unknown decision of its own scope: otherwise no writer   *)
(* could ever acknowledge it (permission-fence.js:104, decision_scope_       *)
(* mismatch), and the proof would look at the wrong processes.               *)
FenceNamesItsDecision ==
    \A s \in Scope : fence[s] # None => Unknown(fence[s]) /\ ScopeOf(fence[s]) = s

FencesHold == UnknownRunsFenced /\ FenceNamesItsDecision

(* No lease is claimed into a scope where an effect of unknown outcome still *)
(* runs, although the scope was open when the launch was admitted            *)
(* (permission-execution.ts:284-327).                                        *)
NoClaimBesideAnOrphan ==
    [][\A d \in Decision : dec[d].lease = "issued" /\ dec'[d].lease = "active" =>
         \A e \in Decision \ owned : Unknown(e) /\ effect[e] = "running" => ScopeOf(e) \notin Keys(d)]_vars

(* However a server died, and whatever stays fenced or blocked, a server     *)
(* serves again (server/index.js:4259-4284, B-795 and T-1593).               *)
NodeReturns == (\A p \in Proc : proc[p] # "up") ~> (\E p \in Proc : proc[p] = "up")

=============================================================================
