----------------------- MODULE CancellationStoreProofs -----------------------
(* Machine-checked proofs about CancellationStore, for any sets of roots   *)
(* and runs and any interleaving of callers.                               *)
EXTENDS CancellationStore, TLAPS

(* Every transaction of the cancellation tables keeps the columns within   *)
(* the CHECK constraints of the schema.                                    *)
THEOREM Typing == Spec => []TypeOK
<1>1. Init => TypeOK
  BY DEF Init, TypeOK, NoRun, RootStates, RunStates, EpochOf, MaxEpoch
<1>2. TypeOK /\ [Next]_cancelVars => TypeOK'
  <2> SUFFICES ASSUME TypeOK, [Next]_cancelVars PROVE TypeOK'
    OBVIOUS
  <2> USE DEF TypeOK, RootStates, RunStates, Moved, EpochOf, MaxEpoch
  <2>1. ASSUME NEW x \in Root, CreateRoot(x) PROVE TypeOK'
    BY <2>1 DEF CreateRoot
  <2>2. ASSUME NEW x \in Root, RequestRootCancellation(x) PROVE TypeOK'
    BY <2>2 DEF RequestRootCancellation
  <2>3. ASSUME NEW x \in Root, MarkRootCancelled(x) PROVE TypeOK'
    BY <2>3 DEF MarkRootCancelled
  <2>4. ASSUME NEW x \in Root, NEW r \in Run, RegisterRun(x, r) PROVE TypeOK'
    BY <2>4 DEF RegisterRun, RegisterRunNoGuard
  <2>5. ASSUME NEW r \in Run, NEW n \in 0 .. MaxEpoch, CompleteRun(r, n) PROVE TypeOK'
    BY <2>5 DEF CompleteRun
  <2>6. ASSUME NEW r \in Run, NEW n \in 0 .. MaxEpoch, MarkRunReaped(r, n) PROVE TypeOK'
    BY <2>6 DEF MarkRunReaped
  <2>7. CASE UNCHANGED cancelVars
    BY <2>7 DEF cancelVars
  <2> QED BY <2>1, <2>2, <2>3, <2>4, <2>5, <2>6, <2>7 DEF Next
<1> QED BY <1>1, <1>2, PTL DEF Spec

(* A run row that exists names an existing root; together with the two      *)
(* safety properties it is inductive.                                       *)
RegisteredUnderRoot ==
    \A r \in Run : crun[r].state # "absent" => crun[r].root \in Root

CancelInv == TypeOK /\ RegisteredUnderRoot /\ NoRunOutlivesRequest /\ CancelledRootIsReaped

LEMMA CancelInvInit == Init => CancelInv
  BY DEF Init, CancelInv, TypeOK, RegisteredUnderRoot, NoRunOutlivesRequest,
         CancelledRootIsReaped, NoRun, RootStates, RunStates, EpochOf, MaxEpoch

LEMMA CancelInvStep == CancelInv /\ TypeOK' /\ [Next]_cancelVars => CancelInv'
<1> SUFFICES ASSUME CancelInv, TypeOK', [Next]_cancelVars PROVE CancelInv'
  OBVIOUS
<1> USE DEF CancelInv, TypeOK, RegisteredUnderRoot, NoRunOutlivesRequest,
            CancelledRootIsReaped, RootStates, RunStates, Moved
<1>1. ASSUME NEW x \in Root, CreateRoot(x) PROVE CancelInv'
  BY <1>1 DEF CreateRoot
<1>2. ASSUME NEW x \in Root, RequestRootCancellation(x) PROVE CancelInv'
  BY <1>2 DEF RequestRootCancellation
<1>3. ASSUME NEW x \in Root, MarkRootCancelled(x) PROVE CancelInv'
  BY <1>3 DEF MarkRootCancelled, RunsOf
<1>4. ASSUME NEW x \in Root, NEW r \in Run, RegisterRun(x, r) PROVE CancelInv'
  BY <1>4 DEF RegisterRun, RegisterRunNoGuard
<1>5. ASSUME NEW r \in Run, NEW n \in 0 .. MaxEpoch, CompleteRun(r, n) PROVE CancelInv'
  BY <1>5 DEF CompleteRun
<1>6. ASSUME NEW r \in Run, NEW n \in 0 .. MaxEpoch, MarkRunReaped(r, n) PROVE CancelInv'
  BY <1>6 DEF MarkRunReaped
<1>7. CASE UNCHANGED cancelVars
  BY <1>7 DEF cancelVars
<1> QED BY <1>1, <1>2, <1>3, <1>4, <1>5, <1>6, <1>7 DEF Next

LEMMA CancelInvariant == Spec => []CancelInv
<1>1. TypeOK /\ CancelInv /\ TypeOK' /\ [Next]_cancelVars => CancelInv'
  BY CancelInvStep
<1> QED BY <1>1, CancelInvInit, Typing, PTL DEF Spec

(* No active run survives a cancellation request on its root.               *)
THEOREM RequestStopsSpawn == Spec => []NoRunOutlivesRequest
  BY CancelInvariant, PTL DEF CancelInv

(* A cancelled root has no run left to reap.                                *)
THEOREM CancelledIsReaped == Spec => []CancelledRootIsReaped
  BY CancelInvariant, PTL DEF CancelInv

(* A root and its runs tell one story (registerRun, markRootCancelled).     *)
THEOREM RootAndRunsAgree == Spec => []RunsFollowTheirRoot
  BY RequestStopsSpawn, CancelledIsReaped, PTL DEF RunsFollowTheirRoot

(* A run is either completed or cancelled, decided once.                    *)
THEOREM CompletionXorCancellation == Spec => CompletionOrCancellation
<1>1. ASSUME TypeOK, Next, NEW r \in Run
      PROVE  /\ crun[r].state = "cancel_requested"
                  => crun'[r].state \in {"cancel_requested", "reaped"}
             /\ crun[r].state \in {"reaped", "completed"} => crun'[r] = crun[r]
  <2> USE DEF TypeOK, RootStates, RunStates, Moved
  <2>1. CASE \E x \in Root : CreateRoot(x) \/ MarkRootCancelled(x)
    BY <2>1 DEF CreateRoot, MarkRootCancelled
  <2>2. CASE \E x \in Root : RequestRootCancellation(x)
    BY <2>2 DEF RequestRootCancellation
  <2>3. CASE \E x \in Root, s \in Run : RegisterRun(x, s)
    BY <2>3 DEF RegisterRun, RegisterRunNoGuard
  <2>4. CASE \E s \in Run, n \in 0 .. MaxEpoch : CompleteRun(s, n)
    BY <2>4 DEF CompleteRun
  <2>5. CASE \E s \in Run, n \in 0 .. MaxEpoch : MarkRunReaped(s, n)
    BY <2>5 DEF MarkRunReaped
  <2> QED BY <1>1, <2>1, <2>2, <2>3, <2>4, <2>5 DEF Next
<1>2. TypeOK /\ [Next]_cancelVars =>
        [\A r \in Run :
           /\ crun[r].state = "cancel_requested"
                => crun'[r].state \in {"cancel_requested", "reaped"}
           /\ crun[r].state \in {"reaped", "completed"} => crun'[r] = crun[r]]_cancelVars
  BY <1>1
<1> QED BY <1>2, Typing, PTL DEF Spec, CompletionOrCancellation
=============================================================================
