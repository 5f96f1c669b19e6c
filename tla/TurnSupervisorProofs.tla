------------------------ MODULE TurnSupervisorProofs ------------------------
(* Machine-checked proofs about TurnSupervisor, for any executions,        *)
(* processes, runtimes, turns and sessions.  The first invariant holds with *)
(* overlapping processes and pid reuse; the longer one that follows says in *)
(* its last part what one process at a time adds.                          *)
EXTENDS TurnSupervisor, TLAPS

-----------------------------------------------------------------------------
(* The inductive invariant.  The two rows of a turn move together.          *)
RowShape(t) ==
    \/ run[t] = NoRow /\ turn[t] = NoRow
    \/ run[t] = Row("claimed", 0, "none") /\ turn[t] = Row("accepted", 0, "none")
    \/ run[t] = Row("running", 1, "none") /\ turn[t] = run[t]
    \/ \E outcome \in Outcomes : run[t] = Row("terminal", 2, outcome) /\ turn[t] = run[t]

RowsInv == RowsTyped /\ \A t \in Turn : RowShape(t)

(* The epoch of a cancellation row counts its changes; it is active only    *)
(* under an active root.                                                    *)
RunRow(state, t, epoch) == [state |-> state, root |-> t, epoch |-> epoch]

CancellationShape(t) ==
    \/ crun[t] = RunRow("absent", None, 0)
    \/ crun[t] = RunRow("active", t, 0) /\ root[t] = "active"
    \/ crun[t] \in {RunRow("cancel_requested", t, 1), RunRow("completed", t, 1), RunRow("reaped", t, 2)}

CancellationInv == CancellationTyped /\ \A t \in Turn : CancellationShape(t)

(* An execution under way has a turn and a process.                         *)
Owned(e) == Active(e) => exec[e].turn \in Turn /\ exec[e].proc \in Proc

ExecutionsInv == ExecutionsTyped /\ \A e \in Exec : Owned(e)

(* An aborted execution has a durable request behind it.                    *)
Asked(t) == crun[t].state \in {"cancel_requested", "reaped"}

Aborted(e) == (Active(e) /\ exec[e].aborted) => Asked(exec[e].turn)

(* Only the execution that took the run from claimed to running works on    *)
(* it and may have called a provider.                                       *)
SoleDriver(t) ==
    /\ run[t].state \in {"absent", "claimed"}
       => dispatched[t] = {} /\ \A e \in Exec : Working(e) => exec[e].turn # t
    /\ \A e, f \in Exec : (Working(e) /\ Working(f) /\ exec[e].turn = t /\ exec[f].turn = t) => e = f
    /\ \A d \in dispatched[t], e \in Exec : (Working(e) /\ exec[e].turn = t) => d = e

SafeInv == /\ AtMostOnceDispatch /\ OutcomeAgreesWithCancellation
           /\ \A e \in Exec : Aborted(e)
           /\ \A t \in Turn : SoleDriver(t)

IInv == RowsInv /\ CancellationInv /\ ExecutionsInv /\ ServersTyped /\ SafeInv

-----------------------------------------------------------------------------
(* Rows.                                                                    *)
LEMMA RowsClaimed == ASSUME RowsInv, NEW t \in Turn, ClaimInDatabase(t) PROVE RowsInv'
<1> USE DEF RowsInv, RowsTyped, RowShape, ClaimInDatabase, Row, NoRow, RunRowStates, TurnRowStates
<1>1. CASE turn[t].state = "absent"
  <2>1. /\ turn' = [turn EXCEPT ![t] = Row("accepted", 0, "none")]
        /\ run'  = [run EXCEPT ![t] = Row("claimed", 0, "none")]
    BY <1>1
  <2>2. RowsTyped'
    BY <2>1
  <2>3. ASSUME NEW u \in Turn PROVE RowShape(u)'
    BY <2>1
  <2> QED BY <2>2, <2>3
<1>2. CASE turn[t].state # "absent"
  BY <1>2
<1> QED BY <1>1, <1>2

LEMMA RowsStarted == ASSUME RowsInv, NEW t \in Turn, StartExecution(t, 0, 0) PROVE RowsInv'
  BY DEF RowsInv, RowsTyped, RowShape, StartExecution, Row, NoRow, Outcomes, RunRowStates, TurnRowStates

Decided(t, outcome) ==
    /\ run'  = [run EXCEPT ![t] = Row("terminal", 2, outcome)]
    /\ turn' = [turn EXCEPT ![t] = Row("terminal", 2, outcome)]

LEMMA RowsDecided == ASSUME RowsInv, NEW t \in Turn, NEW outcome \in Outcomes, Decided(t, outcome)
                     PROVE RowsInv'
  BY DEF RowsInv, RowsTyped, RowShape, Decided, Row, NoRow, Outcomes, RunRowStates, TurnRowStates

LEMMA RowsKept == ASSUME RowsInv, UNCHANGED <<turn, run>> PROVE RowsInv'
  BY DEF RowsInv, RowsTyped, RowShape

LEMMA UndecidedRow == ASSUME RowsInv, NEW t \in Turn, run[t].state \in {"claimed", "running"}
                      PROVE run[t].outcome = "none"
<1>1. RowShape(t)
  BY DEF RowsInv
<1>2. run[t] \in {Row("claimed", 0, "none"), Row("running", 1, "none")}
  <2>1. \A o \in Outcomes : run[t] # Row("terminal", 2, o)
    BY DEF Row
  <2>2. run[t] # NoRow
    BY DEF NoRow, Row
  <2> QED BY <1>1, <2>1, <2>2 DEF RowShape
<1> QED BY <1>2 DEF Row

(* Cancellation tables.                                                     *)
LEMMA CancellationKept == ASSUME CancellationInv, UNCHANGED <<root, crun>> PROVE CancellationInv'
  BY DEF CancellationInv, CancellationTyped, CancellationShape

LEMMA CancellationCompleted ==
    ASSUME CancellationInv, NEW t \in Turn, NEW outcome, CompletesRun(t, outcome), UNCHANGED root
    PROVE CancellationInv'
  BY DEF CancellationInv, CancellationTyped, CancellationShape, RunRow, CompletesRun,
         Cancellation!Moved, Cancellation!RunStates

LEMMA CancellationRequested ==
    ASSUME CancellationInv, NEW t \in Turn, Cancellation!RequestRootCancellation(t)
    PROVE CancellationInv'
  BY DEF CancellationInv, CancellationTyped, CancellationShape, RunRow, Cancellation!RequestRootCancellation,
         Cancellation!Moved, Cancellation!RunStates, Cancellation!RootStates

LEMMA CancellationReaped ==
    ASSUME CancellationInv, NEW t \in Turn, crun[t].state = "cancel_requested",
           crun' = [crun EXCEPT ![t] = Cancellation!Moved(@, "reaped")],
           UNCHANGED root \/ root' = [root EXCEPT ![t] = "cancelled"]
    PROVE CancellationInv'
  BY DEF CancellationInv, CancellationTyped, CancellationShape, RunRow,
         Cancellation!Moved, Cancellation!RunStates, Cancellation!RootStates

LEMMA CancellationClosed ==
    ASSUME CancellationInv, NEW t \in Turn, crun[t].state # "active", UNCHANGED crun,
           root' = [root EXCEPT ![t] = "cancelled"]
    PROVE CancellationInv'
  BY DEF CancellationInv, CancellationTyped, CancellationShape, RunRow, Cancellation!RootStates

(* Executions and leases.                                                   *)
LEMMA ExecutionsKept ==
    ASSUME ExecutionsInv, UNCHANGED <<exec, dispatched>>,
           lease' = lease \/ \E t \in Turn : lease' = [lease EXCEPT ![t] = None]
    PROVE ExecutionsInv'
  BY DEF ExecutionsInv, ExecutionsTyped, Owned, Active, ExecRecords

LEMMA ExecutionMoved ==
    ASSUME ExecutionsInv, NEW e \in Exec, Active(e), NEW pc \in ExecPcs \cup {"done"}, To(e, pc),
           lease' \in {lease, Released(e)}, UNCHANGED dispatched
    PROVE ExecutionsInv'
  BY SupervisorAssumption DEF ExecutionsInv, ExecutionsTyped, Owned, Active, ExecRecords, To, Released, ExecPcs

LEMMA ExecutionsDie ==
    ASSUME ExecutionsInv, NEW p \in Proc, Dies(p), UNCHANGED <<lease, dispatched>>
    PROVE ExecutionsInv'
  BY DEF ExecutionsInv, ExecutionsTyped, Owned, Active, ExecRecords, Dies, ExecPcs

LEMMA ExecutionSpent ==
    ASSUME ExecutionsInv, NEW e \in Exec, exec[e] = IdleExec, Spent(e), UNCHANGED <<lease, dispatched>>
    PROVE ExecutionsInv'
  BY SupervisorAssumption DEF ExecutionsInv, ExecutionsTyped, Owned, Active, ExecRecords, Spent, IdleExec, ExecPcs

(* Servers.                                                                 *)
LEMMA ServersKept == ASSUME ServersTyped, UNCHANGED <<recovery, proc, boot, fence, cascade>>
                     PROVE ServersTyped'
  BY DEF ServersTyped

LEMMA ServersDie ==
    ASSUME ServersTyped, NEW p \in Proc, Dies(p),
           recovery' = recovery \/ \E t \in Turn : recovery' = [recovery EXCEPT ![t].epoch = @ + 1]
    PROVE ServersTyped'
<1>1. NoBoot \in BootRecords
  BY DEF NoBoot, BootRecords
<1>2. boot' \in [Proc -> [Runtime -> BootRecords]]
  BY <1>1 DEF ServersTyped, Dies
<1>3. recovery' \in [Turn -> [epoch : Nat, disposition : {"active", "uncertain"}]]
  <2>1. CASE recovery' = recovery
    BY <2>1 DEF ServersTyped
  <2>2. ASSUME NEW t \in Turn, recovery' = [recovery EXCEPT ![t].epoch = @ + 1]
        PROVE recovery' \in [Turn -> [epoch : Nat, disposition : {"active", "uncertain"}]]
    <3>1. recovery[t] \in [epoch : Nat, disposition : {"active", "uncertain"}]
      BY DEF ServersTyped
    <3>2. [recovery[t] EXCEPT !.epoch = @ + 1] \in [epoch : Nat, disposition : {"active", "uncertain"}]
      BY <3>1
    <3> QED BY <2>2, <3>2 DEF ServersTyped
  <2> QED BY <2>1, <2>2
<1>4. proc' \in [Proc -> {"off", "booting", "serving", "exiting", "dead"}]
  BY DEF ServersTyped, Dies
<1>5. fence' \in [Proc -> [Turn -> Nat]] /\ cascade' \in [Proc -> [Turn -> BOOLEAN]]
  BY DEF ServersTyped, Dies
<1> QED BY <1>2, <1>3, <1>4, <1>5 DEF ServersTyped

LEMMA ServersStepped ==
    ASSUME ServersTyped, NEW q \in Proc, NEW rt \in Runtime, NEW phase, NEW runs, NEW roots, NEW cur,
           SetBoot(q, rt, phase, runs, roots, cur),
           [phase |-> phase, runs |-> runs, roots |-> roots, cur |-> cur] \in BootRecords,
           UNCHANGED <<recovery, proc, fence, cascade>>
    PROVE ServersTyped'
  BY DEF ServersTyped, SetBoot

-----------------------------------------------------------------------------
(* A step after which no execution is newly under way or newly at work.     *)
Calm ==
    /\ UNCHANGED dispatched
    /\ \A e \in Exec :
         /\ Active(e)' => Active(e) /\ exec'[e].turn = exec[e].turn /\ exec'[e].aborted = exec[e].aborted
         /\ Working(e)' => Working(e)

LEMMA CalmKept == ASSUME UNCHANGED <<exec, dispatched>> PROVE Calm
  BY DEF Calm, Active, Working

LEMMA CalmMoved ==
    ASSUME ExecutionsInv, NEW e \in Exec, Active(e), NEW pc \in ExecPcs \cup {"done"},
           pc \in WorkingPcs => Working(e), To(e, pc), UNCHANGED dispatched
    PROVE Calm
  BY DEF Calm, Active, Working, To, ExecutionsInv, ExecutionsTyped, ExecRecords

LEMMA CalmSpent ==
    ASSUME ExecutionsInv, NEW e \in Exec, Spent(e), UNCHANGED dispatched
    PROVE Calm
  BY DEF Calm, Active, Working, Spent, ExecutionsInv, ExecutionsTyped, ExecRecords, ExecPcs, WorkingPcs

LEMMA CalmDies ==
    ASSUME ExecutionsInv, NEW p \in Proc, Dies(p), UNCHANGED dispatched
    PROVE Calm
  BY DEF Calm, Active, Working, Dies, ExecutionsInv, ExecutionsTyped, ExecRecords, ExecPcs, WorkingPcs

LEMMA DriverKept ==
    ASSUME NEW t \in Turn, SoleDriver(t), UNCHANGED dispatched,
           \A e \in Exec : Working(e)' => Working(e) /\ exec'[e].turn = exec[e].turn,
           run'[t].state \in {"absent", "claimed"} => run[t].state \in {"absent", "claimed"}
    PROVE SoleDriver(t)'
  BY DEF SoleDriver

LEMMA AbortedKept ==
    ASSUME NEW e \in Exec, Aborted(e), Owned(e), \A t \in Turn : Asked(t) => Asked(t)',
           Active(e)' /\ exec'[e].aborted => Active(e) /\ exec[e].aborted /\ exec'[e].turn = exec[e].turn
    PROVE Aborted(e)'
  BY DEF Aborted, Asked, Owned

LEMMA CalmDriver ==
    ASSUME Calm, NEW t \in Turn, SoleDriver(t),
           run'[t].state \in {"absent", "claimed"} => run[t].state \in {"absent", "claimed"}
    PROVE SoleDriver(t)'
<1>1. \A e \in Exec : Working(e)' => Working(e) /\ exec'[e].turn = exec[e].turn
  BY DEF Calm, Active, Working, ExecPcs, WorkingPcs
<1> QED BY <1>1, DriverKept DEF Calm

LEMMA CalmAborted ==
    ASSUME Calm, NEW e \in Exec, Aborted(e), Owned(e), \A t \in Turn : Asked(t) => Asked(t)'
    PROVE Aborted(e)'
  BY AbortedKept DEF Calm

LEMMA SafeKept == ASSUME SafeInv, ExecutionsInv, Calm, UNCHANGED <<run, crun>> PROVE SafeInv'
<1>1. AtMostOnceDispatch' /\ OutcomeAgreesWithCancellation'
  BY DEF SafeInv, Calm, AtMostOnceDispatch, OutcomeAgreesWithCancellation
<1>2. ASSUME NEW e \in Exec PROVE Aborted(e)'
  BY CalmAborted DEF SafeInv, ExecutionsInv, Asked
<1>3. ASSUME NEW t \in Turn PROVE SoleDriver(t)'
  BY CalmDriver DEF SafeInv
<1> QED BY <1>1, <1>2, <1>3 DEF SafeInv

LEMMA SafeClaimed ==
    ASSUME SafeInv, RowsInv, ExecutionsInv, Calm, NEW t \in Turn, ClaimInDatabase(t), UNCHANGED crun
    PROVE SafeInv'
<1>1. \A u \in Turn : \/ run'[u] = run[u]
                      \/ run[u] = NoRow /\ run'[u] = Row("claimed", 0, "none")
  BY DEF RowsInv, RowsTyped, RowShape, ClaimInDatabase, Row, NoRow
<1>2. AtMostOnceDispatch'
  BY DEF SafeInv, Calm, AtMostOnceDispatch
<1>3. OutcomeAgreesWithCancellation'
  BY <1>1 DEF SafeInv, OutcomeAgreesWithCancellation, Row, NoRow
<1>4. ASSUME NEW e \in Exec PROVE Aborted(e)'
  BY CalmAborted DEF SafeInv, ExecutionsInv, Asked
<1>5. ASSUME NEW u \in Turn PROVE SoleDriver(u)'
  <2>1. run'[u].state \in {"absent", "claimed"} => run[u].state \in {"absent", "claimed"}
    BY <1>1 DEF Row, NoRow
  <2> QED BY <2>1, CalmDriver DEF SafeInv
<1> QED BY <1>2, <1>3, <1>4, <1>5 DEF SafeInv

LEMMA SafeReaped ==
    ASSUME SafeInv, CancellationInv, ExecutionsInv, Calm, NEW t \in Turn, crun[t].state = "cancel_requested",
           crun' = [crun EXCEPT ![t] = Cancellation!Moved(@, "reaped")], UNCHANGED run
    PROVE SafeInv'
<1>1. \A u \in Turn : \/ crun'[u].state = crun[u].state
                      \/ crun[u].state = "cancel_requested" /\ crun'[u].state = "reaped"
  BY DEF CancellationInv, CancellationTyped, Cancellation!Moved
<1>2. AtMostOnceDispatch'
  BY DEF SafeInv, Calm, AtMostOnceDispatch
<1>3. OutcomeAgreesWithCancellation'
  BY <1>1 DEF SafeInv, OutcomeAgreesWithCancellation
<1>4. ASSUME NEW e \in Exec PROVE Aborted(e)'
  BY CalmAborted, <1>1 DEF SafeInv, ExecutionsInv, Asked
<1>5. ASSUME NEW u \in Turn PROVE SoleDriver(u)'
  BY CalmDriver DEF SafeInv
<1> QED BY <1>2, <1>3, <1>4, <1>5 DEF SafeInv

LEMMA SafeDecided ==
    ASSUME SafeInv, RowsInv, CancellationInv, ExecutionsInv, Calm, NEW t \in Turn, NEW outcome \in Outcomes,
           run[t].state \in {"claimed", "running"}, Decided(t, outcome), CompletesRun(t, outcome),
           outcome = "cancelled" => Asked(t)
    PROVE SafeInv'
<1>1. run'[t] = Row("terminal", 2, outcome) /\ \A u \in Turn \ {t} : run'[u] = run[u]
  BY DEF RowsInv, RowsTyped, Decided
<1>2. run[t].outcome = "none"
  BY UndecidedRow
<1>3. \A u \in Turn \ {t} : crun'[u] = crun[u]
  BY DEF CancellationInv, CancellationTyped, CompletesRun
<1>4. \/ crun'[t] = crun[t] /\ outcome = "cancelled"
      \/ crun[t].state = "active" /\ crun'[t].state = "completed" /\ outcome # "cancelled"
  <2>1. CASE outcome = "cancelled"
    BY <2>1 DEF CompletesRun
  <2>2. CASE outcome # "cancelled"
    BY <2>2 DEF CancellationInv, CancellationTyped, CompletesRun, Cancellation!Moved
  <2> QED BY <2>1, <2>2
<1>5. AtMostOnceDispatch'
  BY DEF SafeInv, Calm, AtMostOnceDispatch
<1>6. OutcomeAgreesWithCancellation'
  BY <1>1, <1>2, <1>3, <1>4 DEF SafeInv, OutcomeAgreesWithCancellation, Row, Outcomes, Asked
<1>7. ASSUME NEW e \in Exec PROVE Aborted(e)'
  BY CalmAborted, <1>3, <1>4 DEF SafeInv, ExecutionsInv, Asked
<1>8. ASSUME NEW u \in Turn PROVE SoleDriver(u)'
  <2>1. run'[u].state \in {"absent", "claimed"} => run[u].state \in {"absent", "claimed"}
    BY <1>1 DEF Row
  <2> QED BY <2>1, CalmDriver DEF SafeInv
<1> QED BY <1>5, <1>6, <1>7, <1>8 DEF SafeInv

-----------------------------------------------------------------------------
(* Steps of the same kind.                                                  *)
LEMMA MovedStep ==
    ASSUME IInv, NEW e \in Exec, Active(e), NEW pc \in ExecPcs \cup {"done"},
           pc \in WorkingPcs => Working(e), To(e, pc), lease' \in {lease, Released(e)},
           UNCHANGED <<turn, run, root, crun, dispatched>>, ServersTyped'
    PROVE IInv'
<1>1. RowsInv' /\ CancellationInv'
  BY RowsKept, CancellationKept DEF IInv
<1>2. ExecutionsInv'
  BY ExecutionMoved DEF IInv
<1>3. SafeInv'
  BY CalmMoved, SafeKept DEF IInv
<1> QED BY <1>1, <1>2, <1>3 DEF IInv

LEMMA ServerStep ==
    ASSUME IInv, UNCHANGED <<turn, run, root, crun, exec, dispatched>>, ServersTyped',
           lease' = lease \/ \E t \in Turn : lease' = [lease EXCEPT ![t] = None]
    PROVE IInv'
<1>1. RowsInv' /\ CancellationInv'
  BY RowsKept, CancellationKept DEF IInv
<1>2. ExecutionsInv'
  BY ExecutionsKept DEF IInv
<1>3. SafeInv'
  BY CalmKept, SafeKept DEF IInv
<1> QED BY <1>1, <1>2, <1>3 DEF IInv

LEMMA DeathStep ==
    ASSUME IInv, NEW p \in Proc, Dies(p), UNCHANGED <<turn, run, root, crun, recovery, lease, dispatched>>
    PROVE IInv'
<1>1. RowsInv' /\ CancellationInv'
  BY RowsKept, CancellationKept DEF IInv
<1>2. ExecutionsInv' /\ ServersTyped'
  BY ExecutionsDie, ServersDie DEF IInv
<1>3. SafeInv'
  BY CalmDies, SafeKept DEF IInv
<1> QED BY <1>1, <1>2, <1>3 DEF IInv

LEMMA CloseStep ==
    ASSUME IInv, NEW t \in Turn, crun[t].state # "active", root' = [root EXCEPT ![t] = "cancelled"],
           UNCHANGED <<turn, run, crun, exec, dispatched>>, ServersTyped',
           lease' = lease \/ lease' = [lease EXCEPT ![t] = None]
    PROVE IInv'
<1>1. RowsInv' /\ CancellationInv'
  BY RowsKept, CancellationClosed DEF IInv
<1>2. ExecutionsInv'
  BY ExecutionsKept DEF IInv
<1>3. SafeInv'
  BY CalmKept, SafeKept DEF IInv
<1> QED BY <1>1, <1>2, <1>3 DEF IInv

LEMMA ReapStep ==
    ASSUME IInv, NEW t \in Turn, crun[t].state = "cancel_requested",
           crun' = [crun EXCEPT ![t] = Cancellation!Moved(@, "reaped")],
           root' = [root EXCEPT ![t] = "cancelled"],
           UNCHANGED <<turn, run, exec, dispatched>>, ServersTyped',
           lease' = lease \/ lease' = [lease EXCEPT ![t] = None]
    PROVE IInv'
<1>1. RowsInv' /\ CancellationInv'
  BY RowsKept, CancellationReaped DEF IInv
<1>2. ExecutionsInv'
  BY ExecutionsKept DEF IInv
<1>3. SafeInv'
  BY CalmKept, SafeReaped DEF IInv
<1> QED BY <1>1, <1>2, <1>3 DEF IInv

LEMMA LeaseRecoveredEffect ==
    ASSUME NEW t \in Turn, NEW ok \in BOOLEAN, LeaseRecovered(t, ok)
    PROVE lease' = lease \/ lease' = [lease EXCEPT ![t] = None]
  BY DEF LeaseRecovered

-----------------------------------------------------------------------------
(* Executions.                                                              *)
LEMMA AdoptStep ==
    ASSUME IInv, NEW e \in Exec, NEW t \in Turn, NEW p \in Proc, Adopt(e, t, p) PROVE IInv'
<1> DEFINE new == AdoptedExec(t, p, recovery[t].epoch + 1)
<1> USE DEF IInv
<1>1. RowsInv'
  BY RowsClaimed DEF Adopt, Arrives
<1>2. CancellationInv'
  BY DEF Adopt, CancellationInv, CancellationTyped, CancellationShape, RunRow,
         Cancellation!RunStates, Cancellation!RootStates
<1>3. new \in ExecRecords /\ new.turn = t /\ new.proc = p /\ new.pc = "persisting" /\ ~new.aborted
  <2>1. recovery[t].epoch \in Nat
    BY DEF ServersTyped
  <2> QED BY <2>1 DEF AdoptedExec, ExecRecords, ExecPcs
<1>4. exec' = [exec EXCEPT ![e] = new] /\ exec[e] = IdleExec
  BY DEF Adopt, Arrives
<1> HIDE DEF new
<1>5. ExecutionsInv'
  <2>1. exec' \in [Exec -> ExecRecords] /\ lease' \in [Turn -> Exec \cup {None}]
        /\ dispatched' \in [Turn -> SUBSET Exec]
    BY <1>3, <1>4 DEF ExecutionsInv, ExecutionsTyped, Adopt
  <2>2. ASSUME NEW u \in Turn, lease'[u] # None PROVE exec'[lease'[u]].turn = u
    <3>1. lease'[u] = lease[u] /\ lease[u] \in Exec /\ exec[lease[u]].turn = u
      BY <2>2 DEF ExecutionsInv, ExecutionsTyped, Adopt
    <3>2. lease[u] # e
      BY <3>1, <1>4, SupervisorAssumption DEF IdleExec
    <3> QED BY <3>1, <3>2, <1>4 DEF ExecutionsInv, ExecutionsTyped
  <2>3. ASSUME NEW f \in Exec PROVE Owned(f)'
    BY <1>3, <1>4 DEF ExecutionsInv, ExecutionsTyped, Owned, Active
  <2> QED BY <2>1, <2>2, <2>3 DEF ExecutionsInv, ExecutionsTyped
<1>6. ServersTyped'
  BY DEF Adopt, ClaimWriter, ServersTyped
<1>7. ASSUME NEW f \in Exec
      PROVE /\ Working(f)' => Working(f) /\ exec'[f].turn = exec[f].turn
            /\ Active(f)' /\ exec'[f].aborted
               => Active(f) /\ exec[f].aborted /\ exec'[f].turn = exec[f].turn
  BY <1>3, <1>4 DEF ExecutionsInv, ExecutionsTyped, Active, Working, WorkingPcs
<1>8. \A u \in Turn : Asked(u)' <=> Asked(u)
  BY DEF Adopt, Asked, CancellationInv, CancellationTyped
<1>9. AtMostOnceDispatch' /\ OutcomeAgreesWithCancellation'
  <2>1. \A u \in Turn : run'[u].outcome = run[u].outcome
    BY DEF Adopt, Arrives, ClaimInDatabase, RowsInv, RowsTyped, RowShape, Row, NoRow
  <2>2. \A u \in Turn : crun'[u].state = "completed" <=> crun[u].state = "completed"
    BY DEF Adopt, CancellationInv, CancellationTyped
  <2> QED BY <2>1, <2>2, <1>8 DEF SafeInv, AtMostOnceDispatch, OutcomeAgreesWithCancellation, Asked, Adopt
<1>10. ASSUME NEW f \in Exec PROVE Aborted(f)'
  <2>1. Aborted(f) /\ Owned(f)
    BY DEF SafeInv, ExecutionsInv
  <2> QED BY <1>7, <1>8, <2>1, AbortedKept
<1>11. ASSUME NEW u \in Turn PROVE SoleDriver(u)'
  <2>1. run'[u].state \in {"absent", "claimed"} => run[u].state \in {"absent", "claimed"}
    BY DEF Adopt, Arrives, ClaimInDatabase, RowsInv, RowsTyped, RowShape, Row, NoRow
  <2>2. dispatched' = dispatched
    BY DEF Adopt
  <2>3. SoleDriver(u)
    BY DEF SafeInv
  <2> QED BY <1>7, <2>1, <2>2, <2>3, DriverKept
<1>12. SafeInv'
  BY <1>9, <1>10, <1>11 DEF SafeInv
<1> QED BY <1>1, <1>2, <1>5, <1>6, <1>12

LEMMA SpentStep ==
    ASSUME IInv, NEW e \in Exec, NEW t \in Turn, exec[e] = IdleExec, ClaimInDatabase(t), Spent(e),
           UNCHANGED <<root, crun, lease, dispatched>>, ServersTyped'
    PROVE IInv'
<1>1. RowsInv' /\ CancellationInv'
  BY RowsClaimed, CancellationKept DEF IInv
<1>2. ExecutionsInv'
  BY ExecutionSpent DEF IInv
<1>3. SafeInv'
  BY CalmSpent, SafeClaimed DEF IInv
<1> QED BY <1>1, <1>2, <1>3 DEF IInv

LEMMA CrashInAdoptStep ==
    ASSUME IInv, NEW t \in Turn, NEW p \in Proc, CrashInAdopt(t, p) PROVE IInv'
<1> USE DEF IInv
<1>1. RowsInv'
  BY RowsClaimed DEF CrashInAdopt
<1>2. CancellationInv'
  BY DEF CrashInAdopt, ClaimWriter, CancellationInv, CancellationTyped, CancellationShape, RunRow,
         Cancellation!RootStates
<1>3. ExecutionsInv'
  BY ExecutionsDie DEF CrashInAdopt
<1>4. ServersTyped'
  BY ServersDie DEF CrashInAdopt, ClaimWriter
<1>5. SafeInv'
  BY CalmDies, SafeClaimed DEF CrashInAdopt
<1> QED BY <1>1, <1>2, <1>3, <1>4, <1>5

LEMMA AdmitStep == ASSUME IInv, NEW e \in Exec, AdmitResources(e) PROVE IInv'
<1> DEFINE t == exec[e].turn
           admitted(grant) == exec' = [exec EXCEPT ![e].pc = "admitted", ![e].lease = grant]
<1>1. Active(e) /\ t \in Turn
  BY DEF AdmitResources, Active, ExecPcs, IInv, ExecutionsInv, Owned
<1>2. ServersTyped'
  BY ServersKept DEF AdmitResources, IInv
<1>3. CASE To(e, "settling") /\ UNCHANGED lease
  BY <1>1, <1>2, <1>3, MovedStep DEF AdmitResources, ExecPcs, WorkingPcs
<1>4. ASSUME NEW grant \in Exec, admitted(grant), exec[grant].turn = t,
             lease' = lease \/ lease' = [lease EXCEPT ![t] = grant]
      PROVE IInv'
  <2>1. ExecutionsInv'
    BY <1>1, <1>4, SupervisorAssumption
       DEF AdmitResources, IInv, ExecutionsInv, ExecutionsTyped, ExecRecords, Owned, Active, ExecPcs
  <2>2. Calm
    BY <1>1, <1>4 DEF AdmitResources, Calm, IInv, ExecutionsInv, ExecutionsTyped, ExecRecords, Active,
                      Working, WorkingPcs
  <2>3. RowsInv' /\ CancellationInv' /\ SafeInv'
    BY <2>2, RowsKept, CancellationKept, SafeKept DEF AdmitResources, IInv
  <2> QED BY <1>2, <2>1, <2>3 DEF IInv
<1>5. lease[t] # None => lease[t] \in Exec /\ exec[lease[t]].turn = t
  BY <1>1 DEF IInv, ExecutionsInv, ExecutionsTyped
<1> QED BY <1>3, <1>4, <1>5 DEF AdmitResources

LEMMA StartStep == ASSUME IInv, NEW e \in Exec, Start(e) PROVE IInv'
<1> DEFINE t == exec[e].turn
<1>1. Active(e) /\ ~Working(e) /\ t \in Turn
  BY DEF Start, Active, Working, ExecPcs, WorkingPcs, IInv, ExecutionsInv, Owned
<1>2. RowsInv' /\ CancellationInv' /\ ServersTyped'
  BY <1>1, RowsStarted, CancellationKept, ServersKept DEF Start, IInv
<1>3. ExecutionsInv'
  BY <1>1, ExecutionMoved DEF Start, IInv, ExecPcs
<1>4. /\ run[t].state = "claimed" /\ run[t].outcome = "none"
      /\ run' = [run EXCEPT ![t] = Row("running", 1, "none")]
  <2>1. run[t].state = "claimed" /\ run' = [run EXCEPT ![t] = Row("running", 0 + 1, "none")]
    BY DEF Start, StartExecution, CanStart
  <2>2. run[t].outcome = "none"
    BY <1>1, <2>1, UndecidedRow DEF IInv
  <2> QED BY <2>1, <2>2
<1>5. \A f \in Exec : /\ exec'[f].turn = exec[f].turn
                      /\ exec'[f].aborted = exec[f].aborted
                      /\ Active(f)' => Active(f)
                      /\ Working(f)' => Working(f) \/ f = e
  BY <1>1 DEF Start, To, Active, Working, IInv, ExecutionsInv, ExecutionsTyped, ExecRecords
<1>6. AtMostOnceDispatch' /\ OutcomeAgreesWithCancellation'
  <2>1. \A u \in Turn : run'[u].outcome = run[u].outcome
    BY <1>1, <1>4 DEF Row, IInv, RowsInv, RowsTyped
  <2> QED BY <2>1 DEF Start, IInv, SafeInv, AtMostOnceDispatch, OutcomeAgreesWithCancellation
<1>7. ASSUME NEW f \in Exec PROVE Aborted(f)'
  <2>1. Aborted(f) /\ Owned(f)
    BY DEF IInv, SafeInv, ExecutionsInv
  <2>2. \A u \in Turn : Asked(u) => Asked(u)'
    BY DEF Start, Asked
  <2> QED BY <1>5, <2>1, <2>2, AbortedKept
<1>8. ASSUME NEW u \in Turn PROVE SoleDriver(u)'
  <2>1. SoleDriver(u) /\ dispatched' = dispatched
    BY DEF IInv, SafeInv, Start
  <2>2. CASE u = t
    <3>1. run'[t].state = "running"
      BY <1>1, <1>4 DEF Row, IInv, RowsInv, RowsTyped
    <3>2. dispatched[t] = {} /\ \A f \in Exec : Working(f) => exec[f].turn # t
      BY <1>4, <2>1, <2>2 DEF SoleDriver
    <3> QED BY <1>5, <2>1, <2>2, <3>1, <3>2 DEF SoleDriver
  <2>3. CASE u # t
    <3>1. run'[u] = run[u]
      BY <1>4, <2>3 DEF IInv, RowsInv, RowsTyped
    <3>2. \A f \in Exec : Working(f)' /\ exec'[f].turn = u => Working(f) /\ exec[f].turn = u
      BY <1>5, <2>3
    <3> QED BY <2>1, <3>1, <3>2 DEF SoleDriver
  <2> QED BY <2>2, <2>3
<1> QED BY <1>2, <1>3, <1>6, <1>7, <1>8 DEF IInv, SafeInv

LEMMA SupersededStep == ASSUME IInv, NEW e \in Exec, StartSuperseded(e) PROVE IInv'
<1> DEFINE t == exec[e].turn
           outcome == OutcomeOf(e, FALSE)
<1>1. Active(e) /\ t \in Turn
  BY DEF StartSuperseded, Active, ExecPcs, IInv, ExecutionsInv, Owned
<1>2. /\ outcome \in Outcomes /\ run[t].state = "claimed"
      /\ Decided(t, outcome) /\ CompletesRun(t, outcome)
  BY DEF StartSuperseded, OutcomeOf, Outcomes, CanStart, Decided
<1>3. outcome = "cancelled" => Asked(t)
  BY <1>1 DEF OutcomeOf, IInv, SafeInv, Aborted
<1>4. To(e, "settling") /\ lease' = Released(e) /\ UNCHANGED <<root, recovery, proc, boot, fence, cascade, dispatched>>
  BY DEF StartSuperseded
<1> HIDE DEF t, outcome
<1>5. RowsInv' /\ CancellationInv' /\ ServersTyped'
  BY <1>1, <1>2, <1>4, RowsDecided, CancellationCompleted, ServersKept DEF IInv
<1>6. ExecutionsInv'
  BY <1>1, <1>4, ExecutionMoved DEF IInv, ExecPcs
<1>7. Calm
  BY <1>1, <1>4, CalmMoved DEF IInv, ExecPcs, WorkingPcs
<1>8. SafeInv'
  BY <1>1, <1>2, <1>3, <1>7, SafeDecided DEF IInv
<1> QED BY <1>5, <1>6, <1>8 DEF IInv

LEMMA FinishesEffect ==
    ASSUME IInv, NEW e \in Exec, NEW ok \in BOOLEAN, Finishes(e, ok)
    PROVE \E outcome \in Outcomes :
            /\ Active(e) /\ Working(e) /\ exec[e].turn \in Turn
            /\ run[exec[e].turn].state = "running"
            /\ Decided(exec[e].turn, outcome) /\ CompletesRun(exec[e].turn, outcome)
            /\ outcome = "cancelled" <=> exec[e].aborted
            /\ outcome = "cancelled" => Asked(exec[e].turn)
<1> DEFINE outcome == OutcomeOf(e, ok)
<1>1. Active(e) /\ Working(e) /\ exec[e].turn \in Turn
  BY DEF Finishes, Active, Working, ExecPcs, WorkingPcs, IInv, ExecutionsInv, Owned
<1>2. outcome \in Outcomes /\ (outcome = "cancelled" <=> exec[e].aborted)
  <2>1. exec[e].aborted \in BOOLEAN
    BY DEF IInv, ExecutionsInv, ExecutionsTyped, ExecRecords
  <2> QED BY <2>1 DEF OutcomeOf, Outcomes
<1>3. /\ run[exec[e].turn].state = "running" /\ CompletesRun(exec[e].turn, outcome)
      /\ Decided(exec[e].turn, outcome)
  BY DEF Finishes, FinishExecution, CanFinish, Decided
<1>4. outcome = "cancelled" => Asked(exec[e].turn)
  BY <1>1, <1>2 DEF IInv, SafeInv, Aborted
<1> HIDE DEF outcome
<1> QED BY <1>1, <1>2, <1>3, <1>4

LEMMA FinishStep == ASSUME IInv, NEW e \in Exec, NEW ok \in BOOLEAN, Finish(e, ok) PROVE IInv'
<1> DEFINE t == exec[e].turn
<1>1. PICK outcome \in Outcomes :
        /\ Active(e) /\ Working(e) /\ t \in Turn /\ run[t].state = "running"
        /\ Decided(t, outcome) /\ CompletesRun(t, outcome)
        /\ outcome = "cancelled" => Asked(t)
  BY FinishesEffect DEF Finish
<1>2. To(e, "settling") /\ lease' = Released(e) /\ UNCHANGED <<root, recovery, proc, boot, fence, cascade, dispatched>>
  BY DEF Finish
<1>3. RowsInv' /\ CancellationInv' /\ ServersTyped'
  BY <1>1, <1>2, RowsDecided, CancellationCompleted, ServersKept DEF IInv
<1>4. ExecutionsInv'
  BY <1>1, <1>2, ExecutionMoved DEF IInv, ExecPcs
<1>5. Calm
  BY <1>1, <1>2, CalmMoved DEF IInv, ExecPcs, WorkingPcs
<1>6. SafeInv'
  BY <1>1, <1>5, SafeDecided DEF IInv
<1> QED BY <1>3, <1>4, <1>6 DEF IInv

LEMMA CrashAfterFinishStep ==
    ASSUME IInv, NEW e \in Exec, NEW ok \in BOOLEAN, CrashAfterFinish(e, ok) PROVE IInv'
<1> DEFINE t == exec[e].turn
<1>1. PICK outcome \in Outcomes :
        /\ Active(e) /\ t \in Turn /\ run[t].state = "running"
        /\ Decided(t, outcome) /\ CompletesRun(t, outcome)
        /\ outcome = "cancelled" => Asked(t)
  BY FinishesEffect DEF CrashAfterFinish
<1>2. /\ Dies(exec[e].proc) /\ exec[e].proc \in Proc
      /\ UNCHANGED <<root, recovery, lease, dispatched>>
  BY <1>1 DEF CrashAfterFinish, IInv, ExecutionsInv, Owned
<1>3. RowsInv' /\ CancellationInv' /\ ServersTyped' /\ ExecutionsInv'
  BY <1>1, <1>2, RowsDecided, CancellationCompleted, ServersDie, ExecutionsDie DEF IInv
<1>4. Calm
  BY <1>2, CalmDies DEF IInv
<1>5. SafeInv'
  BY <1>1, <1>4, SafeDecided DEF IInv
<1> QED BY <1>3, <1>5 DEF IInv

LEMMA DispatchStep == ASSUME IInv, NEW e \in Exec, Dispatch(e) PROVE IInv'
<1> DEFINE t == exec[e].turn
<1>1. Active(e) /\ Working(e) /\ t \in Turn
  BY DEF Dispatch, Active, Working, ExecPcs, WorkingPcs, IInv, ExecutionsInv, Owned
<1>2. RowsInv' /\ CancellationInv' /\ ServersTyped'
  BY RowsKept, CancellationKept, ServersKept DEF Dispatch, IInv
<1>3. /\ dispatched \in [Turn -> SUBSET Exec]
      /\ dispatched' = [dispatched EXCEPT ![t] = @ \cup {e}]
  BY DEF Dispatch, IInv, ExecutionsInv, ExecutionsTyped
<1>4. \A f \in Exec : /\ exec'[f].turn = exec[f].turn
                      /\ exec'[f].aborted = exec[f].aborted
                      /\ Active(f)' => Active(f)
                      /\ Working(f)' => Working(f)
  BY <1>1 DEF Dispatch, To, Active, Working, IInv, ExecutionsInv, ExecutionsTyped, ExecRecords
<1>5. ExecutionsInv'
  <2>1. dispatched' \in [Turn -> SUBSET Exec]
    BY <1>1, <1>3
  <2>2. exec' \in [Exec -> ExecRecords]
    BY DEF Dispatch, To, IInv, ExecutionsInv, ExecutionsTyped, ExecRecords, ExecPcs
  <2>3. lease' = lease
    BY DEF Dispatch
  <2>4. \A u \in Turn : lease[u] # None => lease[u] \in Exec /\ exec[lease[u]].turn = u
    BY DEF IInv, ExecutionsInv, ExecutionsTyped
  <2>5. ASSUME NEW f \in Exec PROVE Owned(f)'
    BY <1>1 DEF Dispatch, To, Owned, Active, IInv, ExecutionsInv, ExecutionsTyped, ExecRecords
  <2>6. lease' \in [Turn -> Exec \cup {None}]
    BY <2>3 DEF IInv, ExecutionsInv, ExecutionsTyped
  <2> QED BY <1>4, <2>1, <2>2, <2>3, <2>4, <2>5, <2>6 DEF ExecutionsInv, ExecutionsTyped
<1>6. SoleDriver(t) /\ \A d \in dispatched[t] : d = e
  BY <1>1 DEF IInv, SafeInv, SoleDriver
<1>7. AtMostOnceDispatch'
  BY <1>1, <1>3, <1>6 DEF IInv, SafeInv, AtMostOnceDispatch
<1>8. OutcomeAgreesWithCancellation'
  BY DEF Dispatch, IInv, SafeInv, OutcomeAgreesWithCancellation
<1>9. ASSUME NEW f \in Exec PROVE Aborted(f)'
  <2>1. Aborted(f) /\ Owned(f)
    BY DEF IInv, SafeInv, ExecutionsInv
  <2>2. \A u \in Turn : Asked(u) => Asked(u)'
    BY DEF Dispatch, Asked
  <2> QED BY <1>4, <2>1, <2>2, AbortedKept
<1>10. ASSUME NEW u \in Turn PROVE SoleDriver(u)'
  <2>1. SoleDriver(u) /\ run' = run
    BY DEF IInv, SafeInv, Dispatch
  <2>2. CASE u = t
    <3>1. dispatched'[t] = dispatched[t] \cup {e}
      BY <1>1, <1>3
    <3>2. run[t].state \notin {"absent", "claimed"}
      BY <1>1, <1>6 DEF SoleDriver
    <3>3. \A f \in Exec : Working(f)' /\ exec'[f].turn = t => f = e
      BY <1>1, <1>4, <1>6 DEF SoleDriver
    <3> QED BY <1>6, <2>1, <2>2, <3>1, <3>2, <3>3 DEF SoleDriver
  <2>3. CASE u # t
    <3>1. dispatched'[u] = dispatched[u]
      BY <1>3, <2>3
    <3>2. \A f \in Exec : Working(f)' /\ exec'[f].turn = u => Working(f) /\ exec[f].turn = u
      BY <1>4
    <3> QED BY <2>1, <3>1, <3>2 DEF SoleDriver
  <2> QED BY <2>2, <2>3
<1> QED BY <1>2, <1>5, <1>7, <1>8, <1>9, <1>10 DEF IInv, SafeInv

(* Cancel is the only step that aborts executions: it leaves them with a    *)
(* durable request.                                                         *)
LEMMA CancelStep == ASSUME IInv, NEW p \in Proc, NEW t \in Turn, Cancel(p, t) PROVE IInv'
<1>1. \A f \in Exec : /\ exec'[f].turn = exec[f].turn
                      /\ Active(f)' <=> Active(f)
                      /\ Working(f)' <=> Working(f)
                      /\ exec'[f].aborted => exec[f].aborted \/ exec[f].turn = t
  BY DEF Cancel, ActiveOn, Active, Working, IInv, ExecutionsInv, ExecutionsTyped, ExecRecords
<1>2. RowsInv' /\ ServersTyped'
  BY RowsKept DEF Cancel, IInv, ServersTyped
<1>3. CancellationInv'
  BY CancellationRequested, CancellationKept DEF Cancel, IInv
<1>4. ExecutionsInv'
  <2>1. exec' \in [Exec -> ExecRecords]
    <3>1. ASSUME NEW r \in ExecRecords PROVE [r EXCEPT !.aborted = TRUE] \in ExecRecords
      BY DEF ExecRecords
    <3> QED BY <3>1 DEF Cancel, IInv, ExecutionsInv, ExecutionsTyped
  <2>2. ASSUME NEW f \in Exec PROVE Owned(f)'
    BY <1>1 DEF Cancel, Owned, Active, IInv, ExecutionsInv, ExecutionsTyped, ExecRecords
  <2>3. \A u \in Turn : lease[u] # None => lease[u] \in Exec /\ exec[lease[u]].turn = u
    BY DEF IInv, ExecutionsInv, ExecutionsTyped
  <2>4. lease' \in [Turn -> Exec \cup {None}] /\ dispatched' \in [Turn -> SUBSET Exec] /\ lease' = lease
    BY DEF Cancel, IInv, ExecutionsInv, ExecutionsTyped
  <2> QED BY <1>1, <2>1, <2>2, <2>3, <2>4 DEF ExecutionsInv, ExecutionsTyped
<1>5. /\ Asked(t)'
      /\ \A u \in Turn : /\ Asked(u) => Asked(u)'
                         /\ \/ crun'[u].state = crun[u].state
                            \/ crun[u].state = "active" /\ crun'[u].state = "cancel_requested"
  <2>1. /\ crun[t].state \in {"active", "cancel_requested"}
        /\ crun[t].root = t
        /\ crun[t].state = "active" => root[t] = "active"
    <3>1. CancellationShape(t)
      BY DEF IInv, CancellationInv
    <3>2. crun[t].state \in {"active", "cancel_requested"}
      BY DEF Cancel
    <3> QED BY <3>1, <3>2 DEF CancellationShape, RunRow
  <2>2. CASE Cancellation!RequestRootCancellation(t)
    <3>1. \A u \in Turn : crun'[u] = IF crun[u].root = t /\ crun[u].state = "active"
                                   THEN Cancellation!Moved(crun[u], "cancel_requested") ELSE crun[u]
      BY <2>2 DEF Cancellation!RequestRootCancellation
    <3>2. ASSUME NEW u \in Turn
          PROVE crun'[u] = crun[u] \/ (crun[u].state = "active" /\ crun'[u].state = "cancel_requested")
      <4>1. CASE crun[u].root = t /\ crun[u].state = "active"
        <5>1. crun'[u] = Cancellation!Moved(crun[u], "cancel_requested")
          BY <3>1, <4>1
        <5> QED BY <4>1, <5>1 DEF Cancellation!Moved
      <4>2. CASE ~(crun[u].root = t /\ crun[u].state = "active")
        BY <3>1, <4>2
      <4> QED BY <4>1, <4>2
    <3>3. crun'[t].state = "cancel_requested"
      BY <2>1, <2>2, <3>1 DEF Cancellation!Moved, Cancellation!RequestRootCancellation
    <3> QED BY <3>2, <3>3 DEF Asked
  <2>3. CASE root[t] = "cancel_requested" /\ UNCHANGED <<root, crun>>
    <3>1. crun[t].state = "cancel_requested"
      BY <2>1, <2>3
    <3> QED BY <2>3, <3>1 DEF Asked
  <2> QED BY <2>2, <2>3 DEF Cancel
<1>6. AtMostOnceDispatch' /\ OutcomeAgreesWithCancellation'
  BY <1>5 DEF Cancel, IInv, SafeInv, AtMostOnceDispatch, OutcomeAgreesWithCancellation
<1>7. ASSUME NEW f \in Exec PROVE Aborted(f)'
  <2>1. Aborted(f) /\ Owned(f)
    BY DEF IInv, SafeInv, ExecutionsInv
  <2> QED BY <1>1, <1>5, <2>1 DEF Aborted, Owned, Asked
<1>8. ASSUME NEW u \in Turn PROVE SoleDriver(u)'
  BY <1>1, DriverKept DEF Cancel, IInv, SafeInv
<1> QED BY <1>2, <1>3, <1>4, <1>6, <1>7, <1>8 DEF IInv, SafeInv

LEMMA CascadeReapedStep ==
    ASSUME IInv, NEW p \in Proc, NEW t \in Turn, CascadeReaped(p, t) PROVE IInv'
<1>1. ServersTyped'
  BY DEF CascadeReaped, IInv, ServersTyped
<1>2. CASE crun[t].state = "cancel_requested" /\ crun[t].epoch = 1
  BY <1>1, <1>2, ReapStep, LeaseRecoveredEffect DEF CascadeReaped
<1>3. CASE ~(crun[t].state = "cancel_requested" /\ crun[t].epoch = 1)
  BY <1>1, <1>3, ServerStep DEF CascadeReaped
<1> QED BY <1>2, <1>3

LEMMA CrashInCascadeStep ==
    ASSUME IInv, NEW p \in Proc, NEW t \in Turn, CrashInCascade(p, t) PROVE IInv'
<1>1. RowsInv' /\ CancellationInv'
  BY RowsKept, CancellationReaped DEF CrashInCascade, IInv
<1>2. ExecutionsInv' /\ ServersTyped'
  BY ExecutionsDie, ServersDie DEF CrashInCascade, IInv
<1>3. SafeInv'
  BY CalmDies, SafeReaped DEF CrashInCascade, IInv
<1> QED BY <1>1, <1>2, <1>3 DEF IInv

-----------------------------------------------------------------------------
(* Startup.                                                                 *)
LEMMA BootRecord ==
    ASSUME NEW phase \in {"off", "list", "reconcile", "resume", "reap", "failed"},
           NEW runs \in SUBSET [turn : Turn, state : {"claimed", "running"}, epoch : Nat],
           NEW roots \in SUBSET Turn, NEW cur \in Turn \cup {None}, phase = "reap" <=> cur # None
    PROVE [phase |-> phase, runs |-> runs, roots |-> roots, cur |-> cur] \in BootRecords
  BY DEF BootRecords

LEMMA ResumedTyped ==
    ASSUME ServersTyped, NEW q \in Proc, NEW rt \in Runtime, NEW t, NEW ok \in BOOLEAN, Resumed(q, rt, t, ok),
           UNCHANGED <<recovery, proc, fence, cascade>>
    PROVE ServersTyped'
<1>1. boot[q][rt].roots \ {t} \in SUBSET Turn
  BY DEF ServersTyped, BootRecords
<1>2. CASE ok
  BY <1>1, <1>2, BootRecord, ServersStepped DEF Resumed
<1>3. CASE ~ok
  BY <1>3, BootRecord, ServersStepped DEF Resumed
<1> QED BY <1>2, <1>3

LEMMA BootStepKeeps == ASSUME IInv, NEW q \in Proc, BootStep(q) PROVE IInv'
<1> USE DEF IInv
<1>1. CASE Boot(q)
  <2>1. [NoBoot EXCEPT !.phase = "list"] \in BootRecords
    BY DEF NoBoot, BootRecords
  <2>2. ServersTyped'
    BY <1>1, <2>1 DEF Boot, ServersTyped
  <2> QED BY <1>1, <2>2, ServerStep DEF Boot
<1>2. CASE Listen(q)
  <2>1. NoBoot \in BootRecords
    BY DEF NoBoot, BootRecords
  <2>2. ServersTyped'
    BY <1>2, <2>1 DEF Listen, ServersTyped
  <2> QED BY <1>2, <2>2, ServerStep DEF Listen
<1>3. CASE StartupFails(q)
  BY <1>3, DeathStep DEF StartupFails
<1>4. ASSUME NEW rt \in Runtime, ListNonTerminalRuns(q, rt) PROVE IInv'
  <2> DEFINE listed == {[turn |-> t, state |-> run[t].state, epoch |-> recovery[t].epoch] :
                          t \in {u \in Turn : /\ RuntimeOf[u] = rt
                                              /\ run[u].state \notin {"absent", "terminal"}
                                              /\ crun[u].state # "absent"
                                              /\ recovery[u].disposition = "active"}}
  <2>1. listed \in SUBSET [turn : Turn, state : {"claimed", "running"}, epoch : Nat]
    BY DEF RowsInv, RowsTyped, RunRowStates, ServersTyped
  <2>2. SetBoot(q, rt, "reconcile", listed, {}, None)
    BY <1>4 DEF ListNonTerminalRuns
  <2> HIDE DEF listed
  <2>3. ServersTyped'
    BY <1>4, <2>1, <2>2, BootRecord, ServersStepped DEF ListNonTerminalRuns
  <2> QED BY <1>4, <2>3, ServerStep DEF ListNonTerminalRuns
<1>5. ASSUME NEW rt \in Runtime, NEW r \in boot[q][rt].runs, ReconcileRun(q, rt, r) PROVE IInv'
  <2>1. /\ r \in [turn : Turn, state : {"claimed", "running"}, epoch : Nat]
        /\ boot[q][rt].runs \ {r} \in SUBSET [turn : Turn, state : {"claimed", "running"}, epoch : Nat]
    BY DEF ServersTyped, BootRecords
  <2>2. SetBoot(q, rt, "reconcile", boot[q][rt].runs \ {r}, {}, None)
    BY <1>5 DEF ReconcileRun
  <2>3. boot' \in [Proc -> [Runtime -> BootRecords]]
    BY <2>1, <2>2, BootRecord DEF SetBoot, ServersTyped
  <2>4. recovery' \in [Turn -> [epoch : Nat, disposition : {"active", "uncertain"}]]
    BY <1>5, <2>1 DEF ReconcileRun, ServersTyped
  <2>5. ServersTyped'
    BY <1>5, <2>3, <2>4 DEF ReconcileRun, ServersTyped
  <2> QED BY <1>5, <2>5, ServerStep DEF ReconcileRun
<1>6. ASSUME NEW rt \in Runtime, ListPendingRoots(q, rt) PROVE IInv'
  <2>1. ServersTyped'
    BY <1>6, BootRecord, ServersStepped DEF ListPendingRoots
  <2> QED BY <1>6, <2>1, ServerStep DEF ListPendingRoots
<1>7. ASSUME NEW rt \in Runtime, ResumeReaped(q, rt) PROVE IInv'
  <2> DEFINE t == boot[q][rt].cur
  <2>1. ServersTyped'
    BY <1>7, ResumedTyped DEF ResumeReaped
  <2>2. t \in Turn
    BY <1>7 DEF ResumeReaped, ServersTyped, BootRecords
  <2>3. CASE crun[t].state = "cancel_requested"
    BY <1>7, <2>1, <2>2, <2>3, ReapStep, LeaseRecoveredEffect DEF ResumeReaped
  <2>4. CASE crun[t].state # "cancel_requested"
    BY <1>7, <2>1, <2>4, ServerStep DEF ResumeReaped
  <2> QED BY <2>3, <2>4
<1>8. ASSUME NEW rt \in Runtime, NEW t \in Turn, ResumeCancellation(q, rt, t) PROVE IInv'
  <2>1. boot[q][rt].roots \in SUBSET Turn
    BY DEF ServersTyped, BootRecords
  <2>2. CASE RuntimeOf[t] = rt
    <3>1. SetBoot(q, rt, "reap", {}, boot[q][rt].roots, t)
      BY <1>8, <2>2 DEF ResumeCancellation
    <3>2. [phase |-> "reap", runs |-> {}, roots |-> boot[q][rt].roots, cur |-> t] \in BootRecords
      BY <2>1, BootRecord, SupervisorAssumption
    <3>3. ServersTyped'
      BY <1>8, <3>1, <3>2, ServersStepped DEF ResumeCancellation
    <3> QED BY <1>8, <3>3, ServerStep DEF ResumeCancellation
  <2>3. CASE RuntimeOf[t] # rt
    BY <1>8, <2>3, ResumedTyped, ServerStep DEF ResumeCancellation
  <2> QED BY <2>2, <2>3
<1>9. ASSUME NEW rt \in Runtime, NEW t \in Turn, ResumeSettled(q, rt, t) PROVE IInv'
  <2>1. ServersTyped'
    BY <1>9, ResumedTyped DEF ResumeSettled
  <2>2. crun[t].state # "active"
    <3>1. CancellationShape(t) /\ root[t] = "cancel_requested"
      BY <1>9 DEF ResumeSettled, CancellationInv
    <3> QED BY <3>1 DEF CancellationShape, RunRow
  <2> QED BY <1>9, <2>1, <2>2, CloseStep, LeaseRecoveredEffect DEF ResumeSettled
<1>10. ASSUME NEW rt \in Runtime, NEW t \in Turn, ResumeClosed(q, rt, t) PROVE IInv'
  <2>1. ServersTyped'
    BY <1>10, ResumedTyped DEF ResumeClosed
  <2> QED BY <1>10, <2>1, ServerStep DEF ResumeClosed
<1> QED BY <1>1, <1>2, <1>3, <1>4, <1>5, <1>6, <1>7, <1>8, <1>9, <1>10 DEF BootStep

-----------------------------------------------------------------------------
LEMMA IInvInit == Init => IInv
<1> SUFFICES ASSUME Init PROVE IInv
  OBVIOUS
<1>1. RowsInv
  BY DEF Init, RepositoryInit, RowsInv, RowsTyped, RowShape, NoRow, Row, RunRowStates, TurnRowStates
<1>2. CancellationInv
  BY DEF Init, Cancellation!Init, Cancellation!NoRun, CancellationInv, CancellationTyped, CancellationShape,
         RunRow, Cancellation!RunStates, Cancellation!RootStates
<1>3. ExecutionsInv
  BY DEF Init, ExecutionsInv, ExecutionsTyped, ExecRecords, IdleExec, Owned, Active, ExecPcs
<1>4. ServersTyped
  BY DEF Init, ServersTyped, BootRecords, NoBoot
<1>5. SafeInv
  BY DEF Init, RepositoryInit, Cancellation!Init, Cancellation!NoRun, NoRow, Row, SafeInv, AtMostOnceDispatch,
         OutcomeAgreesWithCancellation, Aborted, Active, SoleDriver, Working, IdleExec, ExecPcs, WorkingPcs
<1> QED BY <1>1, <1>2, <1>3, <1>4, <1>5 DEF IInv

LEMMA ExecStepKeeps == ASSUME IInv, NEW e \in Exec, ExecStep(e) PROVE IInv'
<1>1. exec[e].pc \in ExecPcs => Active(e)
  BY DEF Active
<1>2. UNCHANGED <<recovery, proc, boot, fence, cascade>> => ServersTyped'
  BY ServersKept DEF IInv
<1>3. CASE PersistUserLine(e)
  BY <1>1, <1>2, <1>3, MovedStep DEF PersistUserLine, ExecPcs, WorkingPcs
<1>4. CASE AdmitResources(e)
  BY <1>4, AdmitStep
<1>5. CASE Start(e)
  BY <1>5, StartStep
<1>6. CASE StartSuperseded(e)
  BY <1>6, SupersededStep
<1>7. CASE StartFails(e)
  BY <1>1, <1>2, <1>7, MovedStep DEF StartFails, ExecPcs, WorkingPcs
<1>8. CASE Dispatch(e)
  BY <1>8, DispatchStep
<1>9. CASE NextRound(e)
  BY <1>1, <1>2, <1>9, MovedStep DEF NextRound, ExecPcs, WorkingPcs, Working
<1>10. ASSUME NEW ok \in BOOLEAN, Finish(e, ok) PROVE IInv'
  BY <1>10, FinishStep
<1>11. CASE FinishFenced(e)
  BY <1>1, <1>2, <1>11, MovedStep DEF FinishFenced, ExecPcs, WorkingPcs, Working
<1>12. CASE Settle(e)
  <2>1. ServersTyped'
    BY <1>12 DEF Settle, IInv, ServersTyped
  <2> QED BY <1>1, <1>12, <2>1, MovedStep DEF Settle, ExecPcs, WorkingPcs
<1> QED BY <1>3, <1>4, <1>5, <1>6, <1>7, <1>8, <1>9, <1>10, <1>11, <1>12 DEF ExecStep

LEMMA IInvStep == IInv /\ [Next]_vars => IInv'
<1> SUFFICES ASSUME IInv, [Next]_vars PROVE IInv'
  OBVIOUS
<1>1. ASSUME NEW e \in Exec, ExecStep(e) PROVE IInv'
  BY <1>1, ExecStepKeeps
<1>2. ASSUME NEW e \in Exec, NEW ok \in BOOLEAN, CrashAfterFinish(e, ok) PROVE IInv'
  BY <1>2, CrashAfterFinishStep
<1>3. ASSUME NEW p \in Proc, BootStep(p) PROVE IInv'
  BY <1>3, BootStepKeeps
<1>4. ASSUME NEW p \in Proc, ReleaseListener(p) PROVE IInv'
  <2>1. ServersTyped'
    BY <1>4 DEF ReleaseListener, IInv, ServersTyped
  <2> QED BY <1>4, <2>1, ServerStep DEF ReleaseListener
<1>5. ASSUME NEW p \in Proc, Crash(p) PROVE IInv'
  BY <1>5, DeathStep DEF Crash
<1>6. ASSUME NEW p \in Proc, NEW t \in Turn, Cancel(p, t) PROVE IInv'
  BY <1>6, CancelStep
<1>7. ASSUME NEW p \in Proc, NEW t \in Turn, CancelTooLate(p, t) PROVE IInv'
  <2>1. ServersTyped'
    BY <1>7, ServersKept DEF CancelTooLate, IInv
  <2> QED BY <1>7, <2>1, CloseStep, LeaseRecoveredEffect DEF CancelTooLate
<1>8. ASSUME NEW p \in Proc, NEW t \in Turn, CascadeReaped(p, t) PROVE IInv'
  BY <1>8, CascadeReapedStep
<1>9. ASSUME NEW p \in Proc, NEW t \in Turn, WatchdogTick(p, t) PROVE IInv'
  <2>1. ServersTyped'
    BY <1>9, ServersKept DEF WatchdogTick, IInv
  <2> QED BY <1>9, <2>1, ServerStep DEF WatchdogTick
<1>10. ASSUME NEW p \in Proc, NEW t \in Turn, CrashInCascade(p, t) PROVE IInv'
  BY <1>10, CrashInCascadeStep
<1>11. ASSUME NEW p \in Proc, NEW t \in Turn, CrashInAdopt(t, p) PROVE IInv'
  BY <1>11, CrashInAdoptStep
<1>12. ASSUME NEW e \in Exec, NEW t \in Turn, NEW p \in Proc, Adopt(e, t, p) PROVE IInv'
  BY <1>12, AdoptStep
<1>13. ASSUME NEW e \in Exec, NEW t \in Turn, NEW p \in Proc, AdoptBusy(e, t, p) PROVE IInv'
  <2>1. ServersTyped'
    BY <1>13, ServersKept DEF AdoptBusy, IInv
  <2> QED BY <1>13, <2>1, SpentStep DEF AdoptBusy, Arrives
<1>14. ASSUME NEW e \in Exec, NEW t \in Turn, NEW p \in Proc, AdoptRefused(e, t, p) PROVE IInv'
  <2>1. ServersTyped'
    BY <1>14 DEF AdoptRefused, ClaimWriter, IInv, ServersTyped
  <2> QED BY <1>14, <2>1, SpentStep DEF AdoptRefused, Arrives
<1>15. CASE UNCHANGED vars
  <2>1. ServersTyped'
    BY <1>15 DEF vars, IInv, ServersTyped
  <2> QED BY <1>15, <2>1, ServerStep DEF vars
<1> QED BY <1>1, <1>2, <1>3, <1>4, <1>5, <1>6, <1>7, <1>8, <1>9, <1>10, <1>11, <1>12, <1>13, <1>14, <1>15
        DEF Next

LEMMA Invariance == Spec => []IInv
  BY IInvInit, IInvStep, PTL DEF Spec

(* Whatever resends, cancellations, crashes, restarts and overlapping       *)
(* processes do, every row keeps to its column constraints and a lease      *)
(* names an execution of its own turn.                                      *)
THEOREM Typing == Spec => []TypeOK
<1>1. IInv => TypeOK
  BY DEF IInv, TypeOK, RowsInv, CancellationInv, ExecutionsInv
<1> QED BY <1>1, Invariance, PTL

(* A message is dispatched to providers by one execution at most, even with *)
(* two live processes on the same tables.                                   *)
THEOREM SingleDispatch == Spec => []AtMostOnceDispatch
<1>1. IInv => AtMostOnceDispatch
  BY DEF IInv, SafeInv
<1> QED BY <1>1, Invariance, PTL

(* The outcome on a turn's row and its cancellation row never disagree.     *)
THEOREM OutcomeAgreement == Spec => []OutcomeAgreesWithCancellation
<1>1. IInv => OutcomeAgreesWithCancellation
  BY DEF IInv, SafeInv
<1> QED BY <1>1, Invariance, PTL

-----------------------------------------------------------------------------
(* Implementation of the contract.  Every step commits, requests, decides   *)
(* or does not move the mapped variables.                                   *)
StutterStep == UNCHANGED <<Phase, Requested>>

LEMMA StutterKept == ASSUME UNCHANGED <<run, crun>> PROVE StutterStep
  BY DEF StutterStep, Phase, Requested

LEMMA StutterUnmoved ==
    ASSUME \A t \in Turn : run'[t] = run[t] \/ {run[t].state, run'[t].state} \subseteq {"absent", "claimed"},
           \A t \in Turn : Asked(t)' <=> Asked(t)
    PROVE StutterStep
<1>1. Phase' = Phase
  BY DEF Phase
<1>2. Requested' = Requested
  BY DEF Requested, Asked
<1> QED BY <1>1, <1>2 DEF StutterStep

LEMMA StutterClaimed ==
    ASSUME RowsInv, NEW t \in Turn, ClaimInDatabase(t), \A u \in Turn : Asked(u)' <=> Asked(u)
    PROVE StutterStep
<1>1. \A u \in Turn : \/ run'[u] = run[u]
                      \/ run[u] = NoRow /\ run'[u] = Row("claimed", 0, "none")
  BY DEF RowsInv, RowsTyped, RowShape, ClaimInDatabase, Row, NoRow
<1> QED BY <1>1, StutterUnmoved DEF Row, NoRow

LEMMA StutterReaped ==
    ASSUME CancellationInv, NEW t \in Turn, crun[t].state = "cancel_requested",
           crun' = [crun EXCEPT ![t] = Cancellation!Moved(@, "reaped")], UNCHANGED run
    PROVE StutterStep
<1>1. \A u \in Turn : Asked(u)' <=> Asked(u)
  BY DEF CancellationInv, CancellationTyped, Cancellation!Moved, Asked
<1> QED BY <1>1, StutterUnmoved

LEMMA CommitMove ==
    ASSUME RowsInv, NEW t \in Turn, StartExecution(t, 0, 0), UNCHANGED crun PROVE Contract!Commit(t)
<1>1. run[t].state = "claimed" /\ run' = [run EXCEPT ![t] = Row("running", 0 + 1, "none")]
  BY DEF StartExecution, CanStart
<1>2. Phase[t] = "open"
  BY <1>1 DEF Phase
<1>3. Phase' = [Phase EXCEPT ![t] = "committed"]
  BY <1>1 DEF Phase, Row, RowsInv, RowsTyped
<1>4. UNCHANGED Requested
  BY DEF Requested
<1> QED BY <1>2, <1>3, <1>4 DEF Contract!Commit

LEMMA DecideMove ==
    ASSUME RowsInv, CancellationInv, NEW t \in Turn, NEW outcome \in Outcomes,
           run[t].state \in {"claimed", "running"}, Decided(t, outcome), CompletesRun(t, outcome),
           outcome = "cancelled" => Asked(t), outcome = "succeeded" => run[t].state = "running"
    PROVE Contract!Decide(t, outcome)
<1>1. Phase[t] = IF run[t].state = "running" THEN "committed" ELSE "open"
  BY DEF Phase
<1>2. Phase' = [Phase EXCEPT ![t] = outcome]
  BY DEF Phase, Decided, Row, RowsInv, RowsTyped
<1>3. (outcome = "cancelled" <=> t \in Requested) /\ UNCHANGED Requested
  <2>1. CASE outcome = "cancelled"
    BY <2>1 DEF CompletesRun, Requested, Asked
  <2>2. CASE outcome # "cancelled"
    <3>1. crun[t].state = "active" /\ crun' = [crun EXCEPT ![t] = Cancellation!Moved(@, "completed")]
      BY <2>2 DEF CompletesRun
    <3>2. crun'[t].state = "completed" /\ \A u \in Turn \ {t} : crun'[u] = crun[u]
      BY <3>1 DEF Cancellation!Moved, CancellationInv, CancellationTyped
    <3>3. UNCHANGED Requested
      BY <3>1, <3>2 DEF Requested
    <3> QED BY <2>2, <3>1, <3>3 DEF Requested
  <2> QED BY <2>1, <2>2
<1> QED BY <1>1, <1>2, <1>3 DEF Contract!Decide, Contract!Decided

LEMMA RequestMove ==
    ASSUME IInv, NEW p \in Proc, NEW t \in Turn, Cancel(p, t) PROVE Contract!Request(t) \/ StutterStep
<1>1. UNCHANGED run
  BY DEF Cancel
<1>2. CASE UNCHANGED <<root, crun>>
  BY <1>1, <1>2, StutterKept
<1>3. CASE Cancellation!RequestRootCancellation(t)
  <2>1. CancellationShape(t) /\ RowShape(t) /\ crun[t].state \in {"active", "cancel_requested"}
    BY DEF IInv, CancellationInv, RowsInv, Cancel
  <2>2. ASSUME NEW u \in Turn, crun[u].root = t PROVE u = t
    <3>1. CancellationShape(u)
      BY DEF IInv, CancellationInv
    <3> QED BY <2>2, <3>1, SupervisorAssumption DEF CancellationShape, RunRow
  <2>3. \A u \in Turn : crun'[u] = IF crun[u].root = t /\ crun[u].state = "active"
                                 THEN Cancellation!Moved(crun[u], "cancel_requested") ELSE crun[u]
    BY <1>3 DEF Cancellation!RequestRootCancellation
  <2>4. CASE crun[t].state = "active"
    <3>1. Phase[t] \in {"open", "committed"}
      <4>1. run[t].outcome \notin Outcomes
        BY <2>4 DEF IInv, SafeInv, OutcomeAgreesWithCancellation, Outcomes
      <4>2. \A o \in Outcomes : run[t] # Row("terminal", 2, o)
        BY <4>1 DEF Row
      <4>3. run[t] \in {NoRow, Row("claimed", 0, "none"), Row("running", 1, "none")}
        BY <2>1, <4>2 DEF RowShape
      <4> QED BY <4>3 DEF Phase, Row, NoRow
    <3>2. crun'[t].state = "cancel_requested" /\ \A u \in Turn \ {t} : crun'[u] = crun[u]
      <4>1. crun[t].root = t
        BY <2>1, <2>4 DEF CancellationShape, RunRow
      <4>2. crun'[t] = Cancellation!Moved(crun[t], "cancel_requested")
        BY <2>3, <2>4, <4>1
      <4>3. \A u \in Turn \ {t} : crun'[u] = crun[u]
        BY <2>2, <2>3
      <4> QED BY <4>2, <4>3 DEF Cancellation!Moved
    <3>3. Requested' = Requested \cup {t}
      BY <3>2 DEF Requested
    <3>4. UNCHANGED Phase
      BY <1>1 DEF Phase
    <3> QED BY <3>1, <3>3, <3>4 DEF Contract!Request, Contract!Decided
  <2>5. CASE crun[t].state # "active"
    <3>1. \A u \in Turn : Asked(u)' <=> Asked(u)
      BY <2>2, <2>3, <2>5 DEF Asked
    <3> QED BY <1>1, <3>1, StutterUnmoved
  <2> QED BY <2>4, <2>5
<1> QED BY <1>2, <1>3 DEF Cancel

LEMMA ContractStep == IInv /\ [Next]_vars => [Contract!ContractNext]_(Contract!contractVars)
<1> SUFFICES ASSUME IInv, [Next]_vars PROVE Contract!ContractNext \/ StutterStep
  BY DEF StutterStep, Contract!contractVars
<1>1. ASSUME NEW e \in Exec, ExecStep(e) PROVE Contract!ContractNext \/ StutterStep
  <2> DEFINE t == exec[e].turn
  <2>1. exec[e].pc \in ExecPcs => t \in Turn
    BY DEF IInv, ExecutionsInv, Owned, Active
  <2>2. CASE Start(e)
    <3>1. Contract!Commit(t) /\ t \in Turn
      BY <2>1, <2>2, CommitMove DEF Start, IInv, ExecPcs
    <3> QED BY <3>1 DEF Contract!ContractNext
  <2>3. CASE StartSuperseded(e)
    <3>1. Active(e) /\ t \in Turn
      BY <2>1, <2>3 DEF StartSuperseded, Active, ExecPcs
    <3>2. PICK outcome \in Outcomes : outcome = OutcomeOf(e, FALSE)
      BY DEF OutcomeOf, Outcomes
    <3>3. run[t].state = "claimed" /\ Decided(t, outcome) /\ CompletesRun(t, outcome)
      BY <2>3, <3>2 DEF StartSuperseded, CanStart, Decided
    <3>4. outcome # "succeeded" /\ (outcome = "cancelled" => Asked(t))
      BY <3>1, <3>2 DEF OutcomeOf, IInv, SafeInv, Aborted
    <3>5. Contract!Decide(t, outcome)
      BY <3>1, <3>3, <3>4, DecideMove DEF IInv
    <3> QED BY <3>1, <3>5 DEF Contract!ContractNext, Contract!Decided, Outcomes
  <2>4. ASSUME NEW ok \in BOOLEAN, Finish(e, ok) PROVE Contract!ContractNext
    <3>1. PICK outcome \in Outcomes :
            /\ t \in Turn /\ run[t].state = "running"
            /\ Decided(t, outcome) /\ CompletesRun(t, outcome)
            /\ outcome = "cancelled" => Asked(t)
      BY <2>4, FinishesEffect DEF Finish
    <3>2. Contract!Decide(t, outcome)
      BY <3>1, DecideMove DEF IInv
    <3> QED BY <3>1, <3>2 DEF Contract!ContractNext, Contract!Decided, Outcomes
  <2>5. CASE PersistUserLine(e) \/ AdmitResources(e) \/ StartFails(e) \/ Dispatch(e) \/ NextRound(e)
             \/ FinishFenced(e) \/ Settle(e)
    BY <2>5, StutterKept DEF PersistUserLine, AdmitResources, StartFails, Dispatch, NextRound, FinishFenced, Settle
  <2> QED BY <1>1, <2>2, <2>3, <2>4, <2>5 DEF ExecStep
<1>2. ASSUME NEW e \in Exec, NEW ok \in BOOLEAN, CrashAfterFinish(e, ok) PROVE Contract!ContractNext
  <2> DEFINE t == exec[e].turn
  <2>1. PICK outcome \in Outcomes :
          /\ t \in Turn /\ run[t].state = "running"
          /\ Decided(t, outcome) /\ CompletesRun(t, outcome)
          /\ outcome = "cancelled" => Asked(t)
    BY <1>2, FinishesEffect DEF CrashAfterFinish
  <2>2. Contract!Decide(t, outcome)
    BY <2>1, DecideMove DEF IInv
  <2> QED BY <2>1, <2>2 DEF Contract!ContractNext, Contract!Decided, Outcomes
<1>3. ASSUME NEW q \in Proc, BootStep(q) PROVE StutterStep
  <2>1. CASE Boot(q) \/ Listen(q) \/ StartupFails(q)
    BY <2>1, StutterKept DEF Boot, Listen, StartupFails
  <2>2. ASSUME NEW rt \in Runtime,
               \/ ListNonTerminalRuns(q, rt) \/ ListPendingRoots(q, rt)
               \/ \E r \in boot[q][rt].runs : ReconcileRun(q, rt, r)
               \/ \E t \in Turn : ResumeCancellation(q, rt, t) \/ ResumeSettled(q, rt, t) \/ ResumeClosed(q, rt, t)
        PROVE StutterStep
    BY <2>2, StutterKept
       DEF ListNonTerminalRuns, ListPendingRoots, ReconcileRun, ResumeCancellation, ResumeSettled, ResumeClosed
  <2>3. ASSUME NEW rt \in Runtime, ResumeReaped(q, rt) PROVE StutterStep
    <3> DEFINE t == boot[q][rt].cur
    <3>1. t \in Turn
      BY <2>3 DEF ResumeReaped, IInv, ServersTyped, BootRecords
    <3>2. CASE crun[t].state = "cancel_requested"
      BY <2>3, <3>1, <3>2, StutterReaped DEF ResumeReaped, IInv
    <3>3. CASE crun[t].state # "cancel_requested"
      BY <2>3, <3>3, StutterKept DEF ResumeReaped
    <3> QED BY <3>2, <3>3
  <2> QED BY <1>3, <2>1, <2>2, <2>3 DEF BootStep
<1>4. ASSUME NEW p \in Proc, ReleaseListener(p) \/ Crash(p) PROVE StutterStep
  BY <1>4, StutterKept DEF ReleaseListener, Crash
<1>5. ASSUME NEW p \in Proc, NEW t \in Turn, Cancel(p, t) PROVE Contract!ContractNext \/ StutterStep
  BY <1>5, RequestMove DEF Contract!ContractNext
<1>6. ASSUME NEW p \in Proc, NEW t \in Turn, CancelTooLate(p, t) \/ WatchdogTick(p, t) PROVE StutterStep
  BY <1>6, StutterKept DEF CancelTooLate, WatchdogTick
<1>7. ASSUME NEW p \in Proc, NEW t \in Turn, CascadeReaped(p, t) PROVE StutterStep
  <2>1. CASE crun[t].state = "cancel_requested" /\ crun[t].epoch = 1
    BY <1>7, <2>1, StutterReaped DEF CascadeReaped, IInv
  <2>2. CASE ~(crun[t].state = "cancel_requested" /\ crun[t].epoch = 1)
    BY <1>7, <2>2, StutterKept DEF CascadeReaped
  <2> QED BY <2>1, <2>2
<1>8. ASSUME NEW p \in Proc, NEW t \in Turn, CrashInCascade(p, t) PROVE StutterStep
  BY <1>8, StutterReaped DEF CrashInCascade, IInv
<1>9. ASSUME NEW p \in Proc, NEW t \in Turn, CrashInAdopt(t, p) PROVE StutterStep
  <2>1. ClaimInDatabase(t) /\ UNCHANGED crun
    BY <1>9 DEF CrashInAdopt
  <2> QED BY <2>1, StutterClaimed DEF IInv, Asked
<1>10. ASSUME NEW e \in Exec, NEW t \in Turn, NEW p \in Proc,
              Adopt(e, t, p) \/ AdoptBusy(e, t, p) \/ AdoptRefused(e, t, p)
       PROVE StutterStep
  <2>1. ClaimInDatabase(t)
    BY <1>10 DEF Adopt, AdoptBusy, AdoptRefused, Arrives
  <2>2. \A u \in Turn : Asked(u)' <=> Asked(u)
    BY <1>10 DEF Adopt, AdoptBusy, AdoptRefused, Asked, IInv, CancellationInv, CancellationTyped
  <2> QED BY <2>1, <2>2, StutterClaimed DEF IInv
<1>11. CASE UNCHANGED vars
  BY <1>11, StutterKept DEF vars
<1> QED BY <1>1, <1>2, <1>3, <1>4, <1>5, <1>6, <1>7, <1>8, <1>9, <1>10, <1>11 DEF Next

(* The rows of a message implement the contract of TurnContract: committed  *)
(* once, decided once, and the decision respects a requested cancellation.  *)
THEOREM Implementation == Spec => ImplementsContract
<1>1. Init => Contract!ContractInit
  <2> SUFFICES ASSUME Init PROVE Contract!ContractInit
    OBVIOUS
  <2>1. Phase = [t \in Turn |-> "open"]
    BY DEF Init, RepositoryInit, NoRow, Row, Phase
  <2>2. Requested = {}
    BY DEF Init, Cancellation!Init, Cancellation!NoRun, Requested
  <2> QED BY <2>1, <2>2 DEF Contract!ContractInit
<1> QED BY <1>1, ContractStep, Invariance, PTL DEF Spec, ImplementsContract, Contract!ContractSpec

-----------------------------------------------------------------------------
(* The longer invariant.  Who is at work lives in a process that is bound,  *)
(* and has rows; a request closes its root; a starting process is known by  *)
(* its startup phases.                                                      *)
Bound == {"serving", "exiting"}
Early == {"persisting", "admitting", "admitted"}
Up(p) == proc[p] \notin {"off", "dead"}
Granted(e) == exec[e].pc \in {"admitted"} \cup WorkingPcs
Known(t) == SessionOf[t] # Fresh

LifeInv ==
    /\ \A e \in Exec : Active(e) => proc[exec[e].proc] \in Bound
    /\ \A e \in Exec : Active(e) => run[exec[e].turn].state # "absent" /\ crun[exec[e].turn].state # "absent"
    /\ \A e \in Exec : Working(e) => run[exec[e].turn].state = "running"
    /\ \A p \in Proc, t \in Turn : cascade[p][t] => proc[p] \in Bound
    /\ \A q \in Proc, rt \in Runtime : boot[q][rt].phase # "off" => proc[q] = "booting"
    /\ \A t \in Turn : Asked(t) => root[t] \in {"cancel_requested", "cancelled"}
    /\ \A t \in Turn : run[t].state = "running" => crun[t].state # "absent"
    /\ \A e \in Exec : exec[e].turn \in Turn => exec[e].proc \in Proc

(* A grant is of the execution's own process.  In a known session, a        *)
(* process has one execution of a turn, and the lease is the one granted.   *)
LeaseInv ==
    /\ \A e \in Exec : Granted(e) =>
         /\ exec[e].lease \in Exec /\ exec[exec[e].lease].turn = exec[e].turn
         /\ exec[exec[e].lease].proc = exec[e].proc
         /\ Known(exec[e].turn) => lease[exec[e].turn] = exec[e].lease
    /\ \A e, f \in Exec : (/\ Active(e) /\ Active(f) /\ exec[e].proc = exec[f].proc
                           /\ exec[e].turn = exec[f].turn /\ Known(exec[e].turn)) => e = f

(* What one process at a time adds.  Startup has a running run on its list, *)
(* or has dealt with it.                                                    *)
Listed(q, rt, t) ==
    \/ recovery[t].disposition = "uncertain"
    \/ boot[q][rt].phase \in {"list", "failed"}
    \/ /\ boot[q][rt].phase = "reconcile"
       /\ [turn |-> t, state |-> "running", epoch |-> recovery[t].epoch] \in boot[q][rt].runs

SingleInv == \A p, q \in Proc : Up(p) /\ Up(q) => p = q

RequestInv ==
    \A e \in Exec : Active(e) =>
       /\ crun[exec[e].turn].state # "reaped"
       /\ ~exec[e].aborted /\ run[exec[e].turn].state \in {"claimed", "running"}
          => crun[exec[e].turn].state = "active"

EarlyInv == \A e \in Exec : exec[e].pc \in Early /\ Known(exec[e].turn) => run[exec[e].turn].state = "claimed"

HolderInv ==
    \A t \in Turn : (Known(t) /\ lease[t] # None /\ proc[exec[lease[t]].proc] # "dead")
       => \E e \in Exec : exec[e].turn = t /\ Granted(e) /\ exec[e].lease = lease[t]

StartupInv ==
    \A q \in Proc, rt \in Runtime : boot[q][rt].phase # "off" =>
       /\ \A r \in boot[q][rt].runs : RuntimeOf[r.turn] = rt /\ r.state = run[r.turn].state
       /\ \A t \in Turn : RuntimeOf[t] = rt /\ run[t].state = "running" => Listed(q, rt, t)

AloneInv == SingleInv /\ RequestInv /\ EarlyInv /\ HolderInv /\ RunningHasDriver /\ StartupInv

LongInv == IInv /\ LifeInv /\ LeaseInv /\ (~MayOverlap => AloneInv)

-----------------------------------------------------------------------------
(* What a step may do to executions, rows, servers, requests and leases.    *)
ExecMoves ==
    \A e \in Exec :
       /\ exec[e].turn \in Turn => exec'[e].turn = exec[e].turn /\ exec'[e].proc = exec[e].proc
       /\ exec'[e].turn \in Turn => exec[e].turn \in Turn \/ \E t \in Turn, p \in Proc : Adopt(e, t, p)
       /\ exec[e].aborted => exec'[e].aborted
       /\ Active(e)' => Active(e) \/ \E t \in Turn, p \in Proc : Adopt(e, t, p)
       /\ exec'[e].pc \in Early => exec[e].pc \in Early \/ \E t \in Turn, p \in Proc : Adopt(e, t, p)
       /\ Granted(e)' => (Granted(e) /\ exec'[e].lease = exec[e].lease) \/ AdmitResources(e)
       /\ Working(e)' => Working(e) \/ Start(e)

RowMoves ==
    \A t \in Turn :
       \/ run'[t] = run[t]
       \/ /\ run[t].state = "absent" /\ run'[t].state = "claimed"
          /\ \E p \in Proc : proc[p] = "serving"
       \/ \E e \in Exec : exec[e].turn = t /\ Start(e) /\ run[t].state = "claimed" /\ run'[t].state = "running"
       \/ \E e \in Exec : /\ exec[e].turn = t /\ Active(e) /\ exec'[e].pc \in {"settling", "done"}
                          /\ run[t].state = "claimed" \/ (Working(e) /\ run[t].state = "running")
                          /\ run'[t].state = "terminal"

ServerMoves ==
    /\ \A p \in Proc : /\ proc[p] \in Bound => proc'[p] \in Bound \/ Dies(p)
                       /\ Up(p)' => Up(p) \/ Boot(p)
                       /\ proc[p] = "dead" => proc'[p] = "dead"
                       /\ proc'[p] = "serving" => proc[p] = "serving" \/ Listen(p)
    /\ \A q \in Proc, rt \in Runtime :
         boot'[q][rt].phase # "off" => \/ /\ boot[q][rt].phase # "off"
                                          /\ proc[q] = "booting" => proc'[q] = "booting"
                                       \/ Boot(q)
    /\ \A p \in Proc, t \in Turn : cascade'[p][t] => cascade[p][t] \/ proc'[p] = "serving"

RequestMoves ==
    \A t \in Turn :
       /\ crun'[t].state = "absent" => crun[t].state = "absent"
       /\ crun'[t].state = "reaped" => \/ crun[t].state = "reaped"
                                       \/ \E p \in Proc : cascade[p][t] /\ ActiveOn(p, t) = {}
                                       \/ \E q \in Proc, rt \in Runtime : boot[q][rt].phase = "reap"
       /\ Asked(t)' => Asked(t) \/ root'[t] = "cancel_requested"
       /\ root[t] \in {"cancel_requested", "cancelled"} => root'[t] \in {"cancel_requested", "cancelled"}
       /\ crun[t].state = "active" => \/ crun'[t].state = "active"
                                      \/ run'[t].state = "terminal"
                                      \/ \E p \in Proc : /\ proc[p] = "serving"
                                                         /\ \A e \in ActiveOn(p, t) : exec'[e].aborted

LeaseMoves ==
    /\ \A t \in Turn :
         \/ lease'[t] = lease[t]
         \/ lease[t] = None /\ \E e \in Exec : AdmitResources(e) /\ exec[e].turn = t /\ lease'[t] = e /\ Granted(e)'
                                               /\ exec'[e].lease = e
         \/ lease'[t] = None /\ \/ HeldByDead(t)
                                \/ \E e \in Exec : /\ Granted(e) /\ exec[e].turn = t /\ exec[e].lease = lease[t]
                                                   /\ ~Granted(e)'
    /\ \A e \in Exec : Granted(e) =>
         \/ Granted(e)'
         \/ lease[exec[e].turn] # exec[e].lease \/ lease'[exec[e].turn] = None
         \/ Dies(exec[e].proc)
         \/ exec[e].pc = "admitted" /\ run[exec[e].turn].state # "claimed"

-----------------------------------------------------------------------------
(* Executions.                                                              *)
LEMMA ExecFields ==
    ASSUME IInv
    PROVE  /\ exec \in [Exec -> ExecRecords]
           /\ \A e \in Exec : /\ exec[e].pc \in ExecPcs \cup {"idle", "done"}
                              /\ exec[e].aborted \in BOOLEAN
                              /\ exec[e].turn \in Turn \cup {None} /\ exec[e].proc \in Proc \cup {None}
                              /\ exec[e].lease \in Exec \cup {None}
           /\ \A e \in Exec : Active(e) => exec[e].turn \in Turn /\ exec[e].proc \in Proc
           /\ None \notin Turn /\ None \notin Exec /\ None \notin Proc
<1>1. exec \in [Exec -> ExecRecords] /\ \A e \in Exec : Owned(e)
  BY DEF IInv, ExecutionsInv, ExecutionsTyped
<1>2. \A e \in Exec : exec[e] \in ExecRecords
  BY <1>1
<1>3. QED
  BY <1>1, <1>2, SupervisorAssumption DEF ExecRecords, Owned

LEMMA PhasesOf ==
    ASSUME NEW e \in Exec
    PROVE  /\ Granted(e) => Active(e)
           /\ Working(e) => Granted(e) /\ exec[e].pc \notin Early
           /\ exec[e].pc \in Early => Active(e) /\ ~Working(e)
BY DEF Granted, Active, Working, Early, ExecPcs, WorkingPcs

LEMMA ExecKept == ASSUME UNCHANGED exec PROVE ExecMoves
BY DEF ExecMoves, Active, Granted, Working

LEMMA ExecTo ==
    ASSUME IInv, NEW x \in Exec, Active(x), NEW pc \in ExecPcs \cup {"done"}, To(x, pc), pc # "admitted",
           pc \in Early => exec[x].pc \in Early, pc \in WorkingPcs => Working(x) \/ Start(x)
    PROVE  /\ ExecMoves
           /\ exec'[x].pc = pc /\ exec'[x].lease = exec[x].lease
           /\ exec'[x].turn = exec[x].turn /\ exec'[x].proc = exec[x].proc
           /\ \A e \in Exec \ {x} : exec'[e] = exec[e]
<1>1. \A e \in Exec \ {x} : exec'[e] = exec[e]
  BY ExecFields DEF To
<1>2. exec'[x].pc = pc /\ /\ exec'[x].turn = exec[x].turn /\ exec'[x].proc = exec[x].proc
                          /\ exec'[x].aborted = exec[x].aborted /\ exec'[x].lease = exec[x].lease
  BY ExecFields DEF To, ExecRecords
<1>3. pc \in {"admitted"} \cup WorkingPcs => Granted(x)
  BY DEF Granted, Working, Start
<1>4. QED
  BY <1>1, <1>2, <1>3 DEF ExecMoves, Active, Granted, Working

LEMMA ExecDies ==
    ASSUME IInv, NEW p \in Proc, Dies(p)
    PROVE  /\ ExecMoves
           /\ \A e \in Exec : exec'[e].pc = exec[e].pc \/ (exec[e].proc = p /\ exec'[e].pc = "done")
           /\ \A e \in Exec : Active(e) /\ exec[e].proc = p => ~Active(e)' /\ exec'[e].pc = "done"
<1>1. \A e \in Exec : /\ exec'[e].turn = exec[e].turn /\ exec'[e].proc = exec[e].proc
                      /\ exec'[e].aborted = exec[e].aborted /\ exec'[e].lease = exec[e].lease
                      /\ exec'[e].pc = IF exec[e].proc = p /\ Active(e) THEN "done" ELSE exec[e].pc
  BY ExecFields DEF Dies, ExecRecords
<1>2. QED
  BY <1>1 DEF ExecMoves, Active, Granted, Working, Early, ExecPcs, WorkingPcs

LEMMA ExecSpent ==
    ASSUME IInv, NEW x \in Exec, exec[x] = IdleExec, Spent(x)
    PROVE  ExecMoves
<1>1. \A e \in Exec \ {x} : exec'[e] = exec[e]
  BY ExecFields DEF Spent
<1>2. exec'[x].pc = "done" /\ exec[x].turn = None /\ ~exec[x].aborted /\ exec'[x].turn = None
  BY ExecFields DEF Spent, IdleExec, ExecRecords
<1>3. QED
  BY <1>1, <1>2, ExecFields DEF ExecMoves, Active, Granted, Working, Early, ExecPcs, WorkingPcs

LEMMA ExecAdopts ==
    ASSUME IInv, NEW x \in Exec, NEW t \in Turn, NEW p \in Proc, Adopt(x, t, p)
    PROVE  /\ ExecMoves
           /\ exec'[x].pc = "persisting" /\ exec'[x].turn = t /\ exec'[x].proc = p /\ ~exec'[x].aborted
           /\ exec[x] = IdleExec /\ ~Active(x) /\ \A e \in Exec \ {x} : exec'[e] = exec[e]
<1>1. exec' = [exec EXCEPT ![x] = AdoptedExec(t, p, recovery[t].epoch + 1)] /\ exec[x] = IdleExec
  BY DEF Adopt, Arrives
<1>2. \A e \in Exec \ {x} : exec'[e] = exec[e]
  BY <1>1, ExecFields
<1>3. exec'[x].pc = "persisting" /\ exec'[x].turn = t /\ exec'[x].proc = p /\ ~exec'[x].aborted
  BY <1>1, ExecFields DEF AdoptedExec
<1>4. exec[x].turn = None /\ ~exec[x].aborted /\ ~Active(x)
  BY <1>1 DEF IdleExec, Active, ExecPcs
<1>5. QED
  BY <1>1, <1>2, <1>3, <1>4, ExecFields DEF ExecMoves, Active, Granted, Working, Early, WorkingPcs

LEMMA ExecAborts ==
    ASSUME IInv, NEW p \in Proc, NEW t \in Turn, Cancel(p, t)
    PROVE  /\ ExecMoves
           /\ \A e \in Exec : exec'[e].pc = exec[e].pc /\ exec'[e].lease = exec[e].lease
           /\ \A e \in ActiveOn(p, t) : exec'[e].aborted
<1>1. \A e \in Exec : /\ exec'[e].turn = exec[e].turn /\ exec'[e].proc = exec[e].proc
                      /\ exec'[e].pc = exec[e].pc /\ exec'[e].lease = exec[e].lease
                      /\ exec'[e].aborted = (exec[e].aborted \/ e \in ActiveOn(p, t))
  BY ExecFields DEF Cancel, ExecRecords
<1>2. QED
  BY <1>1 DEF ExecMoves, Active, Granted, Working, ActiveOn

LEMMA ExecAdmitted ==
    ASSUME IInv, NEW x \in Exec, AdmitResources(x)
    PROVE  /\ ExecMoves /\ ~Granted(x) /\ exec[x].turn \in Turn /\ exec[x].proc \in Proc
           /\ \A e \in Exec \ {x} : exec'[e] = exec[e]
           /\ exec'[x].turn = exec[x].turn /\ exec'[x].proc = exec[x].proc
           /\ \/ /\ exec'[x].pc = "admitted" /\ exec'[x].lease = x
                 /\ lease[exec[x].turn] = None /\ lease' = [lease EXCEPT ![exec[x].turn] = x]
              \/ /\ exec'[x].pc = "admitted" /\ exec'[x].lease = lease[exec[x].turn] /\ lease' = lease
                 /\ lease[exec[x].turn] # None /\ exec[lease[exec[x].turn]].proc = exec[x].proc
              \/ exec'[x].pc = "settling" /\ lease' = lease
<1>1. Active(x) /\ exec[x].turn \in Turn /\ exec[x].proc \in Proc /\ ~Granted(x) /\ exec[x].pc \in Early
  BY ExecFields DEF AdmitResources, Active, Granted, ExecPcs, WorkingPcs, Early
<1>2. CASE To(x, "settling") /\ UNCHANGED lease
  BY <1>1, <1>2, ExecTo DEF ExecPcs, Early, WorkingPcs
<1>3. ASSUME NEW g, exec' = [exec EXCEPT ![x].pc = "admitted", ![x].lease = g]
      PROVE  /\ \A e \in Exec \ {x} : exec'[e] = exec[e]
             /\ exec'[x].pc = "admitted" /\ exec'[x].lease = g
             /\ exec'[x].turn = exec[x].turn /\ exec'[x].proc = exec[x].proc /\ exec'[x].aborted = exec[x].aborted
  BY <1>3, ExecFields DEF ExecRecords
<1>4. ASSUME NEW g, exec' = [exec EXCEPT ![x].pc = "admitted", ![x].lease = g]
      PROVE  ExecMoves
  BY <1>1, <1>3, <1>4 DEF ExecMoves, Active, Granted, Working, Early, ExecPcs, WorkingPcs
<1>5. QED
  BY <1>1, <1>2, <1>3, <1>4 DEF AdmitResources

LEMMA ExecStepMoves == ASSUME IInv, NEW e \in Exec, ExecStep(e) PROVE ExecMoves
<1>1. exec[e].pc \in ExecPcs => Active(e)
  BY DEF Active
<1>2. CASE PersistUserLine(e) \/ StartFails(e) \/ Settle(e) \/ FinishFenced(e) \/ StartSuperseded(e)
  <2>1. \E pc \in {"admitting", "settling", "done"} : To(e, pc) /\ (pc = "admitting" => exec[e].pc = "persisting")
    BY <1>2 DEF PersistUserLine, StartFails, Settle, FinishFenced, StartSuperseded
  <2>2. Active(e)
    BY <1>1, <1>2 DEF PersistUserLine, StartFails, Settle, FinishFenced, StartSuperseded, Working, WorkingPcs, ExecPcs
  <2>3. QED
    BY <2>1, <2>2, ExecTo DEF ExecPcs, Early, WorkingPcs
<1>3. CASE \E ok \in BOOLEAN : Finish(e, ok)
  <2>1. To(e, "settling") /\ Active(e)
    BY <1>1, <1>3 DEF Finish, Finishes, Working, WorkingPcs, ExecPcs
  <2>2. QED
    BY <2>1, ExecTo DEF ExecPcs, Early, WorkingPcs
<1>4. CASE Start(e) \/ Dispatch(e) \/ NextRound(e)
  <2>1. Active(e) /\ (Working(e) \/ Start(e)) /\ \E pc \in WorkingPcs : To(e, pc)
    BY <1>1, <1>4 DEF Start, Dispatch, NextRound, Working, WorkingPcs, ExecPcs
  <2>2. QED
    BY <2>1, ExecTo DEF ExecPcs, Early, WorkingPcs
<1>5. CASE AdmitResources(e)
  BY <1>5, ExecAdmitted
<1>6. QED
  BY <1>2, <1>3, <1>4, <1>5 DEF ExecStep

(* The steps of startup and of the environment, apart from deaths.          *)
LEMMA BootStepEffect ==
    ASSUME NEW q \in Proc, BootStep(q)
    PROVE  \/ StartupFails(q)
           \/ /\ UNCHANGED <<turn, run, exec, fence, cascade, dispatched>>
              /\ \/ Boot(q) /\ UNCHANGED <<root, crun, recovery, lease>>
                 \/ Listen(q) /\ UNCHANGED <<root, crun, recovery, lease>>
                 \/ /\ proc' = proc
                    /\ \E rt \in Runtime : \E b : boot' = [boot EXCEPT ![q][rt] = b] /\ boot[q][rt].phase # "off"
<1> DEFINE Still == UNCHANGED <<turn, run, exec, fence, cascade, dispatched>>
           Moves(rt) == /\ proc' = proc /\ boot[q][rt].phase # "off"
                        /\ \E b : boot' = [boot EXCEPT ![q][rt] = b]
<1>1. ASSUME NEW rt \in Runtime, ListNonTerminalRuns(q, rt) PROVE Still /\ Moves(rt)
  BY <1>1 DEF ListNonTerminalRuns, SetBoot
<1>2. ASSUME NEW rt \in Runtime, NEW r \in boot[q][rt].runs, ReconcileRun(q, rt, r) PROVE Still /\ Moves(rt)
  BY <1>2 DEF ReconcileRun, SetBoot
<1>3. ASSUME NEW rt \in Runtime, ListPendingRoots(q, rt) PROVE Still /\ Moves(rt)
  BY <1>3 DEF ListPendingRoots, SetBoot
<1>4. ASSUME NEW rt \in Runtime, NEW t, NEW ok, Resumed(q, rt, t, ok)
      PROVE  \E b : boot' = [boot EXCEPT ![q][rt] = b]
  BY <1>4 DEF Resumed, SetBoot
<1>5. ASSUME NEW rt \in Runtime, ResumeReaped(q, rt) PROVE Still /\ Moves(rt)
  <2>1. boot[q][rt].phase = "reap" /\ proc' = proc /\ Still
    BY <1>5 DEF ResumeReaped
  <2>2. \E t, ok : Resumed(q, rt, t, ok)
    BY <1>5 DEF ResumeReaped
  <2>3. QED
    BY <2>1, <2>2, <1>4
<1>6. ASSUME NEW rt \in Runtime, NEW t \in Turn,
             ResumeCancellation(q, rt, t) \/ ResumeSettled(q, rt, t) \/ ResumeClosed(q, rt, t)
      PROVE  Still /\ Moves(rt)
  <2>1. boot[q][rt].phase = "resume" /\ proc' = proc /\ Still
    BY <1>6 DEF ResumeCancellation, ResumeSettled, ResumeClosed, Resuming
  <2>2. CASE ResumeCancellation(q, rt, t)
    BY <2>1, <2>2, <1>4 DEF ResumeCancellation, SetBoot
  <2>3. CASE ResumeSettled(q, rt, t) \/ ResumeClosed(q, rt, t)
    <3>1. \E u, ok : Resumed(q, rt, u, ok)
      BY <2>3 DEF ResumeSettled, ResumeClosed
    <3>2. QED
      BY <2>1, <3>1, <1>4
  <2>4. QED
    BY <1>6, <2>2, <2>3
<1>7. CASE Boot(q)
  BY <1>7 DEF Boot
<1>8. CASE Listen(q)
  BY <1>8 DEF Listen
<1> HIDE DEF Still, Moves
<1>9. ASSUME NEW rt \in Runtime, Still, Moves(rt)
      PROVE  /\ UNCHANGED <<turn, run, exec, fence, cascade, dispatched>> /\ proc' = proc
             /\ \E s \in Runtime : \E b : boot' = [boot EXCEPT ![q][s] = b] /\ boot[q][s].phase # "off"
  BY <1>9 DEF Still, Moves
<1>10. QED
  BY <1>1, <1>2, <1>3, <1>5, <1>6, <1>7, <1>8, <1>9 DEF BootStep

LEMMA ExecMovesStep == IInv /\ [Next]_vars => ExecMoves
<1> SUFFICES ASSUME IInv, [Next]_vars PROVE ExecMoves
  OBVIOUS
<1>1. ASSUME NEW e \in Exec, ExecStep(e) PROVE ExecMoves
  BY <1>1, ExecStepMoves
<1>2. ASSUME NEW e \in Exec, NEW ok \in BOOLEAN, CrashAfterFinish(e, ok) PROVE ExecMoves
  <2>1. exec[e].proc \in Proc /\ Dies(exec[e].proc)
    BY <1>2, FinishesEffect, ExecFields DEF CrashAfterFinish
  <2>2. QED
    BY <2>1, ExecDies
<1>3. ASSUME NEW p \in Proc, BootStep(p) \/ ReleaseListener(p) \/ Crash(p) PROVE ExecMoves
  BY <1>3, BootStepEffect, ExecKept, ExecDies DEF ReleaseListener, Crash, StartupFails
<1>4. ASSUME NEW p \in Proc, NEW t \in Turn, Cancel(p, t) PROVE ExecMoves
  BY <1>4, ExecAborts
<1>5. ASSUME NEW p \in Proc, NEW t \in Turn,
             \/ CancelTooLate(p, t) \/ CascadeReaped(p, t) \/ WatchdogTick(p, t)
             \/ CrashInCascade(p, t) \/ CrashInAdopt(t, p)
      PROVE  ExecMoves
  BY <1>5, ExecKept, ExecDies DEF CancelTooLate, CascadeReaped, WatchdogTick, CrashInCascade, CrashInAdopt
<1>6. ASSUME NEW e \in Exec, NEW t \in Turn, NEW p \in Proc,
             Adopt(e, t, p) \/ AdoptBusy(e, t, p) \/ AdoptRefused(e, t, p)
      PROVE  ExecMoves
  BY <1>6, ExecAdopts, ExecSpent DEF AdoptBusy, AdoptRefused, Arrives
<1>7. CASE UNCHANGED vars
  BY <1>7, ExecKept DEF vars
<1>8. QED
  BY <1>1, <1>2, <1>3, <1>4, <1>5, <1>6, <1>7 DEF Next


-----------------------------------------------------------------------------
(* Rows.                                                                    *)
LEMMA RowFields ==
    ASSUME IInv, NEW t \in Turn
    PROVE  /\ run \in [Turn -> [state : RunRowStates, epoch : 0 .. 2, outcome : Outcomes \cup {"none"}]]
           /\ turn \in [Turn -> [state : TurnRowStates, epoch : 0 .. 2, outcome : Outcomes \cup {"none"}]]
           /\ run[t].state \in RunRowStates
           /\ run[t].state = "absent" <=> turn[t].state = "absent"
           /\ run[t].state = "running" => CanFinish(t, 1, 1)
           /\ run[t].state = "claimed" => run[t].outcome = "none"
           /\ run[t].state = "running" => run[t].outcome = "none"
           /\ run[t].state = "absent" => run[t].outcome = "none"
<1>1. RowShape(t) /\ RowsTyped
  BY DEF IInv, RowsInv
<1>2. CASE run[t] = NoRow /\ turn[t] = NoRow
  BY <1>1, <1>2 DEF RowsTyped, NoRow, Row, RunRowStates
<1>3. CASE run[t] = Row("claimed", 0, "none") /\ turn[t] = Row("accepted", 0, "none")
  BY <1>1, <1>3 DEF RowsTyped, Row, RunRowStates
<1>4. CASE run[t] = Row("running", 1, "none") /\ turn[t] = run[t]
  BY <1>1, <1>4 DEF RowsTyped, Row, RunRowStates, CanFinish
<1>5. ASSUME NEW o \in Outcomes, run[t] = Row("terminal", 2, o) /\ turn[t] = run[t]
      PROVE  /\ run[t].state = "terminal" /\ turn[t].state = "terminal"
  BY <1>5 DEF Row
<1>6. QED
  BY <1>1, <1>2, <1>3, <1>4, <1>5 DEF RowShape, RowsTyped, RunRowStates

LEMMA RowsClaim ==
    ASSUME IInv, NEW u \in Turn, NEW p \in Proc, proc[p] = "serving", ClaimInDatabase(u)
    PROVE  /\ RowMoves
           /\ run'[u].state = (IF run[u].state = "absent" THEN "claimed" ELSE run[u].state)
<1>1. CASE turn[u].state = "absent"
  <2>1. run' = [run EXCEPT ![u] = Row("claimed", 0, "none")] /\ run[u].state = "absent"
    BY <1>1, RowFields DEF ClaimInDatabase
  <2>2. run'[u].state = "claimed" /\ \A t \in Turn \ {u} : run'[t] = run[t]
    BY <2>1, RowFields DEF Row
  <2>3. QED
    BY <2>1, <2>2 DEF RowMoves
<1>2. CASE turn[u].state # "absent"
  BY <1>2, RowFields DEF ClaimInDatabase, RowMoves
<1>3. QED
  BY <1>1, <1>2

LEMMA RowsStart ==
    ASSUME IInv, NEW e \in Exec, Start(e)
    PROVE  /\ RowMoves /\ run[exec[e].turn].state = "claimed" /\ run'[exec[e].turn].state = "running"
           /\ Active(e) /\ exec[e].pc = "admitted" /\ exec'[e].pc = "probing"
<1>1. Active(e) /\ exec[e].turn \in Turn /\ To(e, "probing") /\ exec[e].pc = "admitted"
  BY ExecFields DEF Start, Active, ExecPcs
<1>2. /\ run' = [run EXCEPT ![exec[e].turn] = Row("running", 1, "none")]
      /\ run[exec[e].turn].state = "claimed"
  BY DEF Start, StartExecution, CanStart
<1>3. run'[exec[e].turn].state = "running" /\ \A t \in Turn \ {exec[e].turn} : run'[t] = run[t]
  BY <1>1, <1>2, RowFields DEF Row
<1>4. exec'[e].pc = "probing"
  BY <1>1, ExecFields DEF To, ExecRecords
<1>5. RowMoves
  BY <1>2, <1>3 DEF RowMoves
<1>6. QED
  BY <1>1, <1>2, <1>3, <1>4, <1>5

LEMMA RowsDecide ==
    ASSUME IInv, NEW e \in Exec, Active(e), NEW o,
           run' = [run EXCEPT ![exec[e].turn] = Row("terminal", 2, o)],
           run[exec[e].turn].state = "claimed" \/ (Working(e) /\ run[exec[e].turn].state = "running"),
           exec'[e].pc \in {"settling", "done"}
    PROVE  RowMoves /\ run'[exec[e].turn].state = "terminal"
<1>1. exec[e].turn \in Turn
  BY ExecFields
<1>2. run'[exec[e].turn].state = "terminal" /\ \A t \in Turn \ {exec[e].turn} : run'[t] = run[t]
  BY <1>1, RowFields DEF Row
<1>3. QED
  BY <1>2 DEF RowMoves

LEMMA RowsFinish ==
    ASSUME IInv, NEW e \in Exec, NEW ok \in BOOLEAN, Finishes(e, ok), exec'[e].pc \in {"settling", "done"}
    PROVE  RowMoves /\ run'[exec[e].turn].state = "terminal"
<1>1. Working(e) /\ Active(e)
  BY DEF Finishes, Working, Active, WorkingPcs, ExecPcs
<1>2. /\ run[exec[e].turn].state = "running"
      /\ \E o : run' = [run EXCEPT ![exec[e].turn] = Row("terminal", 2, o)]
  BY FinishesEffect DEF Decided
<1>3. QED
  BY <1>1, <1>2, RowsDecide

LEMMA RowsSupersede ==
    ASSUME IInv, NEW e \in Exec, StartSuperseded(e)
    PROVE  RowMoves /\ run'[exec[e].turn].state = "terminal"
<1>1. Active(e) /\ To(e, "settling")
  BY DEF StartSuperseded, Active, ExecPcs
<1>2. exec'[e].pc = "settling"
  BY <1>1, ExecFields DEF To, ExecRecords
<1>3. /\ run[exec[e].turn].state = "claimed"
      /\ \E o : run' = [run EXCEPT ![exec[e].turn] = Row("terminal", 2, o)]
  BY DEF StartSuperseded, CanStart
<1>4. QED
  BY <1>1, <1>2, <1>3, RowsDecide

LEMMA EndedPc ==
    ASSUME IInv, NEW e \in Exec, NEW ok \in BOOLEAN, Finish(e, ok) \/ CrashAfterFinish(e, ok)
    PROVE  /\ Finishes(e, ok) /\ exec'[e].pc \in {"settling", "done"} /\ Active(e) /\ exec[e].turn \in Turn
           /\ CrashAfterFinish(e, ok) => exec[e].proc \in Proc /\ Dies(exec[e].proc)
<1>1. Finishes(e, ok) /\ Active(e)
  BY DEF Finish, CrashAfterFinish, Finishes, Working, Active, WorkingPcs, ExecPcs
<1>2. exec[e].proc \in Proc /\ exec[e].turn \in Turn
  BY <1>1, ExecFields
<1>3. CASE Finish(e, ok)
  <2>1. exec'[e].pc = "settling"
    BY <1>3, ExecFields DEF Finish, To, ExecRecords
  <2>2. ~CrashAfterFinish(e, ok) \/ Dies(exec[e].proc)
    BY DEF CrashAfterFinish
  <2>3. QED
    BY <1>1, <1>2, <2>1, <2>2
<1>4. CASE CrashAfterFinish(e, ok)
  BY <1>1, <1>2, <1>4, ExecDies DEF CrashAfterFinish
<1>5. QED
  BY <1>3, <1>4

LEMMA RowMovesStep == IInv /\ [Next]_vars => RowMoves
<1> SUFFICES ASSUME IInv, [Next]_vars PROVE RowMoves
  OBVIOUS
<1>1. ASSUME UNCHANGED run PROVE RowMoves
  BY <1>1 DEF RowMoves
<1>2. ASSUME NEW e \in Exec, ExecStep(e) PROVE RowMoves
  <2>1. CASE \/ PersistUserLine(e) \/ AdmitResources(e) \/ StartFails(e) \/ Dispatch(e) \/ NextRound(e)
             \/ FinishFenced(e) \/ Settle(e)
    BY <1>1, <2>1 DEF PersistUserLine, AdmitResources, StartFails, Dispatch, NextRound, FinishFenced, Settle
  <2>2. CASE Start(e) \/ StartSuperseded(e) \/ \E ok \in BOOLEAN : Finish(e, ok)
    BY <2>2, RowsStart, RowsSupersede, RowsFinish, EndedPc
  <2>3. QED
    BY <1>2, <2>1, <2>2 DEF ExecStep
<1>3. ASSUME NEW e \in Exec, NEW ok \in BOOLEAN, CrashAfterFinish(e, ok) PROVE RowMoves
  BY <1>3, RowsFinish, EndedPc
<1>4. ASSUME NEW p \in Proc, BootStep(p) \/ ReleaseListener(p) \/ Crash(p) PROVE RowMoves
  BY <1>1, <1>4, BootStepEffect DEF ReleaseListener, Crash, StartupFails
<1>5. ASSUME NEW p \in Proc, NEW t \in Turn,
             \/ Cancel(p, t) \/ CancelTooLate(p, t) \/ CascadeReaped(p, t) \/ WatchdogTick(p, t)
             \/ CrashInCascade(p, t)
      PROVE  RowMoves
  BY <1>1, <1>5 DEF Cancel, CancelTooLate, CascadeReaped, WatchdogTick, CrashInCascade
<1>6. ASSUME NEW p \in Proc, NEW t \in Turn, CrashInAdopt(t, p) PROVE RowMoves
  BY <1>6, RowsClaim DEF CrashInAdopt
<1>7. ASSUME NEW e \in Exec, NEW t \in Turn, NEW p \in Proc,
             Adopt(e, t, p) \/ AdoptBusy(e, t, p) \/ AdoptRefused(e, t, p)
      PROVE  RowMoves
  BY <1>7, RowsClaim DEF Adopt, AdoptBusy, AdoptRefused, Arrives
<1>8. CASE UNCHANGED vars
  BY <1>1, <1>8 DEF vars
<1>9. QED
  BY <1>2, <1>3, <1>4, <1>5, <1>6, <1>7, <1>8 DEF Next

-----------------------------------------------------------------------------
(* Servers.                                                                 *)
LEMMA ServerFields ==
    ASSUME IInv
    PROVE  /\ proc \in [Proc -> {"off", "booting", "serving", "exiting", "dead"}]
           /\ boot \in [Proc -> [Runtime -> BootRecords]]
           /\ cascade \in [Proc -> [Turn -> BOOLEAN]]
           /\ recovery \in [Turn -> [epoch : Nat, disposition : {"active", "uncertain"}]]
BY DEF IInv, ServersTyped

LEMMA ServersStill == ASSUME UNCHANGED <<proc, boot, cascade>> PROVE ServerMoves
BY DEF ServerMoves, Up

LEMMA ServerDies ==
    ASSUME IInv, NEW p \in Proc, Dies(p)
    PROVE  /\ ServerMoves
           /\ proc'[p] = "dead" /\ \A q \in Proc \ {p} : proc'[q] = proc[q]
           /\ \A rt \in Runtime : boot'[p][rt].phase = "off"
           /\ \A q \in Proc \ {p} : boot'[q] = boot[q]
           /\ \A t \in Turn : ~cascade'[p][t]
<1>1. proc'[p] = "dead" /\ \A q \in Proc \ {p} : proc'[q] = proc[q]
  BY ServerFields DEF Dies
<1>2. (\A rt \in Runtime : boot'[p][rt].phase = "off") /\ \A q \in Proc \ {p} : boot'[q] = boot[q]
  BY ServerFields DEF Dies, NoBoot
<1>3. (\A t \in Turn : ~cascade'[p][t]) /\ \A q \in Proc \ {p} : cascade'[q] = cascade[q]
  BY ServerFields DEF Dies
<1>4. QED
  BY <1>1, <1>2, <1>3 DEF ServerMoves, Up, Bound

LEMMA ServerBoots ==
    ASSUME IInv, NEW q \in Proc, Boot(q)
    PROVE  /\ ServerMoves
           /\ proc'[q] = "booting" /\ \A p \in Proc \ {q} : proc'[p] = proc[p]
           /\ \A rt \in Runtime : boot'[q][rt].phase = "list" /\ boot'[q][rt].runs = {}
           /\ \A p \in Proc \ {q} : boot'[p] = boot[p]
<1>1. proc'[q] = "booting" /\ proc[q] = "off" /\ \A p \in Proc \ {q} : proc'[p] = proc[p]
  BY ServerFields DEF Boot
<1>2. /\ \A rt \in Runtime : boot'[q][rt].phase = "list" /\ boot'[q][rt].runs = {}
      /\ \A p \in Proc \ {q} : boot'[p] = boot[p]
  BY ServerFields DEF Boot, NoBoot
<1>3. cascade' = cascade
  BY DEF Boot
<1>4. QED
  BY <1>1, <1>2, <1>3 DEF ServerMoves, Up, Bound

LEMMA ServerListens ==
    ASSUME IInv, NEW q \in Proc, Listen(q)
    PROVE  ServerMoves
<1>1. proc'[q] = "serving" /\ proc[q] = "booting" /\ \A p \in Proc \ {q} : proc'[p] = proc[p]
  BY ServerFields DEF Listen
<1>2. (\A rt \in Runtime : boot'[q][rt].phase = "off") /\ \A p \in Proc \ {q} : boot'[p] = boot[p]
  BY ServerFields DEF Listen, NoBoot
<1>3. cascade' = cascade
  BY DEF Listen
<1>4. QED
  BY <1>1, <1>2, <1>3 DEF ServerMoves, Up, Bound

LEMMA ServerSteps ==
    ASSUME IInv, NEW q \in Proc, BootStep(q)
    PROVE  ServerMoves
<1>1. CASE StartupFails(q)
  BY <1>1, ServerDies DEF StartupFails
<1>2. CASE Boot(q) \/ Listen(q)
  BY <1>2, ServerBoots, ServerListens
<1>3. CASE /\ UNCHANGED <<turn, run, exec, fence, cascade, dispatched>> /\ proc' = proc
           /\ \E rt \in Runtime : \E b : boot' = [boot EXCEPT ![q][rt] = b] /\ boot[q][rt].phase # "off"
  <2>1. PICK rt \in Runtime : \E b : boot' = [boot EXCEPT ![q][rt] = b] /\ boot[q][rt].phase # "off"
    BY <1>3
  <2>2. (\A p \in Proc \ {q} : boot'[p] = boot[p]) /\ \A s \in Runtime \ {rt} : boot'[q][s] = boot[q][s]
    BY <2>1, ServerFields
  <2>3. proc' = proc /\ cascade' = cascade
    BY <1>3
  <2>4. QED
    BY <2>1, <2>2, <2>3 DEF ServerMoves, Up, Bound
<1>4. QED
  BY <1>1, <1>2, <1>3, BootStepEffect

LEMMA ServerMovesStep == IInv /\ [Next]_vars => ServerMoves
<1> SUFFICES ASSUME IInv, [Next]_vars PROVE ServerMoves
  OBVIOUS
<1>1. ASSUME NEW e \in Exec, ExecStep(e) PROVE ServerMoves
  <2>1. UNCHANGED <<proc, boot, cascade>>
    BY <1>1 DEF ExecStep, PersistUserLine, AdmitResources, Start, StartSuperseded, StartFails, Dispatch, NextRound,
                Finish, FinishFenced, Settle
  <2>2. QED
    BY <2>1, ServersStill
<1>2. ASSUME NEW e \in Exec, NEW ok \in BOOLEAN, CrashAfterFinish(e, ok) PROVE ServerMoves
  BY <1>2, EndedPc, ServerDies
<1>3. ASSUME NEW p \in Proc, BootStep(p) PROVE ServerMoves
  BY <1>3, ServerSteps
<1>4. ASSUME NEW p \in Proc, ReleaseListener(p) PROVE ServerMoves
  <2>1. /\ proc[p] = "serving" /\ proc'[p] = "exiting" /\ \A q \in Proc \ {p} : proc'[q] = proc[q]
        /\ UNCHANGED <<boot, cascade>>
    BY <1>4, ServerFields DEF ReleaseListener
  <2>2. QED
    BY <2>1 DEF ServerMoves, Up, Bound
<1>5. ASSUME NEW p \in Proc, NEW t \in Turn, Cancel(p, t) \/ CascadeReaped(p, t) PROVE ServerMoves
  <2>1. UNCHANGED <<proc, boot>>
    BY <1>5 DEF Cancel, CascadeReaped
  <2>2. \A q \in Proc, u \in Turn : cascade'[q][u] => cascade[q][u] \/ proc'[q] = "serving"
    BY <1>5, ServerFields DEF Cancel, CascadeReaped
  <2>3. QED
    BY <2>1, <2>2 DEF ServerMoves, Up
<1>6. ASSUME NEW p \in Proc, NEW t \in Turn, CancelTooLate(p, t) \/ WatchdogTick(p, t) PROVE ServerMoves
  BY <1>6, ServersStill DEF CancelTooLate, WatchdogTick
<1>7. ASSUME NEW p \in Proc, NEW t \in Turn, CrashInCascade(p, t) \/ CrashInAdopt(t, p) \/ Crash(p) PROVE ServerMoves
  BY <1>7, ServerDies DEF CrashInCascade, CrashInAdopt, Crash
<1>8. ASSUME NEW e \in Exec, NEW t \in Turn, NEW p \in Proc,
             Adopt(e, t, p) \/ AdoptBusy(e, t, p) \/ AdoptRefused(e, t, p)
      PROVE  ServerMoves
  BY <1>8, ServersStill DEF Adopt, AdoptBusy, AdoptRefused
<1>9. ASSUME NEW p \in Proc, Crash(p) PROVE ServerMoves
  BY <1>9, ServerDies DEF Crash
<1>10. CASE UNCHANGED vars
  BY <1>10, ServersStill DEF vars
<1>11. QED
  BY <1>1, <1>2, <1>3, <1>4, <1>5, <1>6, <1>7, <1>8, <1>9, <1>10 DEF Next

-----------------------------------------------------------------------------
(* Requests.                                                                *)
LEMMA RequestFields ==
    ASSUME IInv
    PROVE  /\ root \in [Turn -> Cancellation!RootStates]
           /\ crun \in [Turn -> [state : Cancellation!RunStates, root : Turn \cup {None}, epoch : 0 .. 2]]
           /\ \A t \in Turn : /\ crun[t].state \in Cancellation!RunStates
                              /\ crun[t].state \notin {"absent"} => crun[t].root = t
                              /\ crun[t].state = "active" => root[t] = "active"
                              /\ crun[t].state = "completed" <=> run[t].outcome \in {"succeeded", "failed"}
<1>1. CancellationTyped /\ \A t \in Turn : CancellationShape(t)
  BY DEF IInv, CancellationInv
<1>2. \A t \in Turn : crun[t].state = "completed" <=> run[t].outcome \in {"succeeded", "failed"}
  BY DEF IInv, SafeInv, OutcomeAgreesWithCancellation
<1>3. QED
  BY <1>1, <1>2 DEF CancellationTyped, CancellationShape, RunRow

LEMMA RequestsKept == ASSUME UNCHANGED <<root, crun>> PROVE RequestMoves
BY DEF RequestMoves, Asked

LEMMA RequestsComplete ==
    ASSUME IInv, NEW t \in Turn, NEW o, CompletesRun(t, o), UNCHANGED root, run'[t].state = "terminal"
    PROVE  RequestMoves
<1>1. CASE o = "cancelled"
  BY <1>1, RequestsKept DEF CompletesRun
<1>2. CASE o # "cancelled"
  <2>1. crun[t].state = "active" /\ crun' = [crun EXCEPT ![t] = Cancellation!Moved(@, "completed")]
    BY <1>2 DEF CompletesRun
  <2>2. crun'[t].state = "completed" /\ \A u \in Turn \ {t} : crun'[u] = crun[u]
    BY <2>1, RequestFields DEF Cancellation!Moved
  <2>3. QED
    BY <2>1, <2>2 DEF RequestMoves, Asked
<1>3. QED
  BY <1>1, <1>2

LEMMA RequestsOpen ==
    ASSUME IInv, NEW t \in Turn, root[t] \in {"absent", "active"}, root' = [root EXCEPT ![t] = "active"],
           crun' = crun \/ (crun[t].state = "absent"
                            /\ crun' = [crun EXCEPT ![t] = [state |-> "active", root |-> t, epoch |-> 0]])
    PROVE  RequestMoves
<1>1. \A u \in Turn : root'[u] = IF u = t THEN "active" ELSE root[u]
  BY RequestFields
<1>2. \A u \in Turn : \/ crun'[u].state = crun[u].state
                      \/ u = t /\ crun[t].state = "absent" /\ crun'[t].state = "active"
  BY RequestFields
<1>3. QED
  BY <1>1, <1>2 DEF RequestMoves, Asked

LEMMA RequestsAsked ==
    ASSUME IInv, NEW p \in Proc, NEW t \in Turn, Cancel(p, t)
    PROVE  RequestMoves
<1>1. proc[p] = "serving" /\ \A e \in ActiveOn(p, t) : exec'[e].aborted
  BY ExecAborts DEF Cancel
<1>2. CASE Cancellation!RequestRootCancellation(t)
  <2>1. \A u \in Turn : root'[u] = IF u = t THEN "cancel_requested" ELSE root[u]
    BY <1>2, RequestFields DEF Cancellation!RequestRootCancellation
  <2>2. ASSUME NEW u \in Turn
        PROVE  \/ crun'[u] = crun[u]
               \/ u = t /\ crun[u].state = "active" /\ crun'[u].state = "cancel_requested"
    <3>1. crun'[u] = IF crun[u].root = t /\ crun[u].state = "active"
                     THEN Cancellation!Moved(crun[u], "cancel_requested") ELSE crun[u]
      BY <1>2 DEF Cancellation!RequestRootCancellation
    <3>2. crun[u].state = "active" => crun[u].root = u
      BY RequestFields
    <3>3. QED
      BY <3>1, <3>2 DEF Cancellation!Moved
  <2>3. QED
    BY <1>1, <2>1, <2>2 DEF RequestMoves, Asked
<1>3. QED
  BY <1>2, RequestsKept DEF Cancel

LEMMA RequestsReaped ==
    ASSUME IInv, NEW t \in Turn, crun[t].state = "cancel_requested",
           crun' = [crun EXCEPT ![t] = Cancellation!Moved(@, "reaped")],
           UNCHANGED root \/ root' = [root EXCEPT ![t] = "cancelled"],
           \/ \E p \in Proc : cascade[p][t] /\ ActiveOn(p, t) = {}
           \/ \E q \in Proc, rt \in Runtime : boot[q][rt].phase = "reap"
    PROVE  RequestMoves
<1>1. crun'[t].state = "reaped" /\ \A u \in Turn \ {t} : crun'[u] = crun[u]
  BY RequestFields DEF Cancellation!Moved
<1>2. \A u \in Turn : root'[u] = root[u] \/ root'[u] = "cancelled"
  BY RequestFields
<1>3. QED
  BY <1>1, <1>2 DEF RequestMoves, Asked

LEMMA RequestsClosed ==
    ASSUME IInv, NEW t \in Turn, root' = [root EXCEPT ![t] = "cancelled"], UNCHANGED crun
    PROVE  RequestMoves
<1>1. \A u \in Turn : root'[u] = root[u] \/ root'[u] = "cancelled"
  BY RequestFields
<1>2. QED
  BY <1>1 DEF RequestMoves, Asked

LEMMA RequestsExecStep == ASSUME IInv, NEW e \in Exec, ExecStep(e) PROVE RequestMoves
<1>1. CASE \/ PersistUserLine(e) \/ AdmitResources(e) \/ StartFails(e) \/ Dispatch(e) \/ NextRound(e)
           \/ FinishFenced(e) \/ Settle(e) \/ Start(e)
  <2>1. UNCHANGED <<root, crun>>
    BY <1>1 DEF PersistUserLine, AdmitResources, StartFails, Dispatch, NextRound, FinishFenced, Settle, Start
  <2>2. QED
    BY <2>1, RequestsKept
<1>2. CASE StartSuperseded(e)
  <2>1. Active(e) /\ exec[e].turn \in Turn
    BY <1>2, ExecFields DEF StartSuperseded, Active, ExecPcs
  <2>2. CompletesRun(exec[e].turn, OutcomeOf(e, FALSE)) /\ UNCHANGED root
    BY <1>2 DEF StartSuperseded
  <2>3. run'[exec[e].turn].state = "terminal"
    BY <1>2, RowsSupersede
  <2>4. QED
    BY <2>1, <2>2, <2>3, RequestsComplete
<1>3. ASSUME NEW ok \in BOOLEAN, Finish(e, ok) PROVE RequestMoves
  <2>1. /\ Finishes(e, ok) /\ exec[e].turn \in Turn /\ run'[exec[e].turn].state = "terminal" /\ UNCHANGED root
    BY <1>3, EndedPc, RowsFinish DEF Finish
  <2>2. CompletesRun(exec[e].turn, OutcomeOf(e, ok))
    BY <2>1 DEF Finishes
  <2>3. QED
    BY <2>1, <2>2, RequestsComplete
<1>4. QED
  BY <1>1, <1>2, <1>3 DEF ExecStep

LEMMA RequestsBootStep == ASSUME IInv, NEW q \in Proc, BootStep(q) PROVE RequestMoves
<1>1. CASE Boot(q) \/ Listen(q) \/ StartupFails(q)
  BY <1>1, RequestsKept DEF Boot, Listen, StartupFails
<1>2. ASSUME NEW rt \in Runtime, NEW t \in Turn, ResumeSettled(q, rt, t) PROVE RequestMoves
  BY <1>2, RequestsClosed DEF ResumeSettled
<1>3. ASSUME NEW rt \in Runtime, NEW t \in Turn, ResumeCancellation(q, rt, t) \/ ResumeClosed(q, rt, t)
      PROVE  RequestMoves
  BY <1>3, RequestsKept DEF ResumeCancellation, ResumeClosed
<1>4. ASSUME NEW rt \in Runtime, ListNonTerminalRuns(q, rt) \/ ListPendingRoots(q, rt) PROVE RequestMoves
  BY <1>4, RequestsKept DEF ListNonTerminalRuns, ListPendingRoots
<1>5. ASSUME NEW rt \in Runtime, NEW r \in boot[q][rt].runs, ReconcileRun(q, rt, r) PROVE RequestMoves
  BY <1>5, RequestsKept DEF ReconcileRun
<1>6. ASSUME NEW rt \in Runtime, ResumeReaped(q, rt) PROVE RequestMoves
  <2>1. boot[q][rt].phase = "reap" /\ boot[q][rt].cur \in Turn
    BY <1>6, ServerFields, SupervisorAssumption DEF ResumeReaped, BootRecords
  <2>2. CASE crun[boot[q][rt].cur].state = "cancel_requested"
    BY <1>6, <2>1, <2>2, RequestsReaped DEF ResumeReaped
  <2>3. CASE crun[boot[q][rt].cur].state # "cancel_requested"
    BY <1>6, <2>3, RequestsKept DEF ResumeReaped
  <2>4. QED
    BY <2>2, <2>3
<1>7. QED
  BY <1>1, <1>2, <1>3, <1>4, <1>5, <1>6 DEF BootStep

LEMMA RequestMovesStep == IInv /\ [Next]_vars => RequestMoves
<1> SUFFICES ASSUME IInv, [Next]_vars PROVE RequestMoves
  OBVIOUS
<1>1. ASSUME NEW e \in Exec, ExecStep(e) PROVE RequestMoves
  BY <1>1, RequestsExecStep
<1>2. ASSUME NEW e \in Exec, NEW ok \in BOOLEAN, CrashAfterFinish(e, ok) PROVE RequestMoves
  <2>1. /\ Finishes(e, ok) /\ exec[e].turn \in Turn /\ run'[exec[e].turn].state = "terminal" /\ UNCHANGED root
    BY <1>2, EndedPc, RowsFinish DEF CrashAfterFinish
  <2>2. CompletesRun(exec[e].turn, OutcomeOf(e, ok))
    BY <2>1 DEF Finishes
  <2>3. QED
    BY <2>1, <2>2, RequestsComplete
<1>3. ASSUME NEW p \in Proc, BootStep(p) \/ ReleaseListener(p) \/ Crash(p) PROVE RequestMoves
  BY <1>3, RequestsBootStep, RequestsKept DEF ReleaseListener, Crash
<1>4. ASSUME NEW p \in Proc, NEW t \in Turn, Cancel(p, t) \/ CancelTooLate(p, t) \/ WatchdogTick(p, t)
      PROVE  RequestMoves
  BY <1>4, RequestsAsked, RequestsClosed, RequestsKept DEF CancelTooLate, WatchdogTick
<1>5. ASSUME NEW p \in Proc, NEW t \in Turn, CascadeReaped(p, t) PROVE RequestMoves
  <2>1. CASE crun[t].state = "cancel_requested" /\ crun[t].epoch = 1
    BY <1>5, <2>1, RequestsReaped DEF CascadeReaped
  <2>2. CASE ~(crun[t].state = "cancel_requested" /\ crun[t].epoch = 1)
    BY <1>5, <2>2, RequestsKept DEF CascadeReaped
  <2>3. QED
    BY <2>1, <2>2
<1>6. ASSUME NEW p \in Proc, NEW t \in Turn, CrashInCascade(p, t) PROVE RequestMoves
  BY <1>6, RequestsReaped DEF CrashInCascade
<1>7. ASSUME NEW p \in Proc, NEW t \in Turn, CrashInAdopt(t, p) PROVE RequestMoves
  BY <1>7, RequestsKept, RequestsOpen DEF CrashInAdopt
<1>8. ASSUME NEW e \in Exec, NEW t \in Turn, NEW p \in Proc,
             Adopt(e, t, p) \/ AdoptBusy(e, t, p) \/ AdoptRefused(e, t, p)
      PROVE  RequestMoves
  BY <1>8, RequestsKept, RequestsOpen DEF Adopt, AdoptBusy, AdoptRefused
<1>9. CASE UNCHANGED vars
  BY <1>9, RequestsKept DEF vars
<1>10. QED
  BY <1>1, <1>2, <1>3, <1>4, <1>5, <1>6, <1>7, <1>8, <1>9 DEF Next

-----------------------------------------------------------------------------
(* Leases.                                                                  *)
LEMMA LeaseFields ==
    ASSUME IInv
    PROVE  /\ lease \in [Turn -> Exec \cup {None}]
           /\ \A t \in Turn : lease[t] # None => lease[t] \in Exec /\ exec[lease[t]].turn = t
BY DEF IInv, ExecutionsInv, ExecutionsTyped

LEMMA LeasesKept ==
    ASSUME UNCHANGED lease, \A e \in Exec : Granted(e) => Granted(e)' \/ Dies(exec[e].proc)
    PROVE  LeaseMoves
BY DEF LeaseMoves

LEMMA LeasesUnmoved == ASSUME UNCHANGED <<lease, exec>> PROVE LeaseMoves
BY DEF LeaseMoves, Granted

LEMMA LeasesDie == ASSUME IInv, NEW p \in Proc, Dies(p), UNCHANGED lease PROVE LeaseMoves
<1>1. \A e \in Exec : exec'[e].pc = exec[e].pc \/ Dies(exec[e].proc)
  BY ExecDies
<1>2. QED
  BY <1>1, LeasesKept DEF Granted

LEMMA LeasesFreed ==
    ASSUME IInv, NEW t \in Turn, HeldByDead(t), lease' = [lease EXCEPT ![t] = None], UNCHANGED exec
    PROVE  LeaseMoves
<1>1. \A u \in Turn : lease'[u] = IF u = t THEN None ELSE lease[u]
  BY LeaseFields
<1>2. QED
  BY <1>1 DEF LeaseMoves, Granted

LEMMA LeasesRecovered ==
    ASSUME IInv, NEW t \in Turn, NEW ok \in BOOLEAN, LeaseRecovered(t, ok), UNCHANGED exec
    PROVE  LeaseMoves
BY LeasesFreed, LeasesUnmoved DEF LeaseRecovered

LEMMA LeasesReleased ==
    ASSUME IInv, NEW x \in Exec, Granted(x), To(x, "settling"),
           \/ lease' = Released(x)
           \/ lease' = lease /\ exec[x].pc = "admitted" /\ run[exec[x].turn].state # "claimed"
    PROVE  LeaseMoves
<1>1. Active(x) /\ exec[x].turn \in Turn
  BY PhasesOf, ExecFields
<1>2. exec'[x].pc = "settling" /\ \A e \in Exec \ {x} : exec'[e] = exec[e]
  BY <1>1, ExecTo DEF ExecPcs, Early, WorkingPcs
<1>3. ~Granted(x)' /\ \A e \in Exec \ {x} : Granted(e) => Granted(e)'
  BY <1>2 DEF Granted, WorkingPcs
<1>4. CASE lease' = Released(x)
  <2>1. \A t \in Turn : lease'[t] = IF t = exec[x].turn /\ lease[t] = exec[x].lease THEN None ELSE lease[t]
    BY <1>1, <1>4, LeaseFields DEF Released
  <2>2. QED
    BY <1>1, <1>3, <2>1 DEF LeaseMoves
<1>5. CASE lease' = lease /\ exec[x].pc = "admitted" /\ run[exec[x].turn].state # "claimed"
  BY <1>3, <1>5 DEF LeaseMoves
<1>6. QED
  BY <1>4, <1>5

LEMMA LeasesAdmitted == ASSUME IInv, NEW x \in Exec, AdmitResources(x) PROVE LeaseMoves
<1>1. ~Granted(x) /\ exec[x].turn \in Turn /\ \A e \in Exec \ {x} : exec'[e] = exec[e]
  BY ExecAdmitted
<1>2. \A e \in Exec : Granted(e) => Granted(e)'
  BY <1>1 DEF Granted
<1>3. CASE lease' = lease
  BY <1>2, <1>3, LeasesKept
<1>4. CASE /\ exec'[x].pc = "admitted" /\ exec'[x].lease = x
           /\ lease[exec[x].turn] = None /\ lease' = [lease EXCEPT ![exec[x].turn] = x]
  <2>1. \A t \in Turn : lease'[t] = IF t = exec[x].turn THEN x ELSE lease[t]
    BY <1>1, <1>4, LeaseFields
  <2>2. Granted(x)'
    BY <1>4 DEF Granted
  <2>3. QED
    BY <1>2, <1>4, <2>1, <2>2 DEF LeaseMoves
<1>5. QED
  BY <1>3, <1>4, ExecAdmitted

LEMMA LeasesExecStep == ASSUME IInv, NEW e \in Exec, ExecStep(e) PROVE LeaseMoves
<1>1. CASE Finish(e, TRUE) \/ Finish(e, FALSE) \/ FinishFenced(e) \/ StartSuperseded(e) \/ StartFails(e)
  <2>1. Granted(e) /\ To(e, "settling")
    BY <1>1 DEF Finish, Finishes, FinishFenced, StartSuperseded, StartFails, Granted, Working
  <2>2. \/ lease' = Released(e)
        \/ lease' = lease /\ exec[e].pc = "admitted" /\ run[exec[e].turn].state # "claimed"
    BY <1>1 DEF Finish, FinishFenced, StartSuperseded, StartFails
  <2>3. QED
    BY <2>1, <2>2, LeasesReleased
<1>2. CASE AdmitResources(e)
  BY <1>2, LeasesAdmitted
<1>3. CASE PersistUserLine(e) \/ Settle(e) \/ Start(e) \/ Dispatch(e) \/ NextRound(e)
  <2>1. UNCHANGED lease
    BY <1>3 DEF PersistUserLine, Settle, Start, Dispatch, NextRound
  <2>2. \/ ~Granted(e) /\ \E pc : To(e, pc)
        \/ \E pc \in WorkingPcs : To(e, pc)
    BY <1>3 DEF PersistUserLine, Settle, Start, Dispatch, NextRound, Granted, WorkingPcs
  <2>3. \A x \in Exec : Granted(x) => Granted(x)'
    <3>1. ASSUME NEW pc, To(e, pc)
          PROVE  exec'[e].pc = pc /\ \A x \in Exec \ {e} : exec'[x] = exec[x]
      BY <3>1, ExecFields DEF To, ExecRecords
    <3>2. QED
      BY <2>2, <3>1 DEF Granted
  <2>4. QED
    BY <2>1, <2>3, LeasesKept
<1>4. QED
  BY <1>1, <1>2, <1>3 DEF ExecStep

LEMMA LeasesBootStep == ASSUME IInv, NEW q \in Proc, BootStep(q) PROVE LeaseMoves
<1>1. CASE StartupFails(q)
  BY <1>1, LeasesDie DEF StartupFails
<1>2. CASE Boot(q) \/ Listen(q)
  BY <1>2, LeasesUnmoved DEF Boot, Listen
<1>3. ASSUME NEW rt \in Runtime, NEW t \in Turn, ResumeSettled(q, rt, t) PROVE LeaseMoves
  BY <1>3, LeasesRecovered DEF ResumeSettled
<1>4. ASSUME NEW rt \in Runtime, NEW t \in Turn, ResumeCancellation(q, rt, t) \/ ResumeClosed(q, rt, t)
      PROVE  LeaseMoves
  BY <1>4, LeasesUnmoved DEF ResumeCancellation, ResumeClosed
<1>5. ASSUME NEW rt \in Runtime, ListNonTerminalRuns(q, rt) \/ ListPendingRoots(q, rt) PROVE LeaseMoves
  BY <1>5, LeasesUnmoved DEF ListNonTerminalRuns, ListPendingRoots
<1>6. ASSUME NEW rt \in Runtime, NEW r \in boot[q][rt].runs, ReconcileRun(q, rt, r) PROVE LeaseMoves
  BY <1>6, LeasesUnmoved DEF ReconcileRun
<1>7. ASSUME NEW rt \in Runtime, ResumeReaped(q, rt) PROVE LeaseMoves
  <2>1. boot[q][rt].cur \in Turn
    BY <1>7, ServerFields, SupervisorAssumption DEF ResumeReaped, BootRecords
  <2>2. UNCHANGED exec /\ (UNCHANGED lease \/ \E ok \in BOOLEAN : LeaseRecovered(boot[q][rt].cur, ok))
    BY <1>7 DEF ResumeReaped
  <2>3. QED
    BY <2>1, <2>2, LeasesRecovered, LeasesUnmoved
<1>8. QED
  BY <1>1, <1>2, <1>3, <1>4, <1>5, <1>6, <1>7 DEF BootStep

LEMMA LeaseMovesStep == IInv /\ [Next]_vars => LeaseMoves
<1> SUFFICES ASSUME IInv, [Next]_vars PROVE LeaseMoves
  OBVIOUS
<1>1. ASSUME NEW e \in Exec, ExecStep(e) PROVE LeaseMoves
  BY <1>1, LeasesExecStep
<1>2. ASSUME NEW e \in Exec, NEW ok \in BOOLEAN, CrashAfterFinish(e, ok) PROVE LeaseMoves
  <2>1. UNCHANGED lease
    BY <1>2 DEF CrashAfterFinish
  <2>2. QED
    BY <1>2, <2>1, EndedPc, LeasesDie
<1>3. ASSUME NEW p \in Proc, BootStep(p) \/ ReleaseListener(p) \/ Crash(p) PROVE LeaseMoves
  BY <1>3, LeasesBootStep, LeasesUnmoved, LeasesDie DEF ReleaseListener, Crash
<1>4. ASSUME NEW p \in Proc, NEW t \in Turn, Cancel(p, t) PROVE LeaseMoves
  <2>1. \A e \in Exec : exec'[e].pc = exec[e].pc
    BY <1>4, ExecAborts
  <2>2. UNCHANGED lease
    BY <1>4 DEF Cancel
  <2>3. QED
    BY <2>1, <2>2, LeasesKept DEF Granted
<1>5. ASSUME NEW p \in Proc, NEW t \in Turn, CancelTooLate(p, t) \/ CascadeReaped(p, t) PROVE LeaseMoves
  BY <1>5, LeasesRecovered, LeasesUnmoved DEF CancelTooLate, CascadeReaped
<1>6. ASSUME NEW p \in Proc, NEW t \in Turn, WatchdogTick(p, t) PROVE LeaseMoves
  BY <1>6, LeasesFreed DEF WatchdogTick
<1>7. ASSUME NEW p \in Proc, NEW t \in Turn, CrashInCascade(p, t) \/ CrashInAdopt(t, p) PROVE LeaseMoves
  BY <1>7, LeasesDie DEF CrashInCascade, CrashInAdopt
<1>8. ASSUME NEW e \in Exec, NEW t \in Turn, NEW p \in Proc,
             Adopt(e, t, p) \/ AdoptBusy(e, t, p) \/ AdoptRefused(e, t, p)
      PROVE  LeaseMoves
  <2>1. UNCHANGED lease
    BY <1>8 DEF Adopt, AdoptBusy, AdoptRefused
  <2>2. exec[e] = IdleExec /\ \E b : exec' = [exec EXCEPT ![e] = b]
    BY <1>8 DEF Adopt, AdoptBusy, AdoptRefused, Arrives, Spent
  <2>3. ~Granted(e) /\ \A x \in Exec \ {e} : exec'[x] = exec[x]
    BY <2>2, ExecFields DEF Granted, IdleExec, WorkingPcs
  <2>4. QED
    BY <2>1, <2>3, LeasesKept DEF Granted
<1>9. CASE UNCHANGED vars
  BY <1>9, LeasesUnmoved DEF vars
<1>10. QED
  BY <1>1, <1>2, <1>3, <1>4, <1>5, <1>6, <1>7, <1>8, <1>9 DEF Next

-----------------------------------------------------------------------------
(* Dispositions, and who stops working.                                     *)
LEMMA UncertainStays ==
    IInv /\ [Next]_vars
    => \A t \in Turn : recovery[t].disposition = "uncertain" => recovery'[t].disposition = "uncertain"
<1> SUFFICES ASSUME IInv, [Next]_vars, NEW t \in Turn, recovery[t].disposition = "uncertain"
             PROVE  recovery'[t].disposition = "uncertain"
  OBVIOUS
<1> DEFINE Goal == recovery'[t].disposition = "uncertain"
<1>1. CASE UNCHANGED recovery
  BY <1>1
<1>2. ASSUME NEW u \in Turn, ClaimWriter(u) PROVE Goal
  BY <1>2, ServerFields DEF ClaimWriter
<1>3. ASSUME NEW q \in Proc, NEW rt \in Runtime, NEW r \in boot[q][rt].runs, ReconcileRun(q, rt, r) PROVE Goal
  BY <1>3, ServerFields DEF ReconcileRun
<1>4. ASSUME NEW e \in Exec, ExecStep(e) \/ \E ok \in BOOLEAN : CrashAfterFinish(e, ok) PROVE UNCHANGED recovery
  BY <1>4 DEF ExecStep, PersistUserLine, AdmitResources, Start, StartSuperseded, StartFails, Dispatch, NextRound,
              Finish, FinishFenced, Settle, CrashAfterFinish
<1>5. ASSUME NEW q \in Proc, BootStep(q) PROVE Goal
  <2>1. CASE UNCHANGED recovery
    BY <2>1
  <2>2. CASE ~UNCHANGED recovery
    <3>1. \E rt \in Runtime : \E r \in boot[q][rt].runs : ReconcileRun(q, rt, r)
      BY <1>5, <2>2 DEF BootStep, Boot, Listen, StartupFails, ListNonTerminalRuns, ListPendingRoots, ResumeReaped,
                        ResumeCancellation, ResumeSettled, ResumeClosed
    <3>2. QED
      BY <3>1, <1>3
  <2>3. QED
    BY <2>1, <2>2
<1>6. ASSUME NEW p \in Proc, NEW u \in Turn,
             \/ Cancel(p, u) \/ CancelTooLate(p, u) \/ CascadeReaped(p, u) \/ WatchdogTick(p, u)
             \/ CrashInCascade(p, u) \/ ReleaseListener(p) \/ Crash(p)
      PROVE  UNCHANGED recovery
  BY <1>6 DEF Cancel, CancelTooLate, CascadeReaped, WatchdogTick, CrashInCascade, ReleaseListener, Crash
<1>7. ASSUME NEW e \in Exec, NEW u \in Turn, NEW p \in Proc,
             Adopt(e, u, p) \/ AdoptBusy(e, u, p) \/ AdoptRefused(e, u, p) \/ CrashInAdopt(u, p)
      PROVE  UNCHANGED recovery \/ ClaimWriter(u)
  BY <1>7 DEF Adopt, AdoptBusy, AdoptRefused, CrashInAdopt
<1>8. ASSUME NEW u \in Turn, NEW p \in Proc, CrashInAdopt(u, p)
      PROVE  UNCHANGED recovery \/ ClaimWriter(u)
  BY <1>8 DEF CrashInAdopt
<1>9. ASSUME NEW p \in Proc, ReleaseListener(p) \/ Crash(p)
      PROVE  UNCHANGED recovery
  BY <1>9 DEF ReleaseListener, Crash
<1>10. CASE UNCHANGED vars
  BY <1>1, <1>10 DEF vars
<1> HIDE DEF Goal
<1>11. QED
  BY <1>1, <1>2, <1>4, <1>5, <1>6, <1>7, <1>8, <1>9, <1>10 DEF Next, Goal

LEMMA WorkStops ==
    ASSUME IInv, [Next]_vars, NEW x \in Exec, Working(x)
    PROVE  Working(x)' \/ run'[exec[x].turn].state = "terminal" \/ Dies(exec[x].proc) \/ FinishFenced(x)
<1> DEFINE Goal == Working(x)' \/ run'[exec[x].turn].state = "terminal" \/ Dies(exec[x].proc) \/ FinishFenced(x)
<1>1. CASE exec'[x] = exec[x]
  BY <1>1 DEF Working
<1>2. ASSUME NEW p \in Proc, Dies(p) PROVE Goal
  BY <1>2, ExecDies DEF Working
<1>3. ASSUME NEW e \in Exec, ExecStep(e) PROVE Goal
  <2>1. CASE \E pc : To(e, pc) /\ e # x
    BY <1>1, <2>1, ExecFields DEF To
  <2>2. CASE AdmitResources(e)
    <3>1. e # x
      BY <2>2 DEF AdmitResources, Working, WorkingPcs
    <3>2. QED
      BY <1>1, <2>2, <3>1, ExecAdmitted
  <2>3. CASE Start(e) \/ Dispatch(e) \/ NextRound(e)
    <3>1. \E pc \in WorkingPcs : To(e, pc)
      BY <2>3 DEF Start, Dispatch, NextRound, WorkingPcs
    <3>2. exec'[x].pc = exec[x].pc \/ exec'[x].pc \in WorkingPcs
      BY <3>1, ExecFields DEF To, ExecRecords
    <3>3. QED
      BY <3>2 DEF Working
  <2>4. CASE \E ok \in BOOLEAN : Finish(e, ok)
    <3>1. run'[exec[e].turn].state = "terminal"
      BY <2>4, RowsFinish, EndedPc
    <3>2. \E pc : To(e, pc)
      BY <2>4 DEF Finish
    <3>3. QED
      BY <2>1, <3>1, <3>2
  <2>5. CASE FinishFenced(e)
    BY <2>1, <2>5 DEF FinishFenced
  <2>6. CASE PersistUserLine(e) \/ StartSuperseded(e) \/ StartFails(e) \/ Settle(e)
    <3>1. e # x
      BY <2>6 DEF PersistUserLine, StartSuperseded, StartFails, Settle, Working, WorkingPcs
    <3>2. \E pc : To(e, pc)
      BY <2>6 DEF PersistUserLine, StartSuperseded, StartFails, Settle
    <3>3. QED
      BY <2>1, <3>1, <3>2
  <2>7. QED
    BY <1>3, <2>2, <2>3, <2>4, <2>5, <2>6 DEF ExecStep
<1>4. ASSUME NEW e \in Exec, NEW ok \in BOOLEAN, CrashAfterFinish(e, ok) PROVE Goal
  BY <1>2, <1>4, EndedPc
<1>5. ASSUME NEW p \in Proc, BootStep(p) \/ ReleaseListener(p) \/ Crash(p) PROVE Goal
  BY <1>1, <1>2, <1>5, BootStepEffect DEF ReleaseListener, Crash, StartupFails
<1>6. ASSUME NEW p \in Proc, NEW t \in Turn, Cancel(p, t) PROVE Goal
  BY <1>6, ExecAborts DEF Working
<1>7. ASSUME NEW p \in Proc, NEW t \in Turn,
             \/ CancelTooLate(p, t) \/ CascadeReaped(p, t) \/ WatchdogTick(p, t)
             \/ CrashInCascade(p, t) \/ CrashInAdopt(t, p)
      PROVE  Goal
  BY <1>1, <1>2, <1>7 DEF CancelTooLate, CascadeReaped, WatchdogTick, CrashInCascade, CrashInAdopt
<1>8. ASSUME NEW e \in Exec, NEW t \in Turn, NEW p \in Proc,
             Adopt(e, t, p) \/ AdoptBusy(e, t, p) \/ AdoptRefused(e, t, p)
      PROVE  Goal
  <2>1. exec[e] = IdleExec /\ \E b : exec' = [exec EXCEPT ![e] = b]
    BY <1>8 DEF Adopt, AdoptBusy, AdoptRefused, Arrives, Spent
  <2>2. e # x /\ \A f \in Exec \ {e} : exec'[f] = exec[f]
    BY <2>1, ExecFields DEF Working, IdleExec, WorkingPcs
  <2>3. QED
    BY <1>1, <2>2
<1>9. CASE UNCHANGED vars
  BY <1>1, <1>9 DEF vars
<1> HIDE DEF Goal
<1>10. QED
  BY <1>3, <1>4, <1>5, <1>6, <1>7, <1>8, <1>9 DEF Next, Goal

(* A request is sent only by Dispatch.                                      *)
LEMMA SentByDispatch ==
    ASSUME IInv, [Next]_vars, NEW x \in Exec, exec[x].pc = "probing", exec'[x].pc = "invoking"
    PROVE  Dispatch(x)
<1>1. ASSUME NEW pc, NEW e \in Exec, To(e, pc) PROVE e = x /\ pc = "invoking"
  BY <1>1, ExecFields DEF To, ExecRecords
<1>2. ASSUME NEW p \in Proc, Dies(p) PROVE FALSE
  BY <1>2, ExecDies
<1>3. ASSUME UNCHANGED exec PROVE FALSE
  BY <1>3
<1>4. ASSUME NEW e \in Exec, ExecStep(e) PROVE Dispatch(x)
  <2>1. CASE AdmitResources(e)
    BY <2>1, ExecAdmitted DEF AdmitResources
  <2>2. CASE \/ PersistUserLine(e) \/ StartSuperseded(e) \/ StartFails(e) \/ Settle(e) \/ Start(e) \/ NextRound(e)
             \/ FinishFenced(e) \/ \E ok \in BOOLEAN : Finish(e, ok)
    <3>1. \E pc \in {"admitting", "settling", "done", "probing"} : To(e, pc)
      BY <2>2 DEF PersistUserLine, StartSuperseded, StartFails, Settle, Start, NextRound, FinishFenced, Finish
    <3>2. QED
      BY <1>1, <3>1
  <2>3. CASE Dispatch(e)
    BY <1>1, <2>3 DEF Dispatch
  <2>4. QED
    BY <1>4, <2>1, <2>2, <2>3 DEF ExecStep
<1>5. ASSUME NEW e \in Exec, NEW ok \in BOOLEAN, CrashAfterFinish(e, ok) PROVE FALSE
  BY <1>2, <1>5, EndedPc
<1>6. ASSUME NEW p \in Proc, BootStep(p) \/ ReleaseListener(p) \/ Crash(p) PROVE FALSE
  BY <1>2, <1>3, <1>6, BootStepEffect DEF ReleaseListener, Crash, StartupFails
<1>7. ASSUME NEW p \in Proc, NEW t \in Turn, Cancel(p, t) PROVE FALSE
  BY <1>7, ExecAborts
<1>8. ASSUME NEW p \in Proc, NEW t \in Turn,
             \/ CancelTooLate(p, t) \/ CascadeReaped(p, t) \/ WatchdogTick(p, t)
             \/ CrashInCascade(p, t) \/ CrashInAdopt(t, p)
      PROVE  FALSE
  BY <1>2, <1>3, <1>8 DEF CancelTooLate, CascadeReaped, WatchdogTick, CrashInCascade, CrashInAdopt
<1>9. ASSUME NEW e \in Exec, NEW t \in Turn, NEW p \in Proc,
             Adopt(e, t, p) \/ AdoptBusy(e, t, p) \/ AdoptRefused(e, t, p)
      PROVE  FALSE
  <2>1. exec[e] = IdleExec /\ \E b : exec' = [exec EXCEPT ![e] = b]
    BY <1>9 DEF Adopt, AdoptBusy, AdoptRefused, Arrives, Spent
  <2>2. e # x /\ \A f \in Exec \ {e} : exec'[f] = exec[f]
    BY <2>1, ExecFields DEF IdleExec
  <2>3. QED
    BY <2>2
<1>10. CASE UNCHANGED vars
  BY <1>3, <1>10 DEF vars
<1>11. QED
  BY <1>4, <1>5, <1>6, <1>7, <1>8, <1>9, <1>10 DEF Next

-----------------------------------------------------------------------------
(* The parts of the longer invariant, one after the other.                  *)
LEMMA AdoptEffect ==
    ASSUME IInv, LifeInv, NEW x \in Exec, NEW t \in Turn, NEW p \in Proc, Adopt(x, t, p)
    PROVE  /\ proc[p] = "serving" /\ proc' = proc /\ ~SessionBusy(p, t)
           /\ run[t].state \in {"absent", "claimed"} /\ run'[t].state = "claimed"
           /\ crun'[t].state = "active"
           /\ lease' = lease
<1>1. proc[p] = "serving" /\ proc' = proc /\ lease' = lease /\ ~SessionBusy(p, t) /\ ClaimInDatabase(t)
  BY DEF Adopt, Arrives
<1>2. run[t].state \in {"absent", "claimed"}
  BY RowFields DEF Adopt, Arrives, ClassifyDuplicateRun, RunRowStates
<1>3. run'[t].state = "claimed"
  BY <1>1, <1>2, RowsClaim
<1>4. crun[t].state \in {"absent", "active"}
  <2>1. crun[t].state # "completed"
    BY <1>2, RowFields, RequestFields
  <2>2. ~Asked(t)
    BY DEF Adopt, LifeInv
  <2>3. QED
    BY <2>1, <2>2, RequestFields DEF Asked, Cancellation!RunStates
<1>5. crun'[t].state = "active"
  BY <1>4, RequestFields DEF Adopt
<1>6. QED
  BY <1>1, <1>2, <1>3, <1>5

(* What was at work stays in its process, and was there before or has just  *)
(* been adopted.                                                            *)
LEMMA ActiveBefore ==
    ASSUME IInv, [Next]_vars, NEW e \in Exec, Active(e)'
    PROVE  /\ exec'[e].turn \in Turn /\ exec'[e].proc \in Proc
           /\ \/ /\ Active(e) /\ exec'[e].turn = exec[e].turn /\ exec'[e].proc = exec[e].proc
                 /\ exec[e].aborted => exec'[e].aborted
                 /\ ~Dies(exec[e].proc)
              \/ \E t \in Turn, p \in Proc : Adopt(e, t, p) /\ exec'[e].turn = t /\ exec'[e].proc = p
<1>1. IInv' /\ ExecMoves
  BY IInvStep, ExecMovesStep
<1>2. exec'[e].turn \in Turn /\ exec'[e].proc \in Proc
  BY <1>1 DEF IInv, ExecutionsInv, Owned
<1>3. CASE Active(e)
  <2>1. ~Dies(exec[e].proc)
    BY <1>3, ExecFields, ExecDies
  <2>2. exec[e].turn \in Turn
    BY <1>3, ExecFields
  <2>3. QED
    BY <1>1, <1>2, <1>3, <2>1, <2>2 DEF ExecMoves
<1>4. CASE \E t \in Turn, p \in Proc : Adopt(e, t, p)
  BY <1>2, <1>4, ExecAdopts
<1>5. QED
  BY <1>1, <1>3, <1>4 DEF ExecMoves

LEMMA LifeStep == ASSUME IInv, LifeInv, [Next]_vars PROVE LifeInv'
<1>1. /\ ExecMoves /\ RowMoves /\ ServerMoves /\ RequestMoves
  BY ExecMovesStep, RowMovesStep, ServerMovesStep, RequestMovesStep
<1>2. ASSUME NEW e \in Exec, Active(e)'
      PROVE  /\ proc'[exec'[e].proc] \in Bound
             /\ run'[exec'[e].turn].state # "absent" /\ crun'[exec'[e].turn].state # "absent"
  <2>1. CASE /\ Active(e) /\ exec'[e].turn = exec[e].turn /\ exec'[e].proc = exec[e].proc
             /\ ~Dies(exec[e].proc)
    <3>1. exec[e].turn \in Turn /\ exec[e].proc \in Proc
      BY <2>1, ExecFields
    <3>2. /\ proc[exec[e].proc] \in Bound
          /\ run[exec[e].turn].state # "absent" /\ crun[exec[e].turn].state # "absent"
      BY <2>1 DEF LifeInv
    <3>3. proc'[exec[e].proc] \in Bound
      BY <1>1, <2>1, <3>1, <3>2 DEF ServerMoves
    <3>4. run'[exec[e].turn].state # "absent"
      BY <1>1, <3>1, <3>2 DEF RowMoves
    <3>5. crun'[exec[e].turn].state # "absent"
      BY <1>1, <3>1, <3>2 DEF RequestMoves
    <3>6. QED
      BY <2>1, <3>3, <3>4, <3>5
  <2>2. ASSUME NEW t \in Turn, NEW p \in Proc, Adopt(e, t, p), exec'[e].turn = t, exec'[e].proc = p
        PROVE  /\ proc'[exec'[e].proc] \in Bound
               /\ run'[exec'[e].turn].state # "absent" /\ crun'[exec'[e].turn].state # "absent"
    BY <2>2, AdoptEffect DEF Bound
  <2>3. QED
    BY <1>2, <2>1, <2>2, ActiveBefore
<1>3. ASSUME NEW e \in Exec, Working(e)' PROVE run'[exec'[e].turn].state = "running"
  <2>1. Working(e) \/ Start(e)
    BY <1>1, <1>3 DEF ExecMoves
  <2>2. CASE Working(e)
    <3>1. exec[e].turn \in Turn /\ exec'[e].turn = exec[e].turn
      BY <1>1, <2>2, PhasesOf, ExecFields DEF ExecMoves
    <3>2. run[exec[e].turn].state = "running"
      BY <2>2 DEF LifeInv
    <3>3. ASSUME NEW f \in Exec, exec[f].turn = exec[e].turn, Working(f), exec'[f].pc \in {"settling", "done"}
          PROVE  FALSE
      <4>1. f = e
        BY <2>2, <3>1, <3>3 DEF IInv, SafeInv, SoleDriver
      <4>2. QED
        BY <1>3, <3>3, <4>1 DEF Working, WorkingPcs
    <3>4. QED
      BY <1>1, <3>1, <3>2, <3>3 DEF RowMoves
  <2>3. CASE Start(e)
    <3>1. exec[e].turn \in Turn /\ exec'[e].turn = exec[e].turn
      BY <1>1, <2>3, RowsStart, ExecFields DEF ExecMoves
    <3>2. QED
      BY <2>3, <3>1, RowsStart
  <2>4. QED
    BY <2>1, <2>2, <2>3
<1>4. ASSUME NEW p \in Proc, NEW t \in Turn, cascade'[p][t] PROVE proc'[p] \in Bound
  <2>1. CASE proc'[p] = "serving"
    BY <2>1 DEF Bound
  <2>2. CASE cascade[p][t]
    <3>1. proc[p] \in Bound
      BY <2>2 DEF LifeInv
    <3>2. ~Dies(p)
      BY <1>4, ServerDies
    <3>3. QED
      BY <1>1, <3>1, <3>2 DEF ServerMoves
  <2>3. QED
    BY <1>1, <1>4, <2>1, <2>2 DEF ServerMoves
<1>5. ASSUME NEW q \in Proc, NEW rt \in Runtime, boot'[q][rt].phase # "off" PROVE proc'[q] = "booting"
  <2>1. CASE Boot(q)
    BY <2>1, ServerBoots
  <2>2. CASE boot[q][rt].phase # "off" /\ (proc[q] = "booting" => proc'[q] = "booting")
    BY <2>2 DEF LifeInv
  <2>3. QED
    BY <1>1, <1>5, <2>1, <2>2 DEF ServerMoves
<1>6. ASSUME NEW t \in Turn, Asked(t)' PROVE root'[t] \in {"cancel_requested", "cancelled"}
  BY <1>1, <1>6 DEF RequestMoves, LifeInv
<1>7. ASSUME NEW t \in Turn, run'[t].state = "running" PROVE crun'[t].state # "absent"
  <2>1. crun[t].state # "absent"
    <3>1. CASE run'[t] = run[t]
      BY <1>7, <3>1 DEF LifeInv
    <3>2. ASSUME NEW e \in Exec, exec[e].turn = t, Start(e) PROVE crun[t].state # "absent"
      BY <3>2, RowsStart DEF LifeInv
    <3>3. QED
      BY <1>1, <1>7, <3>1, <3>2 DEF RowMoves
  <2>2. QED
    BY <1>1, <2>1 DEF RequestMoves
<1>8. ASSUME NEW e \in Exec, exec'[e].turn \in Turn PROVE exec'[e].proc \in Proc
  <2>1. CASE exec[e].turn \in Turn
    BY <1>1, <2>1 DEF ExecMoves, LifeInv
  <2>2. CASE \E t \in Turn, p \in Proc : Adopt(e, t, p)
    BY <2>2, ExecAdopts
  <2>3. QED
    BY <1>1, <1>8, <2>1, <2>2 DEF ExecMoves
<1>9. QED
  BY <1>2, <1>3, <1>4, <1>5, <1>6, <1>7, <1>8 DEF LifeInv

LEMMA LeaseStep == ASSUME IInv, LifeInv, LeaseInv, [Next]_vars PROVE LeaseInv'
<1>1. IInv' /\ ExecMoves /\ LeaseMoves
  BY IInvStep, ExecMovesStep, LeaseMovesStep
<1>2. ASSUME NEW e \in Exec, Granted(e)'
      PROVE  /\ exec'[e].lease \in Exec /\ exec'[exec'[e].lease].turn = exec'[e].turn
             /\ exec'[exec'[e].lease].proc = exec'[e].proc
             /\ Known(exec'[e].turn) => lease'[exec'[e].turn] = exec'[e].lease
  <2>1. CASE Granted(e) /\ exec'[e].lease = exec[e].lease
    <3> DEFINE t == exec[e].turn  l == exec[e].lease
    <3>1. Active(e) /\ t \in Turn /\ exec'[e].turn = t /\ exec'[e].proc = exec[e].proc
      BY <1>1, <2>1, PhasesOf, ExecFields DEF ExecMoves
    <3>2. /\ l \in Exec /\ exec[l].turn = t /\ exec[l].proc = exec[e].proc
          /\ Known(t) => lease[t] = l
      BY <2>1 DEF LeaseInv
    <3>3. exec'[l].turn = t /\ exec'[l].proc = exec[e].proc
      BY <1>1, <3>1, <3>2 DEF ExecMoves
    <3>4. ASSUME Known(t) PROVE lease'[t] = l
      <4>1. lease[t] = l /\ lease[t] # None
        BY <3>2, <3>4, ExecFields
      <4>2. ~HeldByDead(t)
        BY <3>1, <3>2, <4>1 DEF HeldByDead, LifeInv, Bound
      <4>3. ASSUME NEW f \in Exec, Granted(f), exec[f].turn = t, exec[f].lease = lease[t], ~Granted(f)'
            PROVE  FALSE
        <5>1. Active(f) /\ exec[f].proc = exec[e].proc
          BY <3>2, <4>1, <4>3, PhasesOf DEF LeaseInv
        <5>2. f = e
          BY <3>1, <3>4, <4>3, <5>1 DEF LeaseInv
        <5>3. QED
          BY <1>2, <4>3, <5>2
      <4>4. QED
        BY <1>1, <3>1, <4>1, <4>2, <4>3 DEF LeaseMoves
    <3>5. QED
      BY <2>1, <3>1, <3>2, <3>3, <3>4
  <2>2. CASE AdmitResources(e)
    <3> DEFINE t == exec[e].turn
    <3>1. t \in Turn /\ exec'[e].turn = t /\ exec'[e].proc = exec[e].proc /\ \A f \in Exec \ {e} : exec'[f] = exec[f]
      BY <2>2, ExecAdmitted
    <3>2. \/ /\ exec'[e].lease = e /\ lease' = [lease EXCEPT ![t] = e]
          \/ /\ exec'[e].lease = lease[t] /\ lease' = lease
             /\ lease[t] # None /\ exec[lease[t]].proc = exec[e].proc
      BY <1>2, <2>2, ExecAdmitted DEF Granted, WorkingPcs
    <3>3. lease[t] # None => lease[t] \in Exec /\ exec[lease[t]].turn = t
      BY <3>1, LeaseFields
    <3>4. CASE exec'[e].lease = e /\ lease' = [lease EXCEPT ![t] = e]
      BY <3>1, <3>4, LeaseFields
    <3>5. CASE /\ exec'[e].lease = lease[t] /\ lease' = lease
               /\ lease[t] # None /\ exec[lease[t]].proc = exec[e].proc
      BY <3>1, <3>3, <3>5
    <3>6. QED
      BY <3>2, <3>4, <3>5
  <2>3. QED
    BY <1>1, <1>2, <2>1, <2>2 DEF ExecMoves
<1>3. ASSUME NEW e \in Exec, NEW f \in Exec, Active(e)', Active(f)', exec'[e].proc = exec'[f].proc,
             exec'[e].turn = exec'[f].turn, Known(exec'[e].turn), e # f
      PROVE  FALSE
  <2>1. ASSUME NEW x \in Exec, NEW y \in Exec, x # y, Active(y)', exec'[x].proc = exec'[y].proc,
               exec'[x].turn = exec'[y].turn, Known(exec'[x].turn),
               NEW t \in Turn, NEW p \in Proc, Adopt(x, t, p), exec'[x].turn = t, exec'[x].proc = p
        PROVE  FALSE
    <3>1. exec'[y] = exec[y] /\ ~SessionBusy(p, t)
      BY <2>1, ExecAdopts, AdoptEffect
    <3>2. Active(y) /\ exec[y].proc = p /\ exec[y].turn = t /\ SessionOf[t] # Fresh
      BY <2>1, <3>1 DEF Active, Known
    <3>3. QED
      BY <3>1, <3>2 DEF SessionBusy
  <2>2. CASE Active(e) /\ Active(f)
    <3>1. /\ exec'[e].turn = exec[e].turn /\ exec'[e].proc = exec[e].proc
          /\ exec'[f].turn = exec[f].turn /\ exec'[f].proc = exec[f].proc
      BY <1>1, <2>2, ExecFields DEF ExecMoves
    <3>2. QED
      BY <1>3, <2>2, <3>1 DEF LeaseInv
  <2>3. \/ Active(e)
        \/ \E t \in Turn, p \in Proc : Adopt(e, t, p) /\ exec'[e].turn = t /\ exec'[e].proc = p
    BY <1>3, ActiveBefore
  <2>4. \/ Active(f)
        \/ \E t \in Turn, p \in Proc : Adopt(f, t, p) /\ exec'[f].turn = t /\ exec'[f].proc = p
    BY <1>3, ActiveBefore
  <2>5. QED
    BY <1>3, <2>1, <2>2, <2>3, <2>4
<1>4. QED
  BY <1>2, <1>3 DEF LeaseInv

-----------------------------------------------------------------------------
(* One process at a time.                                                   *)
LEMMA SingleStep == ASSUME IInv, SingleInv, ~MayOverlap, [Next]_vars PROVE SingleInv'
<1>1. ServerMoves
  BY ServerMovesStep
<1>2. ASSUME NEW q \in Proc, Boot(q), NEW p \in Proc, Up(p)' PROVE p = q
  <2>1. proc[p] \notin {"booting", "serving", "exiting"} /\ proc[p] \in {"off", "booting", "serving", "exiting", "dead"}
    BY <1>2, ServerFields DEF Boot
  <2>2. p # q => proc'[p] = proc[p]
    BY <1>2, ServerBoots
  <2>3. QED
    BY <1>2, <2>1, <2>2 DEF Up
<1>3. \A p \in Proc : Up(p)' => Up(p) \/ Boot(p)
  BY <1>1 DEF ServerMoves
<1>4. QED
  BY <1>2, <1>3 DEF SingleInv

LEMMA OneHome ==
    ASSUME IInv, LifeInv, SingleInv, NEW e \in Exec, Active(e), NEW p \in Proc, Up(p)
    PROVE  exec[e].proc = p
BY ExecFields DEF LifeInv, SingleInv, Up, Bound

LEMMA RequestStep ==
    ASSUME IInv, LifeInv, SingleInv, RequestInv, [Next]_vars PROVE RequestInv'
<1>1. ExecMoves /\ RowMoves /\ RequestMoves
  BY ExecMovesStep, RowMovesStep, RequestMovesStep
<1>2. SUFFICES ASSUME NEW e \in Exec, Active(e)'
               PROVE  /\ crun'[exec'[e].turn].state # "reaped"
                      /\ ~exec'[e].aborted /\ run'[exec'[e].turn].state \in {"claimed", "running"}
                         => crun'[exec'[e].turn].state = "active"
  BY DEF RequestInv
<1>3. CASE \E t \in Turn, p \in Proc : Adopt(e, t, p) /\ exec'[e].turn = t /\ exec'[e].proc = p
  BY <1>3, AdoptEffect
<1>4. CASE /\ Active(e) /\ exec'[e].turn = exec[e].turn /\ exec'[e].proc = exec[e].proc
           /\ exec[e].aborted => exec'[e].aborted
  <2> DEFINE t == exec[e].turn
  <2>1. t \in Turn /\ exec[e].proc \in Proc /\ proc[exec[e].proc] \in Bound
    BY <1>4, ExecFields DEF LifeInv
  <2>2. crun'[t].state # "reaped"
    <3>1. crun[t].state # "reaped"
      BY <1>4 DEF RequestInv
    <3>2. ASSUME NEW p \in Proc, cascade[p][t], ActiveOn(p, t) = {} PROVE FALSE
      <4>1. Up(p)
        BY <2>1, <3>2 DEF LifeInv, Up, Bound
      <4>2. exec[e].proc = p
        BY <1>4, <4>1, OneHome
      <4>3. QED
        BY <1>4, <3>2, <4>2 DEF ActiveOn
    <3>3. ASSUME NEW q \in Proc, NEW rt \in Runtime, boot[q][rt].phase = "reap" PROVE FALSE
      <4>1. proc[q] = "booting"
        BY <3>3 DEF LifeInv
      <4>2. exec[e].proc = q
        BY <1>4, <4>1, OneHome DEF Up
      <4>3. QED
        BY <2>1, <4>1, <4>2 DEF Bound
    <3>4. QED
      BY <1>1, <2>1, <3>1, <3>2, <3>3 DEF RequestMoves
  <2>3. ASSUME ~exec'[e].aborted, run'[t].state \in {"claimed", "running"} PROVE crun'[t].state = "active"
    <3>1. run[t].state \in {"claimed", "running"}
      <4>1. run[t].state # "absent"
        BY <1>4 DEF LifeInv
      <4>2. run[t].state # "terminal"
        BY <1>1, <2>1, <2>3 DEF RowMoves
      <4>3. QED
        BY <2>1, <4>1, <4>2, RowFields DEF RunRowStates
    <3>2. ~exec[e].aborted
      BY <1>4, <2>3, ExecFields
    <3>3. crun[t].state = "active"
      BY <1>4, <3>1, <3>2 DEF RequestInv
    <3>4. ASSUME NEW p \in Proc, proc[p] = "serving", \A f \in ActiveOn(p, t) : exec'[f].aborted PROVE FALSE
      <4>1. exec[e].proc = p
        BY <1>4, <3>4, OneHome DEF Up
      <4>2. QED
        BY <1>4, <2>3, <3>4, <4>1 DEF ActiveOn
    <3>5. QED
      BY <1>1, <2>1, <2>3, <3>3, <3>4 DEF RequestMoves
  <2>4. QED
    BY <1>4, <2>2, <2>3
<1>5. QED
  BY <1>2, <1>3, <1>4, ActiveBefore

LEMMA EarlyStep ==
    ASSUME IInv, LifeInv, LeaseInv, SingleInv, EarlyInv, [Next]_vars PROVE EarlyInv'
<1>1. ExecMoves /\ RowMoves
  BY ExecMovesStep, RowMovesStep
<1>2. SUFFICES ASSUME NEW e \in Exec, exec'[e].pc \in Early, Known(exec'[e].turn)
               PROVE  run'[exec'[e].turn].state = "claimed"
  BY DEF EarlyInv, Known
<1>3. ASSUME NEW t \in Turn, NEW p \in Proc, Adopt(e, t, p) PROVE run'[exec'[e].turn].state = "claimed"
  BY <1>3, ExecAdopts, AdoptEffect
<1>4. CASE exec[e].pc \in Early
  <2> DEFINE t == exec[e].turn
  <2>1. Active(e) /\ t \in Turn /\ exec'[e].turn = t /\ Known(t)
    BY <1>1, <1>2, <1>4, PhasesOf, ExecFields DEF ExecMoves
  <2>2. run[t].state = "claimed"
    BY <1>4, <2>1 DEF EarlyInv
  <2>3. ASSUME NEW f \in Exec, Active(f), exec[f].turn = t PROVE f = e
    <3>1. exec[e].proc = exec[f].proc
      BY <2>1, <2>3, OneHome, ExecFields DEF LifeInv, Up, Bound
    <3>2. QED
      BY <2>1, <2>3, <3>1 DEF LeaseInv
  <2>4. ASSUME NEW f \in Exec, exec[f].turn = t, Start(f) PROVE FALSE
    <3>1. f = e /\ exec'[f].pc = "probing"
      BY <2>3, <2>4, RowsStart
    <3>2. QED
      BY <1>2, <3>1 DEF Early
  <2>5. ASSUME NEW f \in Exec, exec[f].turn = t, Active(f), exec'[f].pc \in {"settling", "done"} PROVE FALSE
    BY <1>2, <2>3, <2>5 DEF Early
  <2>6. QED
    BY <1>1, <2>1, <2>2, <2>4, <2>5 DEF RowMoves
<1>5. QED
  BY <1>1, <1>2, <1>3, <1>4 DEF ExecMoves

LEMMA HolderStep ==
    ASSUME IInv, LifeInv, LeaseInv, EarlyInv, HolderInv, [Next]_vars PROVE HolderInv'
<1>1. ExecMoves /\ LeaseMoves /\ ServerMoves
  BY ExecMovesStep, LeaseMovesStep, ServerMovesStep
<1>2. SUFFICES ASSUME NEW t \in Turn, Known(t), lease'[t] # None, proc'[exec'[lease'[t]].proc] # "dead"
               PROVE  \E e \in Exec : exec'[e].turn = t /\ Granted(e)' /\ exec'[e].lease = lease'[t]
  BY DEF HolderInv, Known
<1>3. CASE lease'[t] = lease[t]
  <2> DEFINE l == lease[t]
  <2>1. l \in Exec /\ exec[l].turn = t
    BY <1>2, <1>3, LeaseFields
  <2>2. exec'[l].proc = exec[l].proc
    BY <1>1, <2>1 DEF ExecMoves
  <2>3. exec[l].proc \in Proc /\ proc[exec[l].proc] # "dead"
    BY <1>1, <1>2, <1>3, <2>1, <2>2 DEF ServerMoves, LifeInv
  <2>4. PICK e \in Exec : exec[e].turn = t /\ Granted(e) /\ exec[e].lease = l
    BY <1>2, <1>3, <2>1, <2>3 DEF HolderInv
  <2>5. Active(e) /\ exec'[e].turn = t /\ exec[l].proc = exec[e].proc
    BY <1>1, <2>4, PhasesOf DEF ExecMoves, LeaseInv
  <2>6. Granted(e)'
    <3>1. lease'[t] # None /\ lease[t] = exec[e].lease
      BY <1>2, <2>4
    <3>2. ~Dies(exec[e].proc)
      BY <1>2, <1>3, <2>2, <2>3, <2>5, ServerDies
    <3>3. exec[e].pc = "admitted" => run[t].state = "claimed"
      BY <1>2, <2>4 DEF EarlyInv, Early
    <3>4. QED
      BY <1>1, <2>4, <3>1, <3>2, <3>3 DEF LeaseMoves
  <2>7. exec'[e].lease = l
    BY <1>1, <2>4, <2>6, ExecAdmitted DEF ExecMoves
  <2>8. QED
    BY <1>3, <2>5, <2>6, <2>7
<1>4. ASSUME NEW e \in Exec, AdmitResources(e), exec[e].turn = t, lease'[t] = e, Granted(e)', exec'[e].lease = e
      PROVE  exec'[e].turn = t
  BY <1>4, ExecAdmitted
<1>5. QED
  BY <1>1, <1>2, <1>3, <1>4 DEF LeaseMoves

LEMMA DriverStep ==
    ASSUME IInv, LifeInv, SingleInv, RequestInv, RunningHasDriver, StartupInv, [Next]_vars
    PROVE  RunningHasDriver'
<1>1. ExecMoves /\ RowMoves /\ ServerMoves
  BY ExecMovesStep, RowMovesStep, ServerMovesStep
<1>2. SUFFICES ASSUME NEW p \in Proc, proc'[p] = "serving", NEW t \in Turn, run'[t].state = "running"
               PROVE  recovery'[t].disposition = "uncertain" \/ \E e \in Exec : Working(e)' /\ exec'[e].turn = t
  BY DEF RunningHasDriver, Working
<1>3. CASE Listen(p)
  <2>1. boot[p][RuntimeOf[t]].phase = "resume" /\ RuntimeOf[t] \in Runtime
    BY <1>3, SupervisorAssumption DEF Listen, Ready
  <2>2. run' = run /\ recovery' = recovery
    BY <1>3 DEF Listen
  <2>3. Listed(p, RuntimeOf[t], t)
    BY <1>2, <2>1, <2>2 DEF StartupInv
  <2>4. QED
    BY <2>1, <2>2, <2>3 DEF Listed
<1>4. CASE proc[p] = "serving" /\ run[t].state = "running"
  <2>1. recovery[t].disposition = "uncertain" \/ \E e \in Exec : Working(e) /\ exec[e].turn = t
    BY <1>4 DEF RunningHasDriver
  <2>2. ASSUME NEW e \in Exec, Working(e), exec[e].turn = t PROVE Working(e)' /\ exec'[e].turn = t
    <3>1. Active(e) /\ exec'[e].turn = t
      BY <1>1, <2>2, PhasesOf DEF ExecMoves
    <3>2. ~Dies(exec[e].proc)
      <4>1. exec[e].proc = p
        BY <1>4, <3>1, OneHome DEF Up
      <4>2. QED
        BY <1>2, <4>1, ServerDies
    <3>3. ~FinishFenced(e)
      <4>1. CanFinish(t, 1, 1)
        BY <1>4, RowFields
      <4>2. ~exec[e].aborted => crun[t].state = "active"
        BY <1>4, <2>2, <3>1 DEF RequestInv
      <4>3. QED
        BY <2>2, <4>1, <4>2 DEF FinishFenced
    <3>4. QED
      BY <1>2, <2>2, <3>1, <3>2, <3>3, WorkStops
  <2>3. QED
    BY <2>1, <2>2, UncertainStays
<1>5. CASE run[t].state # "running"
  <2>1. PICK e \in Exec : exec[e].turn = t /\ Start(e)
    BY <1>1, <1>2, <1>5 DEF RowMoves
  <2>2. Active(e) /\ exec'[e].pc = "probing"
    BY <2>1, RowsStart
  <2>3. exec'[e].turn = t
    BY <1>1, <2>1 DEF ExecMoves
  <2>4. QED
    BY <2>2, <2>3 DEF Working, WorkingPcs
<1>6. QED
  BY <1>1, <1>2, <1>3, <1>4, <1>5 DEF ServerMoves

(* While a process starts, nothing else happens but its own startup.        *)
BootMove(q, rt) ==
    \/ ListNonTerminalRuns(q, rt)
    \/ \E r \in boot[q][rt].runs : ReconcileRun(q, rt, r)
    \/ ListPendingRoots(q, rt) \/ ResumeReaped(q, rt)
    \/ \E t \in Turn : \/ ResumeCancellation(q, rt, t)
                       \/ ResumeSettled(q, rt, t)
                       \/ ResumeClosed(q, rt, t)

LEMMA StartupOnly ==
    ASSUME IInv, LifeInv, SingleInv, [Next]_vars, NEW q \in Proc, NEW s \in Runtime,
           boot[q][s].phase # "off", boot'[q][s].phase # "off"
    PROVE  run' = run /\ (UNCHANGED <<recovery, boot>> \/ \E rt \in Runtime : BootMove(q, rt))
<1> DEFINE Goal == run' = run /\ (UNCHANGED <<recovery, boot>> \/ \E rt \in Runtime : BootMove(q, rt))
<1>1. proc[q] = "booting" /\ \A p \in Proc : Up(p) => p = q
  BY DEF LifeInv, SingleInv, Up
<1>2. ASSUME NEW p \in Proc, proc[p] \in Bound PROVE FALSE
  BY <1>1, <1>2 DEF Bound, Up
<1>3. ASSUME NEW e \in Exec, Active(e) PROVE FALSE
  BY <1>2, <1>3, ExecFields DEF LifeInv
<1>4. ASSUME NEW e \in Exec, ExecStep(e) PROVE FALSE
  <2>1. Active(e)
    BY <1>4 DEF ExecStep, PersistUserLine, AdmitResources, Start, StartSuperseded, StartFails, Dispatch, NextRound,
                Finish, Finishes, FinishFenced, Settle, Working, WorkingPcs, Active, ExecPcs
  <2>2. QED
    BY <1>3, <2>1
<1>5. ASSUME NEW e \in Exec, NEW ok \in BOOLEAN, CrashAfterFinish(e, ok) PROVE FALSE
  BY <1>3, <1>5, EndedPc
<1>6. ASSUME NEW p \in Proc, NEW t \in Turn, Cancel(p, t) \/ CancelTooLate(p, t) \/ CrashInAdopt(t, p) PROVE FALSE
  BY <1>2, <1>6 DEF Cancel, CancelTooLate, CrashInAdopt, Bound
<1>7. ASSUME NEW e \in Exec, NEW t \in Turn, NEW p \in Proc,
             Adopt(e, t, p) \/ AdoptBusy(e, t, p) \/ AdoptRefused(e, t, p)
      PROVE  FALSE
  BY <1>2, <1>7 DEF Adopt, AdoptBusy, AdoptRefused, Arrives, Bound
<1>8. ASSUME NEW p \in Proc, NEW t \in Turn, cascade[p][t] PROVE FALSE
  BY <1>2, <1>8 DEF LifeInv
<1>9. ASSUME NEW p \in Proc, p = q, Dies(p) PROVE FALSE
  BY <1>9, ServerDies
<1>10. ASSUME NEW p \in Proc, ReleaseListener(p) \/ Crash(p) PROVE FALSE
  <2>1. Up(p)
    BY <1>10 DEF ReleaseListener, Crash, Up
  <2>2. p = q
    BY <1>1, <2>1
  <2>3. QED
    BY <1>1, <1>9, <1>10, <2>2 DEF ReleaseListener, Crash
<1>11. ASSUME NEW p \in Proc, NEW t \in Turn, CascadeReaped(p, t) \/ CrashInCascade(p, t) PROVE FALSE
  <2>1. CrashInCascade(p, t) /\ \E rt \in Runtime : boot[p][rt].phase = "reap"
    BY <1>8, <1>11 DEF CascadeReaped, CrashInCascade
  <2>2. p = q
    BY <1>1, <2>1 DEF LifeInv, Up
  <2>3. QED
    BY <1>9, <2>1, <2>2 DEF CrashInCascade
<1>12. ASSUME NEW p \in Proc, NEW t \in Turn, WatchdogTick(p, t) PROVE Goal
  BY <1>12 DEF WatchdogTick
<1>13. ASSUME NEW p \in Proc, BootStep(p) PROVE Goal
  <2>1. CASE Boot(p)
    BY <1>1, <2>1 DEF Boot
  <2>2. CASE Listen(p) \/ StartupFails(p)
    <3>1. proc[p] = "booting"
      BY <2>2 DEF Listen, StartupFails, LifeInv
    <3>2. p = q
      BY <1>1, <3>1 DEF Up
    <3>3. QED
      BY <1>9, <2>2, <3>2, ServerFields DEF Listen, StartupFails, NoBoot
  <2>3. ASSUME NEW rt \in Runtime, BootMove(p, rt) PROVE Goal
    <3>1. boot[p][rt].phase # "off" /\ run' = run
      BY <2>3 DEF BootMove, ListNonTerminalRuns, ReconcileRun, ListPendingRoots, ResumeReaped,
                  ResumeCancellation, ResumeSettled, ResumeClosed, Resuming
    <3>2. p = q
      BY <1>1, <3>1 DEF LifeInv, Up
    <3>3. QED
      BY <2>3, <3>1, <3>2
  <2>4. QED
    BY <1>13, <2>1, <2>2, <2>3 DEF BootStep, BootMove
<1>14. CASE UNCHANGED vars
  BY <1>14 DEF vars
<1> HIDE DEF Goal
<1>15. QED
  BY <1>4, <1>5, <1>6, <1>7, <1>10, <1>11, <1>12, <1>13, <1>14 DEF Next, Goal

StartupOf(q, rt) ==
    /\ \A r \in boot[q][rt].runs : RuntimeOf[r.turn] = rt /\ r.state = run[r.turn].state
    /\ \A t \in Turn : RuntimeOf[t] = rt /\ run[t].state = "running" => Listed(q, rt, t)

LEMMA StartupStep ==
    ASSUME IInv, LifeInv, SingleInv, StartupInv, [Next]_vars PROVE StartupInv'
<1>1. SUFFICES ASSUME NEW q \in Proc, NEW s \in Runtime, boot'[q][s].phase # "off" PROVE StartupOf(q, s)'
  BY DEF StartupInv, StartupOf
<1>2. CASE Boot(q)
  <2>1. boot'[q][s].phase = "list" /\ boot'[q][s].runs = {}
    BY <1>2, ServerBoots
  <2>2. QED
    BY <2>1 DEF StartupOf, Listed
<1>3. CASE boot[q][s].phase # "off"
  <2>1. run' = run /\ StartupOf(q, s)
    BY <1>1, <1>3, StartupOnly DEF StartupInv, StartupOf
  <2>2. ASSUME NEW t \in Turn, RuntimeOf[t] = s, run[t].state = "running" PROVE Listed(q, s, t)
    BY <2>1, <2>2 DEF StartupOf
  <2>3. CASE UNCHANGED <<recovery, boot>>
    BY <2>1, <2>3 DEF StartupOf, Listed
  <2>4. CASE UNCHANGED recovery /\ boot'[q][s] = boot[q][s]
    BY <2>1, <2>4 DEF StartupOf, Listed
  <2>5. ASSUME boot'[q][s].runs = {}, UNCHANGED recovery,
               \A t \in Turn : RuntimeOf[t] = s /\ run[t].state = "running" =>
                   recovery[t].disposition = "uncertain" \/ boot'[q][s].phase = "failed"
        PROVE  StartupOf(q, s)'
    BY <2>1, <2>5 DEF StartupOf, Listed
  <2>6. ASSUME NEW rt \in Runtime, NEW r \in boot[q][rt].runs, ReconcileRun(q, rt, r) PROVE StartupOf(q, s)'
    <3>1. /\ r.turn \in Turn /\ r.epoch \in Nat /\ RuntimeOf[r.turn] = rt /\ r.state = run[r.turn].state
          /\ r = [turn |-> r.turn, state |-> r.state, epoch |-> r.epoch]
      <4>1. boot[q][rt].phase # "off"
        BY <2>6 DEF ReconcileRun
      <4>2. RuntimeOf[r.turn] = rt /\ r.state = run[r.turn].state
        BY <4>1 DEF StartupInv
      <4>3. boot[q][rt] \in BootRecords
        BY ServerFields
      <4>4. r \in [turn : Turn, state : {"claimed", "running"}, epoch : Nat]
        BY <4>3 DEF BootRecords
      <4>5. QED
        BY <4>2, <4>4
    <3>2. \A t \in Turn \ {r.turn} : recovery'[t] = recovery[t]
      BY <2>6, ServerFields DEF ReconcileRun
    <3>3. CASE rt # s
      <4>1. boot'[q][s] = boot[q][s]
        BY <2>6, <3>3, ServerFields DEF ReconcileRun, SetBoot
      <4>2. \A t \in Turn : RuntimeOf[t] = s => recovery'[t] = recovery[t]
        BY <3>1, <3>2, <3>3
      <4>3. QED
        BY <2>1, <4>1, <4>2 DEF StartupOf, Listed
    <3>4. CASE rt = s
      <4>1. boot'[q][s].phase = "reconcile" /\ boot'[q][s].runs = boot[q][s].runs \ {r}
        BY <2>6, <3>4, ServerFields DEF ReconcileRun, SetBoot
      <4>2. boot[q][s].phase = "reconcile"
        BY <2>6, <3>4 DEF ReconcileRun
      <4>3. ASSUME NEW t \in Turn, RuntimeOf[t] = s, run[t].state = "running" PROVE Listed(q, s, t)'
        <5>1. \/ recovery[t].disposition = "uncertain"
              \/ [turn |-> t, state |-> "running", epoch |-> recovery[t].epoch] \in boot[q][s].runs
          BY <2>2, <4>2, <4>3 DEF Listed
        <5>2. CASE recovery[t].disposition = "uncertain"
          BY <5>2, UncertainStays DEF Listed
        <5>3. CASE /\ [turn |-> t, state |-> "running", epoch |-> recovery[t].epoch] \in boot[q][s].runs \ {r}
                   /\ recovery'[t] = recovery[t]
          BY <4>1, <5>3 DEF Listed
        <5>4. CASE t = r.turn /\ recovery[t].epoch = r.epoch
          <6>1. recovery'[t].disposition = "uncertain"
            BY <2>6, <3>1, <4>3, <5>4, ServerFields DEF ReconcileRun
          <6>2. QED
            BY <6>1 DEF Listed
        <5>5. CASE t = r.turn /\ recovery[t].epoch # r.epoch
          <6>1. recovery' = recovery
            BY <2>6, <5>5 DEF ReconcileRun
          <6>2. [turn |-> t, state |-> "running", epoch |-> recovery[t].epoch] # r
            BY <5>5
          <6>3. QED
            BY <5>1, <5>2, <5>3, <6>1, <6>2
        <5>6. CASE t # r.turn
          <6>1. [turn |-> t, state |-> "running", epoch |-> recovery[t].epoch] # r
            BY <5>6
          <6>2. QED
            BY <3>2, <5>1, <5>2, <5>3, <5>6, <6>1
        <5>7. QED
          BY <5>4, <5>5, <5>6
      <4>4. \A x \in boot'[q][s].runs : RuntimeOf[x.turn] = s /\ x.state = run'[x.turn].state
        BY <2>1, <4>1 DEF StartupOf
      <4>5. QED
        BY <2>1, <4>3, <4>4 DEF StartupOf
    <3>5. QED
      BY <3>3, <3>4
  <2>7. ASSUME NEW rt \in Runtime, ListNonTerminalRuns(q, rt) PROVE StartupOf(q, s)'
    <3>1. UNCHANGED recovery
      BY <2>7 DEF ListNonTerminalRuns
    <3>2. CASE rt # s
      <4>1. boot'[q][s] = boot[q][s]
        BY <2>7, <3>2, ServerFields DEF ListNonTerminalRuns, SetBoot
      <4>2. QED
        BY <2>4, <3>1, <4>1
    <3>3. CASE rt = s
      <4> DEFINE L == {u \in Turn : /\ RuntimeOf[u] = s
                                    /\ run[u].state \notin {"absent", "terminal"}
                                    /\ crun[u].state # "absent"
                                    /\ recovery[u].disposition = "active"}
                 D == {[turn |-> t, state |-> run[t].state, epoch |-> recovery[t].epoch] : t \in L}
      <4>1. boot'[q][s].phase = "reconcile" /\ boot'[q][s].runs = D
        BY <2>7, <3>3, ServerFields DEF ListNonTerminalRuns, SetBoot
      <4>2. \A x \in D : RuntimeOf[x.turn] = s /\ x.state = run[x.turn].state
        OBVIOUS
      <4>3. ASSUME NEW t \in Turn, RuntimeOf[t] = s, run[t].state = "running" PROVE Listed(q, s, t)'
        <5>1. crun[t].state # "absent" /\ recovery[t].disposition \in {"active", "uncertain"}
          BY <4>3, ServerFields DEF LifeInv
        <5>2. t \in L => [turn |-> t, state |-> "running", epoch |-> recovery[t].epoch] \in D
          BY <4>3
        <5>3. t \in L \/ recovery[t].disposition = "uncertain"
          BY <4>3, <5>1
        <5>4. QED
          BY <3>1, <4>1, <5>2, <5>3 DEF Listed
      <4>4. QED
        BY <2>1, <4>1, <4>2, <4>3 DEF StartupOf
    <3>4. QED
      BY <3>2, <3>3
  <2>8. ASSUME NEW rt \in Runtime, UNCHANGED recovery, boot[q][rt].phase \in {"resume", "reap"},
               \E phase, roots, cur : SetBoot(q, rt, phase, {}, roots, cur)
        PROVE  StartupOf(q, s)'
    <3>1. boot'[q][rt].runs = {} /\ \A u \in Runtime \ {rt} : boot'[q][u] = boot[q][u]
      BY <2>8, ServerFields DEF SetBoot
    <3>2. CASE rt = s
      <4>1. \A t \in Turn : RuntimeOf[t] = s /\ run[t].state = "running" => recovery[t].disposition = "uncertain"
        BY <2>2, <2>8, <3>2 DEF Listed
      <4>2. QED
        BY <2>5, <2>8, <3>1, <3>2, <4>1
    <3>3. CASE rt # s
      BY <2>4, <2>8, <3>1, <3>3
    <3>4. QED
      BY <3>2, <3>3
  <2>9. ASSUME NEW rt \in Runtime, ListPendingRoots(q, rt) PROVE StartupOf(q, s)'
    <3>1. /\ UNCHANGED recovery /\ boot[q][rt].phase = "reconcile" /\ boot[q][rt].runs = {}
          /\ \A u \in Runtime \ {rt} : boot'[q][u] = boot[q][u]
          /\ boot'[q][rt].runs = {}
      BY <2>9, ServerFields DEF ListPendingRoots, SetBoot
    <3>2. CASE rt = s
      <4>1. \A t \in Turn : RuntimeOf[t] = s /\ run[t].state = "running" => recovery[t].disposition = "uncertain"
        BY <2>2, <3>1, <3>2 DEF Listed
      <4>2. QED
        BY <2>5, <3>1, <3>2, <4>1
    <3>3. CASE rt # s
      BY <2>4, <3>1, <3>3
    <3>4. QED
      BY <3>2, <3>3
  <2>10. ASSUME NEW rt \in Runtime, NEW t, NEW ok, Resumed(q, rt, t, ok), boot[q][rt].phase \in {"resume", "reap"}
         PROVE  \E phase, roots, cur : SetBoot(q, rt, phase, {}, roots, cur)
    BY <2>10 DEF Resumed
  <2>11. ASSUME NEW rt \in Runtime, ResumeReaped(q, rt) PROVE StartupOf(q, s)'
    <3>1. UNCHANGED recovery /\ boot[q][rt].phase = "reap" /\ \E t, ok : Resumed(q, rt, t, ok)
      BY <2>11 DEF ResumeReaped
    <3>2. QED
      BY <2>8, <2>10, <3>1
  <2>12. ASSUME NEW rt \in Runtime, NEW t \in Turn, ResumeCancellation(q, rt, t) PROVE StartupOf(q, s)'
    <3>1. UNCHANGED recovery /\ boot[q][rt].phase = "resume"
      BY <2>12 DEF ResumeCancellation, Resuming
    <3>2. \E phase, roots, cur : SetBoot(q, rt, phase, {}, roots, cur)
      BY <2>12, <2>10, <3>1 DEF ResumeCancellation
    <3>3. QED
      BY <2>8, <3>1, <3>2
  <2>13. ASSUME NEW rt \in Runtime, NEW t \in Turn, ResumeSettled(q, rt, t) \/ ResumeClosed(q, rt, t)
         PROVE  StartupOf(q, s)'
    <3>1. UNCHANGED recovery /\ boot[q][rt].phase = "resume" /\ \E ok : Resumed(q, rt, t, ok)
      BY <2>13 DEF ResumeSettled, ResumeClosed, Resuming
    <3>2. QED
      BY <2>8, <2>10, <3>1
  <2>14. ASSUME NEW rt \in Runtime, BootMove(q, rt) PROVE StartupOf(q, s)'
    BY <2>6, <2>7, <2>9, <2>11, <2>12, <2>13, <2>14 DEF BootMove
  <2>15. QED
    BY <1>1, <1>3, <2>3, <2>14, StartupOnly
<1>4. QED
  BY <1>1, <1>2, <1>3, ServerMovesStep DEF ServerMoves

-----------------------------------------------------------------------------
LEMMA LongInit == Init => LongInv
<1> SUFFICES ASSUME Init PROVE LongInv
  OBVIOUS
<1>1. IInv
  BY IInvInit
<1>2. \A e \in Exec : exec[e].pc = "idle" /\ exec[e].turn = None
  BY DEF Init, IdleExec
<1>3. \A p \in Proc : proc[p] = "off" /\ \A rt \in Runtime : boot[p][rt].phase = "off"
  BY DEF Init, NoBoot
<1>4. \A t \in Turn : run[t].state = "absent" /\ crun[t].state = "absent" /\ lease[t] = None
  BY DEF Init, RepositoryInit, NoRow, Row, Cancellation!Init, Cancellation!NoRun
<1>5. \A e \in Exec : ~Active(e) /\ ~Working(e) /\ ~Granted(e) /\ exec[e].pc \notin Early
  BY <1>2 DEF Active, Working, Granted, Early, ExecPcs, WorkingPcs
<1>6. LifeInv
  <2>1. \A p \in Proc, t \in Turn : ~cascade[p][t]
    BY DEF Init
  <2>2. None \notin Turn
    BY SupervisorAssumption
  <2>3. QED
    BY <1>2, <1>3, <1>4, <1>5, <2>1, <2>2 DEF LifeInv, Asked
<1>7. LeaseInv
  BY <1>5 DEF LeaseInv
<1>8. AloneInv
  BY <1>3, <1>4, <1>5 DEF AloneInv, SingleInv, RequestInv, EarlyInv, HolderInv, RunningHasDriver, StartupInv, Up
<1>9. QED
  BY <1>1, <1>6, <1>7, <1>8 DEF LongInv

LEMMA LongStep == LongInv /\ [Next]_vars => LongInv'
<1> SUFFICES ASSUME LongInv, [Next]_vars PROVE LongInv'
  OBVIOUS
<1>1. IInv /\ LifeInv /\ LeaseInv
  BY DEF LongInv
<1>2. IInv' /\ LifeInv' /\ LeaseInv'
  BY <1>1, IInvStep, LifeStep, LeaseStep
<1>3. ASSUME ~MayOverlap PROVE AloneInv'
  <2>1. SingleInv /\ RequestInv /\ EarlyInv /\ HolderInv /\ RunningHasDriver /\ StartupInv
    BY <1>3 DEF LongInv, AloneInv
  <2>2. SingleInv' /\ RequestInv' /\ EarlyInv' /\ HolderInv' /\ RunningHasDriver' /\ StartupInv'
    BY <1>1, <1>3, <2>1, SingleStep, RequestStep, EarlyStep, HolderStep, DriverStep, StartupStep
  <2>3. QED
    BY <2>2 DEF AloneInv
<1>4. QED
  BY <1>2, <1>3 DEF LongInv

LEMMA LongInvariance == Spec => []LongInv
  BY LongInit, LongStep, PTL DEF Spec

(* There is no unreserved execution path: whoever is past the dispatch      *)
(* boundary holds the active lease of its turn, also when processes overlap *)
(* or a dead owner's pid is reused.  The turns belong to a session the      *)
(* client named; a first message without one gets a session per execute()   *)
(* call, and two such calls in one process share the turn's lease.          *)
THEOREM Reserved == ASSUME \A t \in Turn : Known(t) PROVE Spec => []WorkingHoldsLease
<1>1. LongInv => WorkingHoldsLease
  <2> SUFFICES ASSUME LongInv, NEW e \in Exec, Working(e)
               PROVE  lease[exec[e].turn] = exec[e].lease /\ exec[e].lease # None
    BY DEF WorkingHoldsLease
  <2>1. Granted(e) /\ exec[e].turn \in Turn
    BY PhasesOf, ExecFields DEF LongInv
  <2>2. QED
    BY <2>1, ExecFields DEF LongInv, LeaseInv
<1> QED BY <1>1, LongInvariance, PTL

(* Capacity is not leaked while its owner lives: an active lease granted by *)
(* a process that is not dead has an execution that will give it back.      *)
(* One process at a time; the turns belong to a named session.              *)
THEOREM Returned == ASSUME ~MayOverlap, \A t \in Turn : Known(t) PROVE Spec => []LeaseHasHolder
<1>1. LongInv => LeaseHasHolder
  <2> SUFFICES ASSUME LongInv, NEW t \in Turn, lease[t] # None, proc[exec[lease[t]].proc] # "dead"
               PROVE  \E e \in Exec : /\ exec[e].turn = t /\ exec[e].lease = lease[t]
                                      /\ exec[e].pc \in WorkingPcs \cup {"admitted"}
    BY DEF LeaseHasHolder
  <2>1. QED
    BY DEF LongInv, AloneInv, HolderInv, Granted
<1> QED BY <1>1, LongInvariance, PTL

(* A run is reaped only when no execution of its turn can emit effects any  *)
(* more, in any process, as long as one process runs at a time.             *)
THEOREM QuietWhenReaped == ASSUME ~MayOverlap PROVE Spec => []ReapedIsQuiet
<1>1. LongInv => ReapedIsQuiet
  <2>1. \A e \in Exec : Working(e) => Active(e)
    BY PhasesOf
  <2>2. QED
    BY <2>1 DEF LongInv, AloneInv, RequestInv, ReapedIsQuiet
<1> QED BY <1>1, LongInvariance, PTL

(* While a server serves, a row that says running has an execution at work, *)
(* or startup recovery has marked it uncertain: no crash, failed startup or *)
(* fenced finish leaves a run that nobody drives.  One process at a time.   *)
THEOREM Driven == ASSUME ~MayOverlap PROVE Spec => []RunningHasDriver
<1>1. LongInv => RunningHasDriver
  BY DEF LongInv, AloneInv
<1> QED BY <1>1, LongInvariance, PTL

(* Once cancellation is durable no further provider request of that turn is *)
(* sent, in any later round.  One process at a time.                        *)
THEOREM CancelStopsDispatch == ASSUME ~MayOverlap PROVE Spec => NoDispatchAfterCancel
<1> DEFINE Step == \A e \in Exec : (exec[e].pc = "probing" /\ exec'[e].pc = "invoking")
                                   => crun[exec[e].turn].state = "active"
<1>1. LongInv /\ [Next]_vars => [Step]_vars
  <2> SUFFICES ASSUME LongInv, [Next]_vars, NEW e \in Exec, exec[e].pc = "probing", exec'[e].pc = "invoking"
               PROVE  crun[exec[e].turn].state = "active"
    OBVIOUS
  <2>1. ~exec[e].aborted
    BY SentByDispatch DEF LongInv, Dispatch
  <2>2. Working(e) /\ Active(e)
    BY PhasesOf DEF Working, WorkingPcs
  <2>3. run[exec[e].turn].state = "running"
    BY <2>2 DEF LongInv, LifeInv
  <2>4. QED
    BY <2>1, <2>2, <2>3 DEF LongInv, AloneInv, RequestInv
<1> HIDE DEF Step
<1>2. Spec => [][Step]_vars
  BY <1>1, LongInvariance, PTL DEF Spec
<1> QED BY <1>2 DEF NoDispatchAfterCancel, Step
===============================================================================
