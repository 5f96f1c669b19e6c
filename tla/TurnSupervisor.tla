--------------------------- MODULE TurnSupervisor ---------------------------
(***************************************************************************)
(* Supervised chat turns, end to end: two runtimes (hosted, CLI) in one    *)
(* server process, several executions of the same message (resends),       *)
(* user cancellation, crashes, a successor started beside a live server,   *)
(* and startup recovery.  Tables survive a process; executions, the writer *)
(* fence, the active map and cascades die with it.  One action is the code *)
(* between two awaits.  Sources: server/modules/turn-supervisor/           *)
(* {cli,hosted}-turn-supervisor.service.ts, orchestrator.ts, recovery.ts,  *)
(* cancel-cascade.ts, resource-admission.ts, watchdog.ts, lifecycle.ts,    *)
(* and services/{shutdown-drain,listen-with-guard}.service.ts.             *)
(***************************************************************************)
EXTENDS TurnRepository, FiniteSets

CONSTANTS Exec,        \* execute() calls, over all processes
          Proc,        \* server process incarnations
          Runtime,     \* the two supervisor services
          RuntimeOf,   \* which service runs a turn
          SessionOf,   \* the chat session of a turn, or Fresh
          Fresh,       \* no session yet: each execute() invents its own
          MayOverlap,  \* whether a process may start beside a live one
          Reused,      \* processes whose pid others may take once they are dead
          None

ASSUME SupervisorAssumption ==
    /\ RuntimeOf \in [Turn -> Runtime]
    /\ MayOverlap \in BOOLEAN /\ Reused \subseteq Proc
    /\ None \notin Turn \cup Exec \cup Proc
    /\ \A t \in Turn : SessionOf[t] \notin Exec

VARIABLES root, crun,   \* cancellation tables (CancellationStore)
          recovery,     \* turn_supervisor_recovery: writer epoch, disposition
          lease,        \* active lease of a turn, named by the execution it was granted to
          proc,         \* process phase; "serving" holds the listening port
          boot,         \* startup recovery of each runtime of a process
          fence,        \* WriterEpochFence: the open writer epoch, 0 when closed
          exec,         \* the execute() calls
          cascade,      \* cancel cascades awaiting the settle of their runs
          dispatched    \* history: executions that called a provider for a turn

vars == <<turn, run, root, crun, recovery, lease, proc, boot, fence, exec, cascade, dispatched>>

Cancellation == INSTANCE CancellationStore WITH Root <- Turn, Run <- Turn, NoRoot <- None

-----------------------------------------------------------------------------
ExecPcs   == {"persisting", "admitting", "admitted", "probing", "invoking", "settling"}
WorkingPcs == {"probing", "invoking"}         \* past the dispatch boundary
IdleExec  == [pc |-> "idle", turn |-> None, proc |-> None, epoch |-> 0,
              aborted |-> FALSE, lease |-> None]
AdoptedExec(t, p, epoch) == [pc |-> "persisting", turn |-> t, proc |-> p, epoch |-> epoch,
                             aborted |-> FALSE, lease |-> None]
NoBoot    == [phase |-> "off", runs |-> {}, roots |-> {}, cur |-> None]

Init == /\ RepositoryInit
        /\ Cancellation!Init
        /\ recovery = [t \in Turn |-> [epoch |-> 0, disposition |-> "active"]]
        /\ lease = [t \in Turn |-> None]
        /\ proc = [p \in Proc |-> "off"]
        /\ boot = [p \in Proc |-> [rt \in Runtime |-> NoBoot]]
        /\ fence = [p \in Proc |-> [t \in Turn |-> 0]]
        /\ exec = [e \in Exec |-> IdleExec]
        /\ cascade = [p \in Proc |-> [t \in Turn |-> FALSE]]
        /\ dispatched = [t \in Turn |-> {}]

Active(e)  == exec[e].pc \in ExecPcs
Working(e) == exec[e].pc \in WorkingPcs
ActiveOn(p, t) == {e \in Exec : Active(e) /\ exec[e].proc = p /\ exec[e].turn = t}

(* The active map is keyed by session, one map per runtime.                 *)
SessionBusy(p, t) ==
    /\ SessionOf[t] # Fresh
    /\ \E e \in Exec : /\ Active(e) /\ exec[e].proc = p
                       /\ RuntimeOf[exec[e].turn] = RuntimeOf[t]
                       /\ SessionOf[exec[e].turn] = SessionOf[t]

Accepts(e) == fence[exec[e].proc][exec[e].turn] = exec[e].epoch

To(e, pc) == exec' = [exec EXCEPT ![e].pc = pc]

HeldByDead(t) == lease[t] # None /\ proc[exec[lease[t]].proc] = "dead"

(* The owner is probed by its pid (watchdog.ts): once others may occupy it, *)
(* the probe of a dead owner may say "alive", at any time and for ever.     *)
ProbesDead(t) == HeldByDead(t) /\ exec[lease[t]].proc \notin Reused

(* Volatile state dies with the process.                                    *)
Dies(p) ==
    /\ proc' = [proc EXCEPT ![p] = "dead"]
    /\ exec' = [e \in Exec |-> IF exec[e].proc = p /\ Active(e) THEN [exec[e] EXCEPT !.pc = "done"]
                               ELSE exec[e]]
    /\ boot' = [boot EXCEPT ![p] = [rt \in Runtime |-> NoBoot]]
    /\ fence' = [fence EXCEPT ![p] = [t \in Turn |-> 0]]
    /\ cascade' = [cascade EXCEPT ![p] = [t \in Turn |-> FALSE]]

-----------------------------------------------------------------------------
(* An execute() call reaches its first synchronous stretch: the process     *)
(* serves, and the message is new or its run may be resumed.  A duplicate   *)
(* of a running or decided turn stops here and changes nothing.             *)
Arrives(e, t, p) ==
    /\ proc[p] = "serving" /\ exec[e] = IdleExec
    /\ run[t].state = "absent" \/ ClassifyDuplicateRun(run[t].state) = "resume_safe"
    /\ ClaimInDatabase(t)

Spent(e) == exec' = [exec EXCEPT ![e].pc = "done"]

ClaimWriter(t) == /\ recovery[t].disposition = "active"
                  /\ recovery' = [recovery EXCEPT ![t].epoch = @ + 1]

(* Adopt the message, take the writer epoch, open the cancellation root and *)
(* the fence, all before the first await.                                   *)
Adopt(e, t, p) ==
    /\ Arrives(e, t, p) /\ ~SessionBusy(p, t)
    /\ ClaimWriter(t)
    /\ root[t] \in {"absent", "active"}
    /\ root' = [root EXCEPT ![t] = "active"]
    /\ crun' = IF crun[t].state = "absent"
               THEN [crun EXCEPT ![t] = [state |-> "active", root |-> t, epoch |-> 0]] ELSE crun
    /\ fence' = [fence EXCEPT ![p][t] = recovery[t].epoch + 1]
    /\ exec' = [exec EXCEPT ![e] = AdoptedExec(t, p, recovery[t].epoch + 1)]
    /\ UNCHANGED <<lease, proc, boot, cascade, dispatched>>

(* The session is busy: the rows are claimed, then the call fails.          *)
AdoptBusy(e, t, p) ==
    /\ Arrives(e, t, p) /\ SessionBusy(p, t)
    /\ Spent(e)
    /\ UNCHANGED <<root, crun, recovery, lease, proc, boot, fence, cascade, dispatched>>

(* "root is not accepting runs": a cancelled message is refused again, after *)
(* the writer epoch was taken.                                              *)
AdoptRefused(e, t, p) ==
    /\ Arrives(e, t, p) /\ ~SessionBusy(p, t)
    /\ ClaimWriter(t)
    /\ root[t] \in {"cancel_requested", "cancelled"}
    /\ Spent(e)
    /\ UNCHANGED <<root, crun, lease, proc, boot, fence, cascade, dispatched>>

(* Death between the transactions of Adopt.                                 *)
CrashInAdopt(t, p) ==
    /\ proc[p] = "serving" /\ run[t].state \in {"absent", "claimed"} /\ ~SessionBusy(p, t)
    /\ ClaimInDatabase(t)
    /\ \/ UNCHANGED <<recovery, root>>
       \/ /\ ClaimWriter(t)
          /\ \/ UNCHANGED root
             \/ root[t] = "absent" /\ root' = [root EXCEPT ![t] = "active"]
    /\ Dies(p)
    /\ UNCHANGED <<crun, lease, dispatched>>

(* The user line was appended to the transcript, or the append failed.      *)
PersistUserLine(e) ==
    /\ exec[e].pc = "persisting"
    /\ \E next \in {"admitting", "settling"} : To(e, next)
    /\ UNCHANGED <<turn, run, root, crun, recovery, lease, proc, boot, fence, cascade, dispatched>>

(* admitResources: an active lease of the same owner is returned as is,     *)
(* that of another process refuses; otherwise capacity decides.             *)
AdmitResourcesAnyOwner(e) ==
    /\ exec[e].pc = "admitting"
    /\ lease' = [lease EXCEPT ![exec[e].turn] = IF @ = None THEN e ELSE @]
    /\ exec' = [exec EXCEPT ![e].pc = "admitted", ![e].lease = lease'[exec[e].turn]]
    /\ UNCHANGED <<turn, run, root, crun, recovery, proc, boot, fence, cascade, dispatched>>

AdmitResources(e) ==
    LET t == exec[e].turn
        same == lease[t] # None /\ exec[lease[t]].proc = exec[e].proc
    IN /\ exec[e].pc = "admitting"
       /\ \/ /\ lease[t] = None
             /\ lease' = [lease EXCEPT ![t] = e]
             /\ exec' = [exec EXCEPT ![e].pc = "admitted", ![e].lease = e]
          \/ /\ same
             /\ exec' = [exec EXCEPT ![e].pc = "admitted", ![e].lease = lease[t]]
             /\ UNCHANGED lease
          \/ /\ ~same
             /\ To(e, "settling")
             /\ UNCHANGED lease
       /\ UNCHANGED <<turn, run, root, crun, recovery, proc, boot, fence, cascade, dispatched>>

Released(e) == [lease EXCEPT ![exec[e].turn] = IF @ = exec[e].lease THEN None ELSE @]

(* An outcome other than cancelled completes the cancellation row in the    *)
(* same transaction, which fails when cancellation was requested.           *)
CompletesRunUnfenced(t, outcome) ==
    crun' = IF outcome = "cancelled" THEN crun
            ELSE [crun EXCEPT ![t] = Cancellation!Moved(@, "completed")]

CompletesRun(t, outcome) ==
    IF outcome = "cancelled"
    THEN UNCHANGED crun
    ELSE /\ crun[t].state = "active" /\ crun[t].epoch = 0
         /\ crun' = [crun EXCEPT ![t] = Cancellation!Moved(@, "completed")]

OutcomeOf(e, ok) == IF exec[e].aborted THEN "cancelled" ELSE IF ok THEN "succeeded" ELSE "failed"

(* startExecution, and the first fence check of the invocation it leads to. *)
Start(e) ==
    /\ exec[e].pc = "admitted" /\ Accepts(e)
    /\ StartExecution(exec[e].turn, 0, 0)
    /\ To(e, "probing")
    /\ UNCHANGED <<root, crun, recovery, lease, proc, boot, fence, cascade, dispatched>>

(* STALE_WRITER: started by a writer a resend has superseded meanwhile; the *)
(* turn fails (or is cancelled) and the lease is released, with no await.   *)
StartSuperseded(e) ==
    LET t == exec[e].turn  outcome == OutcomeOf(e, FALSE) IN
    /\ exec[e].pc = "admitted" /\ ~Accepts(e)
    /\ CanStart(t, 0, 0)
    /\ CompletesRun(t, outcome)
    /\ run'  = [run EXCEPT ![t] = Row("terminal", 2, outcome)]
    /\ turn' = [turn EXCEPT ![t] = Row("terminal", 2, outcome)]
    /\ lease' = Released(e)
    /\ To(e, "settling")
    /\ UNCHANGED <<root, recovery, proc, boot, fence, cascade, dispatched>>

(* startExecution throws: the row is no longer claimed, or storage faults.  *)
(* releaseUndispatchedLease gives the lease back only while it is claimed.  *)
StartFailsKeepingLease(e) ==
    /\ exec[e].pc = "admitted"
    /\ To(e, "settling")
    /\ UNCHANGED <<turn, run, root, crun, recovery, lease, proc, boot, fence, cascade, dispatched>>

StartFails(e) ==
    /\ exec[e].pc = "admitted"
    /\ lease' = IF run[exec[e].turn].state = "claimed" THEN Released(e) ELSE lease
    /\ To(e, "settling")
    /\ UNCHANGED <<turn, run, root, crun, recovery, proc, boot, fence, cascade, dispatched>>

(* The provider is available and its adapter, which refuses an aborted      *)
(* signal, sends the request.                                               *)
Dispatch(e) ==
    /\ exec[e].pc = "probing" /\ ~exec[e].aborted
    /\ dispatched' = [dispatched EXCEPT ![exec[e].turn] = @ \cup {e}]
    /\ To(e, "invoking")
    /\ UNCHANGED <<turn, run, root, crun, recovery, lease, proc, boot, fence, cascade>>

(* A planner, worker or review answer that leads to another invocation.     *)
NextRound(e) ==
    /\ exec[e].pc = "invoking" /\ Accepts(e)
    /\ To(e, "probing")
    /\ UNCHANGED <<turn, run, root, crun, recovery, lease, proc, boot, fence, cascade, dispatched>>

(* finishExecution.  ok is a complete answer to an accepted writer; every   *)
(* error, an unavailable provider included, is not ok.                      *)
Finishes(e, ok) ==
    LET t == exec[e].turn  outcome == OutcomeOf(e, ok) IN
    /\ Working(e)
    /\ ok => exec[e].pc = "invoking" /\ Accepts(e)
    /\ FinishExecution(t, 1, 1, outcome)
    /\ CompletesRun(t, outcome)

(* The turn is decided, and releaseRun returns the capacity.                *)
Finish(e, ok) ==
    /\ Finishes(e, ok)
    /\ lease' = Released(e)
    /\ To(e, "settling")
    /\ UNCHANGED <<root, recovery, proc, boot, fence, cascade, dispatched>>

CrashAfterFinish(e, ok) ==
    /\ Finishes(e, ok)
    /\ Dies(exec[e].proc)
    /\ UNCHANGED <<root, recovery, lease, dispatched>>

(* Cancellation was requested durably by another process and this execution *)
(* was not aborted: neither success nor failure can be recorded, and the    *)
(* run is left running.                                                     *)
FinishFenced(e) ==
    /\ Working(e) /\ ~exec[e].aborted
    /\ ~(CanFinish(exec[e].turn, 1, 1) /\ crun[exec[e].turn].state = "active")
    /\ lease' = Released(e)
    /\ To(e, "settling")
    /\ UNCHANGED <<turn, run, root, crun, recovery, proc, boot, fence, cascade, dispatched>>

(* The finally block of execute(), after the transcript flush.              *)
Settle(e) ==
    LET p == exec[e].proc  t == exec[e].turn IN
    /\ exec[e].pc = "settling"
    /\ To(e, "done")
    /\ fence' = IF Accepts(e) THEN [fence EXCEPT ![p][t] = 0] ELSE fence
    /\ UNCHANGED <<turn, run, root, crun, recovery, lease, proc, boot, cascade, dispatched>>

-----------------------------------------------------------------------------
(* releaseRecoveredCancellationLease: a lease is taken only from an owner   *)
(* that probes as dead; otherwise the cascade fails after the root closed.  *)
LeaseRecovered(t, ok) ==
    \/ lease[t] = None /\ ok /\ UNCHANGED lease
    \/ HeldByDead(t)   /\ ok /\ lease' = [lease EXCEPT ![t] = None]
    \/ lease[t] # None /\ ~ok /\ ~ProbesDead(t) /\ UNCHANGED lease

(* cancel(): the request is durable and aborts the executions in memory in  *)
(* one step, then the cascade awaits their settle.                          *)
CancelWithoutAbort(p, t) ==
    /\ proc[p] = "serving" /\ ActiveOn(p, t) # {}
    /\ Cancellation!RequestRootCancellation(t)
    /\ cascade' = [cascade EXCEPT ![p][t] = TRUE]
    /\ UNCHANGED <<turn, run, recovery, lease, proc, boot, fence, exec, dispatched>>

Cancel(p, t) ==
    /\ proc[p] = "serving" /\ ActiveOn(p, t) # {}
    /\ crun[t].state \in {"active", "cancel_requested"}
    /\ \/ Cancellation!RequestRootCancellation(t)
       \/ root[t] = "cancel_requested" /\ UNCHANGED <<root, crun>>
    /\ exec' = [e \in Exec |-> IF e \in ActiveOn(p, t) THEN [exec[e] EXCEPT !.aborted = TRUE]
                               ELSE exec[e]]
    /\ cascade' = [cascade EXCEPT ![p][t] = TRUE]
    /\ UNCHANGED <<turn, run, recovery, lease, proc, boot, fence, dispatched>>

(* The run was settled first: the request finds nothing to reap and closes  *)
(* the root.                                                                *)
CancelTooLate(p, t) ==
    /\ proc[p] = "serving" /\ ActiveOn(p, t) # {}
    /\ root[t] \in {"active", "cancel_requested"}
    /\ crun[t].state \in {"reaped", "completed"}
    /\ root' = [root EXCEPT ![t] = "cancelled"]
    /\ \E ok \in BOOLEAN : LeaseRecovered(t, ok)
    /\ UNCHANGED <<turn, run, crun, recovery, proc, boot, fence, exec, cascade, dispatched>>

(* All executions of the run have settled: reap, close the root, release.   *)
(* A cascade that another process overtook stops at its stale epoch.        *)
CascadeReapedAtOnce(p, t) ==
    /\ cascade[p][t] /\ crun[t].state = "cancel_requested"
    /\ cascade' = [cascade EXCEPT ![p][t] = FALSE]
    /\ crun' = [crun EXCEPT ![t] = Cancellation!Moved(@, "reaped")]
    /\ root' = [root EXCEPT ![t] = "cancelled"]
    /\ UNCHANGED <<turn, run, recovery, lease, proc, boot, fence, exec, dispatched>>

CascadeReaped(p, t) ==
    /\ cascade[p][t] /\ ActiveOn(p, t) = {}
    /\ cascade' = [cascade EXCEPT ![p][t] = FALSE]
    /\ IF crun[t].state = "cancel_requested" /\ crun[t].epoch = 1
       THEN /\ crun' = [crun EXCEPT ![t] = Cancellation!Moved(@, "reaped")]
            /\ root' = [root EXCEPT ![t] = "cancelled"]
            /\ \E ok \in BOOLEAN : LeaseRecovered(t, ok)
       ELSE UNCHANGED <<root, crun, lease>>
    /\ UNCHANGED <<turn, run, recovery, proc, boot, fence, exec, dispatched>>

-----------------------------------------------------------------------------
(* Startup: lifecycle.prepare() initializes both runtimes concurrently      *)
(* before it tries to bind.  A process manager that lost its pid may start  *)
(* a process beside the live one (listen-with-guard.service.ts).            *)
Boot(q) ==
    /\ proc[q] = "off"
    /\ \A p \in Proc : /\ proc[p] # "booting"
                       /\ proc[p] \in {"serving", "exiting"} => MayOverlap
    /\ proc' = [proc EXCEPT ![q] = "booting"]
    /\ boot' = [boot EXCEPT ![q] = [rt \in Runtime |-> [NoBoot EXCEPT !.phase = "list"]]]
    /\ UNCHANGED <<turn, run, root, crun, recovery, lease, fence, exec, cascade, dispatched>>

SetBoot(q, rt, phase, runs, roots, cur) ==
    boot' = [boot EXCEPT ![q][rt] = [phase |-> phase, runs |-> runs, roots |-> roots, cur |-> cur]]

(* listNonTerminalRuns: a snapshot of this runtime's runs.                  *)
ListNonTerminalRuns(q, rt) ==
    /\ boot[q][rt].phase = "list"
    /\ SetBoot(q, rt, "reconcile",
               {[turn |-> t, state |-> run[t].state, epoch |-> recovery[t].epoch] :
                   t \in {u \in Turn : /\ RuntimeOf[u] = rt
                                       /\ run[u].state \notin {"absent", "terminal"}
                                       /\ crun[u].state # "absent"
                                       /\ recovery[u].disposition = "active"}}, {}, None)
    /\ UNCHANGED <<turn, run, root, crun, recovery, lease, proc, fence, exec, cascade, dispatched>>

(* reconcileOnStartup, one listed run: fence its writer; unless it was still *)
(* claimed it is uncertain.  A writer claimed since the listing wins.       *)
ReconcileRunFencingOnly(q, rt, r) ==
    /\ boot[q][rt].phase = "reconcile" /\ r \in boot[q][rt].runs
    /\ SetBoot(q, rt, "reconcile", boot[q][rt].runs \ {r}, {}, None)
    /\ recovery' = [recovery EXCEPT ![r.turn].epoch = @ + 1]
    /\ UNCHANGED <<turn, run, root, crun, lease, proc, fence, exec, cascade, dispatched>>

ReconcileRun(q, rt, r) ==
    /\ boot[q][rt].phase = "reconcile" /\ r \in boot[q][rt].runs
    /\ SetBoot(q, rt, "reconcile", boot[q][rt].runs \ {r}, {}, None)
    /\ recovery' = IF recovery[r.turn].epoch = r.epoch
                   THEN [recovery EXCEPT ![r.turn] =
                           [epoch |-> r.epoch + 1,
                            disposition |-> IF r.state = "claimed" THEN @.disposition ELSE "uncertain"]]
                   ELSE recovery
    /\ UNCHANGED <<turn, run, root, crun, lease, proc, fence, exec, cascade, dispatched>>

(* listPendingRootIds: the roots of any runtime.                            *)
ListNoRoots(q, rt) ==
    /\ boot[q][rt].phase = "reconcile" /\ boot[q][rt].runs = {}
    /\ SetBoot(q, rt, "resume", {}, {}, None)
    /\ UNCHANGED <<turn, run, root, crun, recovery, lease, proc, fence, exec, cascade, dispatched>>

ListPendingRoots(q, rt) ==
    /\ boot[q][rt].phase = "reconcile" /\ boot[q][rt].runs = {}
    /\ SetBoot(q, rt, "resume", {}, {t \in Turn : root[t] = "cancel_requested"}, None)
    /\ UNCHANGED <<turn, run, root, crun, recovery, lease, proc, fence, exec, cascade, dispatched>>

Resuming(q, rt, t) == boot[q][rt].phase = "resume" /\ t \in boot[q][rt].roots

(* The cascade of a listed root ended; an error of it fails the startup.    *)
Resumed(q, rt, t, ok) ==
    IF ok THEN SetBoot(q, rt, "resume", {}, boot[q][rt].roots \ {t}, None)
          ELSE SetBoot(q, rt, "failed", {}, {}, None)

(* A listed root with a run to reap: an adapter of the other runtime is     *)
(* "unavailable".                                                           *)
ResumeCancellation(q, rt, t) ==
    /\ Resuming(q, rt, t)
    /\ root[t] = "cancel_requested" /\ crun[t].state = "cancel_requested"
    /\ IF RuntimeOf[t] = rt
       THEN SetBoot(q, rt, "reap", {}, boot[q][rt].roots, t)
       ELSE Resumed(q, rt, t, FALSE)
    /\ UNCHANGED <<turn, run, root, crun, recovery, lease, proc, fence, exec, cascade, dispatched>>

(* A listed root with nothing left to reap is closed at once.               *)
ResumeSettled(q, rt, t) ==
    /\ Resuming(q, rt, t)
    /\ root[t] = "cancel_requested" /\ crun[t].state # "cancel_requested"
    /\ root' = [root EXCEPT ![t] = "cancelled"]
    /\ \E ok \in BOOLEAN : LeaseRecovered(t, ok) /\ Resumed(q, rt, t, ok)
    /\ UNCHANGED <<turn, run, crun, recovery, proc, fence, exec, cascade, dispatched>>

(* The other runtime or a live process closed the root since the listing:   *)
(* "root cancellation state changed".                                       *)
ResumeClosed(q, rt, t) ==
    /\ Resuming(q, rt, t) /\ root[t] = "cancelled"
    /\ Resumed(q, rt, t, FALSE)
    /\ UNCHANGED <<turn, run, root, crun, recovery, lease, proc, fence, exec, cascade, dispatched>>

(* A starting process has no execution of its own to await: it reaps.       *)
ResumeReaped(q, rt) ==
    LET t == boot[q][rt].cur IN
    /\ boot[q][rt].phase = "reap"
    /\ IF crun[t].state = "cancel_requested"
       THEN /\ crun' = [crun EXCEPT ![t] = Cancellation!Moved(@, "reaped")]
            /\ root' = [root EXCEPT ![t] = "cancelled"]
            /\ \E ok \in BOOLEAN : LeaseRecovered(t, ok) /\ Resumed(q, rt, t, ok)
       ELSE /\ Resumed(q, rt, t, FALSE)
            /\ UNCHANGED <<root, crun, lease>>
    /\ UNCHANGED <<turn, run, recovery, proc, fence, exec, cascade, dispatched>>

Ready(q) == \A rt \in Runtime : boot[q][rt].phase = "resume" /\ boot[q][rt].roots = {}

(* The port is free: the process serves.                                    *)
Listen(q) ==
    /\ proc[q] = "booting" /\ Ready(q)
    /\ \A p \in Proc : proc[p] # "serving"
    /\ proc' = [proc EXCEPT ![q] = "serving"]
    /\ boot' = [boot EXCEPT ![q] = [rt \in Runtime |-> NoBoot]]
    /\ UNCHANGED <<turn, run, root, crun, recovery, lease, fence, exec, cascade, dispatched>>

(* prepare() rejects: the process exits.                                    *)
StartupFails(q) ==
    /\ \E rt \in Runtime : boot[q][rt].phase = "failed"
    /\ Dies(q)
    /\ UNCHANGED <<turn, run, root, crun, recovery, lease, dispatched>>

-----------------------------------------------------------------------------
(* The watchdog, at startup and while the server is bound: never its own    *)
(* leases, and only those whose owner probes as dead.  A dead owner whose   *)
(* pid is taken probes alive and its lease is retained: then this step need *)
(* not happen (Fairness).                                                   *)
WatchdogTickOwnLeases(p, t) ==
    /\ proc[p] = "serving" /\ HeldByDead(t) /\ exec[lease[t]].proc = p
    /\ lease' = [lease EXCEPT ![t] = None]
    /\ UNCHANGED <<turn, run, root, crun, recovery, proc, boot, fence, exec, cascade, dispatched>>

WatchdogTick(p, t) ==
    /\ proc[p] = "serving" \/ (proc[p] = "booting" /\ Ready(p))
    /\ HeldByDead(t)
    /\ lease' = [lease EXCEPT ![t] = None]
    /\ UNCHANGED <<turn, run, root, crun, recovery, proc, boot, fence, exec, cascade, dispatched>>

(* The end of a drain, or a second signal: the port is released, sockets    *)
(* close, and executions go on until the process is gone.                   *)
ReleaseListener(p) ==
    /\ proc[p] = "serving"
    /\ proc' = [proc EXCEPT ![p] = "exiting"]
    /\ UNCHANGED <<turn, run, root, crun, recovery, lease, boot, fence, exec, cascade, dispatched>>

Crash(p) ==
    /\ proc[p] \notin {"off", "dead"}
    /\ Dies(p)
    /\ UNCHANGED <<turn, run, root, crun, recovery, lease, dispatched>>

(* Death inside a cascade, after the reap of the run or the close of the    *)
(* root.                                                                    *)
CrashInCascade(p, t) ==
    /\ \/ cascade[p][t] /\ ActiveOn(p, t) = {}
       \/ \E rt \in Runtime : boot[p][rt].phase = "reap" /\ boot[p][rt].cur = t
    /\ crun[t].state = "cancel_requested"
    /\ crun' = [crun EXCEPT ![t] = Cancellation!Moved(@, "reaped")]
    /\ UNCHANGED root \/ root' = [root EXCEPT ![t] = "cancelled"]
    /\ Dies(p)
    /\ UNCHANGED <<turn, run, recovery, lease, dispatched>>

-----------------------------------------------------------------------------
ExecStep(e) ==
    \/ PersistUserLine(e) \/ AdmitResources(e)
    \/ Start(e) \/ StartSuperseded(e) \/ StartFails(e)
    \/ Dispatch(e) \/ NextRound(e)
    \/ (\E ok \in BOOLEAN : Finish(e, ok)) \/ FinishFenced(e)
    \/ Settle(e)

BootStep(q) ==
    \/ Boot(q) \/ Listen(q) \/ StartupFails(q)
    \/ \E rt \in Runtime :
         \/ ListNonTerminalRuns(q, rt)
         \/ \E r \in boot[q][rt].runs : ReconcileRun(q, rt, r)
         \/ ListPendingRoots(q, rt) \/ ResumeReaped(q, rt)
         \/ \E t \in Turn : \/ ResumeCancellation(q, rt, t)
                            \/ ResumeSettled(q, rt, t)
                            \/ ResumeClosed(q, rt, t)

Next ==
    \/ \E e \in Exec : ExecStep(e) \/ \E ok \in BOOLEAN : CrashAfterFinish(e, ok)
    \/ \E p \in Proc : BootStep(p) \/ ReleaseListener(p) \/ Crash(p)
    \/ \E p \in Proc, t \in Turn :
         \/ Cancel(p, t) \/ CancelTooLate(p, t) \/ CascadeReaped(p, t)
         \/ WatchdogTick(p, t) \/ CrashInCascade(p, t) \/ CrashInAdopt(t, p)
    \/ \E e \in Exec, t \in Turn, p \in Proc :
         Adopt(e, t, p) \/ AdoptBusy(e, t, p) \/ AdoptRefused(e, t, p)

Spec == Init /\ [][Next]_vars

(* Every await ends while the process lives (adapters time out, transcript  *)
(* appends and samples settle), the number of invocations of one turn is    *)
(* bounded (orchestrator.ts), the watchdog has a timer, which releases what *)
(* is sure to probe as dead, a process that released its port exits, and    *)
(* the process manager starts a successor.                                  *)
(* No cancel, crash, resend or stop signal need happen.                     *)
Fairness ==
    /\ \A e \in Exec : /\ WF_vars(ExecStep(e))
                       /\ SF_vars(\E ok \in BOOLEAN : Finish(e, ok))
    /\ \A p \in Proc : /\ WF_vars(BootStep(p))
                       /\ WF_vars(proc[p] = "exiting" /\ Crash(p))
                       /\ \A t \in Turn : /\ WF_vars(CascadeReaped(p, t))
                                          /\ WF_vars(ProbesDead(t) /\ WatchdogTick(p, t))

FairSpec == Spec /\ Fairness

-----------------------------------------------------------------------------
RowsTyped ==
    /\ turn \in [Turn -> [state : TurnRowStates, epoch : 0 .. 2, outcome : Outcomes \cup {"none"}]]
    /\ run \in [Turn -> [state : RunRowStates, epoch : 0 .. 2, outcome : Outcomes \cup {"none"}]]

CancellationTyped ==
    /\ root \in [Turn -> Cancellation!RootStates]
    /\ crun \in [Turn -> [state : Cancellation!RunStates, root : Turn \cup {None}, epoch : 0 .. 2]]

ExecRecords == [pc : ExecPcs \cup {"idle", "done"}, turn : Turn \cup {None}, proc : Proc \cup {None},
                epoch : Nat, aborted : BOOLEAN, lease : Exec \cup {None}]

ExecutionsTyped ==
    /\ exec \in [Exec -> ExecRecords]
    /\ lease \in [Turn -> Exec \cup {None}]
    /\ \A t \in Turn : lease[t] # None => exec[lease[t]].turn = t
    /\ dispatched \in [Turn -> SUBSET Exec]

BootRecords ==
    {b \in [phase : {"off", "list", "reconcile", "resume", "reap", "failed"},
            runs : SUBSET [turn : Turn, state : {"claimed", "running"}, epoch : Nat],
            roots : SUBSET Turn, cur : Turn \cup {None}] :
       b.phase = "reap" <=> b.cur # None}

ServersTyped ==
    /\ recovery \in [Turn -> [epoch : Nat, disposition : {"active", "uncertain"}]]
    /\ proc \in [Proc -> {"off", "booting", "serving", "exiting", "dead"}]
    /\ boot \in [Proc -> [Runtime -> BootRecords]]
    /\ fence \in [Proc -> [Turn -> Nat]]
    /\ cascade \in [Proc -> [Turn -> BOOLEAN]]

(* Rows, phases and references keep to their columns' constraints, and a    *)
(* lease names an execution of its own turn that was granted it.            *)
TypeOK == RowsTyped /\ CancellationTyped /\ ExecutionsTyped /\ ServersTyped

(* A message reaches a provider from one execution only, whatever resends,  *)
(* restarts and overlapping processes do ("redispatching would duplicate    *)
(* the effect", state-machine.ts).                                          *)
AtMostOnceDispatch ==
    \A t \in Turn : \A d, e \in dispatched[t] : d = e

(* The outcome on the turn's row agrees with the cancellation tables: a     *)
(* turn decided without cancellation completed its run there, a cancelled   *)
(* one has a durable request, and nothing else completes the run.           *)
OutcomeAgreesWithCancellation ==
    \A t \in Turn :
      /\ run[t].outcome \in {"succeeded", "failed"} <=> crun[t].state = "completed"
      /\ run[t].outcome = "cancelled" => crun[t].state \in {"cancel_requested", "reaped"}

(* "There is no unreserved execution path": an execution past the dispatch  *)
(* boundary holds the active lease of its turn.                             *)
WorkingHoldsLease ==
    \A e \in Exec : Working(e) => lease[exec[e].turn] = exec[e].lease /\ exec[e].lease # None

(* Capacity is not leaked by a live process: an active lease it granted has *)
(* an execution that will still return it.                                  *)
LeaseHasHolder ==
    \A t \in Turn :
      (lease[t] # None /\ proc[exec[lease[t]].proc] # "dead")
      => \E e \in Exec : /\ exec[e].turn = t /\ exec[e].lease = lease[t]
                        /\ exec[e].pc \in WorkingPcs \cup {"admitted"}

(* reap "resolves only after the process/request can no longer emit         *)
(* effects": a reaped run has no execution at work.                         *)
ReapedIsQuiet ==
    \A e \in Exec : Working(e) => crun[exec[e].turn].state # "reaped"

(* While a server serves, a run whose row says running has an execution at  *)
(* work, or startup recovery has marked it uncertain.                       *)
RunningHasDriver ==
    (\E p \in Proc : proc[p] = "serving") =>
    \A t \in Turn : run[t].state = "running" =>
        \/ recovery[t].disposition = "uncertain"
        \/ \E e \in Exec : Working(e) /\ exec[e].turn = t

(* Once cancellation is durable no further provider request of that turn is *)
(* sent by the execution the user cancelled, in any later round.            *)
NoDispatchAfterCancel ==
    [][\A e \in Exec :
         (exec[e].pc = "probing" /\ exec'[e].pc = "invoking")
         => crun[exec[e].turn].state = "active"]_vars

(* The durable rows implement the contract of one message.                  *)
Phase == [t \in Turn |-> CASE run[t].state \in {"absent", "claimed"} -> "open"
                           [] run[t].state = "running" -> "committed"
                           [] OTHER -> run[t].outcome]
Requested == {t \in Turn : crun[t].state \in {"cancel_requested", "reaped"}}

Contract == INSTANCE TurnContract WITH phase <- Phase, requested <- Requested

ImplementsContract == Contract!ContractSpec

AllDead == \A p \in Proc : proc[p] = "dead"

(* A requested cancellation is finished, across crashes, as long as there   *)
(* is a process left to run.                                                *)
CancelCompletes ==
    \A t \in Turn : root[t] = "cancel_requested" ~> root[t] = "cancelled" \/ AllDead

(* A started turn is decided or recorded as uncertain.                      *)
RunningIsResolved ==
    \A t \in Turn : run[t].state = "running"
                    ~> run[t].state = "terminal" \/ recovery[t].disposition = "uncertain" \/ AllDead

(* The capacity of a dead owner comes back, unless its pid may be taken by  *)
(* another process (watchdog.ts then keeps the lease: an occupied pid is no *)
(* proof of exit).                                                          *)
DeadOwnerReleased ==
    \A t \in Turn : ProbesDead(t) ~> ~ProbesDead(t) \/ AllDead
=============================================================================
