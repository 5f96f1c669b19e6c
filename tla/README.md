# Nassaj: a verification project

Nassaj is a server that runs chat turns of coding agents (Claude, Codex, Kimi,
OpenCode and others) for several users in several browser tabs. A turn costs
money, changes files, and cannot be taken back; the server restarts often (it is
developed with itself), and browsers resend whatever they are unsure about. The
core of the system is therefore bookkeeping: of what was sent to a provider, of
what may be sent again, of what a restart left behind, and of who holds the
machine's capacity. That bookkeeping is what these modules model.

Paths below are relative to `src/`; `ts/` stands for `server/modules/turn-supervisor/`.

## 1. The system

| Component | State | Operations | Talks to | Hard behaviour | Correct when |
|---|---|---|---|---|---|
| Turn rows (`ts/repository.ts`, `state-machine.ts`) | one turn row and one run row per client message, each with state, epoch, outcome | claim, adopt, startExecution, finishExecution | SQLite transactions | resends and restarts reach the same rows | one execution dispatches a message; a decided turn stays decided |
| Cancellation (`ts/cancel-cascade.ts`) | a root and its runs, with epochs | createRoot, registerRun, requestRootCancellation, completeRun, markRunReaped, markRootCancelled, cascade, resume | turn rows, leases, runtimes | spawn, completion and cancellation race; a crash in the middle | nothing runs behind a request; cancelled means reaped; completed or cancelled, never both |
| Recovery (`ts/recovery.ts`) | writer epoch and disposition per run; an in-memory fence | claimWriter, fenceWriter, mark, reconcileOnStartup | turn rows | a predecessor or an older execution still writes | a running row has an execution or is marked uncertain |
| The two runtimes (`ts/cli-turn-supervisor.service.ts`, `hosted-turn-supervisor.service.ts`) | active map by session, controllers, settle promises | execute, cancel, initialize | all of the above, transcripts, providers | many awaits; both recover at startup | see the modules |
| Orchestrator (`ts/orchestrator.ts`) | none of its own | execute, with direct, delegated and review rounds | rows, admission, adapters | every exit must give the lease back | capacity is held exactly while working |
| Resource admission, watchdog, lifecycle (`ts/resource-admission.ts`, `watchdog.ts`, `lifecycle.ts`) | one active lease per turn, heartbeats, samples | admit, release with proof, release undispatched, reclaim from the dead | operating system (pids) | dead owners, reused pids | no leak, nothing taken from a live owner |
| Transcript outbox (`ts/hosted-result-store.ts`) | result rows pending, writing, written | claimTranscript, markTranscriptWritten, recovery | transcript files | crash while writing | written once, and eventually |
| Ingress ledger (`server/modules/database/repositories/message-coordination.db.ts`) | one row per client message id: claimed, started, not_started, terminal, and the verdict | claim, markStarted, recordVerdict | chat gate, scheduler | duplicates, lost writes | one launch per id, honest answers |
| Chat gate (`server/modules/websocket/services/chat-websocket.service.ts`) | the sockets' writers | dispatchProviderCommand, withCoordinationMetadata | ledger, permission gateway, supervisors, providers | resends during, before and after a turn | what a client is told is true |
| Scheduled messages (`server/modules/scheduled-messages/`, `.../scheduled-messages.db.ts`) | rows with lease, attempts, times; busy sessions in memory | create, update, cancel, tick, deliver, settle, pause, stop | ledger through the chat gate, update gate | turns outlive deliveries; leases expire; the store fails | one effect per message, caps, no stuck row |
| Shutdown drain and listen guard (`server/services/shutdown-drain.service.ts`, `listen-with-guard.service.ts`) | process phase, port | drain, release, bind | PM2 | a duplicate process beside a live one | one server serves |
| Session steering (`server/modules/session-steer/`, the run of `server/claude-sdk.js`) | per run a queue, items in flight, taint, input; ingress rows | accept, take, settle, confirm, end of input | the CLI and its transcript, tool permission | a run ends, the CLI answers and the input closes while text is on its way | text is read once or told refused; nobody else's text runs tools |
| Peer relay (`server/modules/peer-relay/`) | `peer_messages` rows, delivery ledger, transcript proof | send, claim, deliver, settle, repair at boot, sweep | resume turns of other sessions | claims, crashes, two processes, a person's turn | read at most once, in order; an answer is true |
| Workflow supervisor (`server/modules/workflow-supervisor/`) | lock files, hand-off files, budgets | acquire, take over, resume | systemd, sessions | stale locks, crash resume | one supervisor, one turn per chat |
| Update gate and activation (`server/services/update-maintenance-gate.js`, `update-writer-lease.js`, `server/bootstrap.js`, `scripts/lib/source-update-activation.mjs`) | journal, two kernel locks, hand-off descriptor; source, generations, receipt, snapshot | begin, drain, activate, roll back, hand off, boot, attach, writer leases | processes, git, pm2 | a crash between any two steps of a swap | no swap under a writer; open means a whole version |
| Universal conversations (`server/modules/conversations/`) | shadow transcript | append, compare, recover | providers | behind the live path | shadow equals source |
| Execution permissions (`server/modules/execution-permissions/`, `server/modules/database/repositories/permission-execution.ts`) | decisions, leases, fences, a blocked generation, lifts | authorize, consume, start, bind, settle, reconcile at boot, lift, acknowledge | launches of providers and terminals | the end of an effect nobody saw | no row denies an effect; an unknown one stays fenced |
| Deletion (`server/modules/database/deletion-*.ts`) | operations, generations | stage, guard, finish | every repository | partial failure | all or nothing |
| Provider runtimes, connectors, sign-in, terminals, client, release scripts | | | | mostly I/O | not modelled |

How they meet in one turn: a browser (or the scheduler) delivers a message to the
chat gate; the gate claims its id in the ledger, asks the permission gateway, and
hands it to a provider, for supervised providers through a runtime. The runtime
adopts the message into the turn rows, takes a writer epoch, registers the run
for cancellation, is admitted a lease, and lets the orchestrator dispatch. Frames
go back through the gate, which writes the ledger as a side effect. Cancellation
comes from a socket; recovery from the next process.

`PROJECT.json` lists every component with its status, and the hazards of this code
at their lines, each with the properties that cover it or the reason why none does.

## 2. The plan

Order, most important first:

1. `CancellationStore`: the cancellation tables alone. **done, proved**
2. `TurnRepository`, `TurnContract`, `TurnSupervisor`: a supervised turn end to end
   (rows, cancellation, recovery, leases, processes), and the contract of one
   message it implements. **done, safety and implementation proved**
3. `MessageIngress`, `ChatIngress`: the ledger and the chat gate. **done, proved**
4. `ScheduledMessages`: scheduler over the same ledger. **done, proved**
5. `SourceActivation`, `UpdateGate`: an update of the server by itself. **done, proved**
6. `PeerRelay`: messages between sessions. **done, proved**
7. `SessionSteer`: text for a turn that runs. **done, proved**
8. `PermissionExecutions`: permits, leases and fences of launches. **done, proved**
9. Transcript outbox of hosted results, with two processes and crashes.
10. Resource admission: caps, samples, Codex leases, helpers.
11. Orchestrator delegation (planner, workers, review), the adapter registry.
12. Workflow supervisor locks and hand-off; deletion operations; conversations.
13. Proofs for what the items above add; every safety property of the modules done is a theorem.

What is worth proving: for each module its type invariant and the safety property
that would hurt most if it failed; that `TurnSupervisor` implements `TurnContract`.

## 3. The modules

### CancellationStore
One action per operation of `SqliteCancellationStore`, over any roots and runs. The
callers are the environment: they may call any operation at any time with any epoch
they may have read. The runtimes' use of it is in `TurnSupervisor`, which instantiates it.

### TurnRepository, TurnSupervisor, TurnContract
`TurnRepository` holds the turn and run rows with the guards of startExecution and
finishExecution. `TurnSupervisor` composes the rows, the cancellation tables, the
recovery row, the lease, processes with their startup, and executions. An action is
the code between two awaits; a crash may fall between two transactions of one
stretch (`CrashInAdopt`, `CrashAfterFinish`, `CrashInCascade`).

| Specification | Code |
|---|---|
| `turn`, `run` | `turn_supervisor_turns`, `turn_supervisor_runs` |
| `root`, `crun` | `turn_cancellation_roots`, `turn_cancellation_runs` |
| `recovery` | `turn_supervisor_recovery` |
| `lease` | `turn_resource_leases`, the active one of a turn |
| `fence` | `WriterEpochFence`, in memory |
| `exec` | execute() calls and where they are suspended |
| `cascade` | cancel() calls awaiting the settle of their runs |
| `boot`, `proc` | lifecycle.prepare of both runtimes, the phase of a process |

`TurnContract` is what a client relies on: one message is open, then committed to one
execution, then decided once, and cancelled only after a request.

### MessageIngress, ChatIngress
`MessageIngress` is the ledger, shared by the next two. `ChatIngress` models deliveries:
the gate, refusals with proof that nothing started, the launch, activity, error frames of a
turn that goes on (`errored` is history), its end, the loss of a server. The gate records the
first frame of kind `complete` or `error` as the verdict, whatever the turn does next. Writing the ledger is a sidecar in the code (an error
is logged and the frame sent), so every such write may be lost (`Sidecar`).
`Supervised` is the set of messages whose provider has a turn supervisor: an ambiguous
delivery of one goes on to it, and it is reduced to what it answers a duplicate
(`SupervisorAnswers`).

### ScheduledMessages
`row` is the table; `dlv` a delivery of the process with the turn it launched, which
outlives it; `server` the process. Times are abstracted to what the code compares:
the slot of a message orders its session, `passed` and `backoff` make up
`available_at`, `expired` is the lease, `overdue` the refund window.
A delivery goes: authorization, the provider-turn lease (`GateAdmits`,
`GateRefuses`), the ledger (`IngressClaim`), the launch, frames; the first verdict
counts; then it is settled by its token.

### SourceActivation, UpdateGate
`SourceActivation` is the disk: the source tree, the generations and their exchanges, the
receipt, the snapshot. `UpdateGate` extends it with the gate. Every step of the activation
and of its undoing is an action, so a crash falls between any two.

| Specification | Code |
|---|---|
| `j` | the journal: state, phase, transaction, owner, versions |
| `desc` | `bootstrap-handoff.json` |
| `adm`, `act` | who holds the two kernel locks exclusively |
| `lease`, `refs` | the writer lease of a process and its nested uses |
| `pc`, `seen` | where begin, drain, activation, boot and attach of a process are; the descriptor a boot has read |
| `src`, `gen`, `receipt`, `snap` | the files |

Begin, drain and activation are `routes/system.js` with the gate; `Boot` to `Serve` are
`bootstrap.js`; the recovery paths are one action per outcome of the code's decision.
A generation listed in `Identical` has the same hash in both versions, which is what makes
the code's judgement by hash ambiguous.

### PeerRelay
`state`, `at` (created_at), `attempts`, `offset`, `wait` are a row, whose number is the order of
its random id; `ledger` the delivery ledger;
`transcript` the proof lines of a session in file order. `job` is a `deliverPeerRow` call
of a process, suspended between its awaits; `pass` what the dispatcher's Promise.all waits
for; `run` the runs a process knows, which is all its guard can see. A turn passes that guard
(`TurnPasses`) and registers several awaits later without a second look (`TurnStarts`), over
whatever run came in between; so does a person's (`HumanStarts`). `Boot` is repairAll.
`orphans` are messages a CLI reads although its server died. `chances`, `disturbed` and
`exposed` are history: turns that could have delivered a row, rows taken over while
another process held them, rows claimed while draining or with a failed ledger write.

### SessionSteer
`queue`, `inFlight`, `accepted`, `closed`, `tainted`, `hook` are the steer run; `gen` the prompt
generator; `stdin` what it has given the CLI; `cli`, `out` the CLI and its messages;
`handling`, `timer` the message loop; `confirming` the looks at the transcript. `row` is
the ingress row, `told` the last event members got. The CLI may work, answer, stop, or die
at any moment, and need not read what it is given.

### PermissionExecutions
`dec` joins the decision and its lease; `hand` is the handle in its owner's memory; `effect`
what really runs, which no process sees; `fence`, `blocked` and `covered` are the tables
of fences, the protocol generation and the committed lifts; `seen` is an acknowledgement
between its inspection and its transaction; `proc` the servers. `owned` is history: the
unknown decisions an owner answered for by a lift. An action is a transaction, with the
handle's change around it; `Boot` is the reconciliation and its verdict on serving.

Each property is stated with its reason in the module; each `Proofs` module holds the
theorems of the module it is named after.

## 4. The runs

A property that has several parts names them in its module. Types are a theorem of every module
with proofs, so `TypeOK` is a run's invariant in one only (`Consistent` and `InOnePlace`
contain it in two others). Every property of a passing run has a mutant in `PROJECT.json`: a plausible bug of the
mapped code under which TLC finds the property violated.

| Run | Bounds | Shows |
|---|---|---|
| cancellation_store | 2 roots, 3 runs | a root and its runs tell one story, completion or cancellation |
| turn_restart | a hosted message of one session and a CLI message whose resends have sessions of their own, 2 executions, 3 processes one after the other, pids reused, both runtimes recovering concurrently | quiet after reap, a driver for every running row, no dispatch after a request |
| turn_overlap | 1 message, 2 executions, 3 processes that may overlap | one dispatch, leases held while working, the contract |
| turn_liveness | 1 message, 2 executions, 3 processes, the pid of one of which others may take | leases are held by someone; cancellations end, running turns are resolved, capacity returns where the owner's pid stays free |
| scheduled_retry | 1 message, 2 contents, 2 attempts, 2 edits, 2 exits, a failing store | one effect, as the row tells it; a due message is resolved |
| scheduled_edits | 2 messages of 2 sessions, 2 contents, cap 1, one edit, cancellations, an exit | turns within the cap; what is launched is what the row says |
| chat_ingress | 2 messages (one without, one with a supervisor), 2 contents, 4 deliveries, 2 exits | one launch of the bound payload; receipts and invitations to resend are true, replays too but for the failure an error frame leaves |
| update_gate | 2 processes that may overlap, 2 updates, 3 generations of which one is identical, 3 crashes, leases used twice | writers see an open gate, open means whole (degraded: the previous version), a living owner is at work under both locks, a crash alone never needs a person, a hand-off is not undone behind the new server, the gate settles unless a hand-off was left stale |
| stale_handoff | the same | **violation**, finding 1 |
| peer_relay | 2 messages to 1 session, in one millisecond or two, 2 processes, 2 attempts, one further boot, one human turn, ledger and orphan faults | read once, in order to the millisecond, verdicts agree with the transcript, given up only after the tries, resolved in the end |
| session_steer | 2 texts of 2 members, 2 runs, a queue of 1, 2 per run | a text is in one place, read once and by its run, verdicts are true, others' text needs the starter, the grace period spares steers, every text settles |
| permissions | 2 decisions of any kind of one user, 1 session, 2 processes | honest outcomes, and a living owner's claim is left to it; fences stay and name their decision, and hold back claims; a server serves again |

Why these bounds are enough to show something: two executions are what a race over one
run needs, and one may supersede the other; a third process lets a recovery be
interrupted and repeated; two attempts distinguish the last attempt from an earlier
one; two contents distinguish a mismatch; two scheduled messages compete for one slot
(`scheduled_edits`), and `CapsHold` proves the caps, that of a user and of a session
included, for any numbers. Three generations have a first, a middle and a last exchange; two
updates make a stale descriptor of the first meet the second; a third crash falls on the
recovery of a recovery. Two peer messages have an order, and a boot beside a draining
process is enough for two holders of one row. A queue of one is full with one text, and a
second run is what a late text may wrongly reach. Two decisions share or do not share a
scope, and one of them can be an orphan while the other claims. The actors are symmetric
where the configuration says SYMMETRY: never in a run with liveness. `MaxEdits` and
`MaxExits` bound counters of the model, not of the code, as do `MaxUpdates`, `MaxCrashes`,
`MaxRefs`, `MaxBoots`, `MaxHumans`, `MaxTurns` and `MaxOut`; `MaxAttempts`, `QueueMax` and
`PerTurnMax` are constants of the code at smaller values.
Deadlock checking is off where executions, processes or deliveries are a finite supply.

### Fairness
`TurnSupervisor!Fairness`: every await of an execution ends while its process lives
(adapters have timeouts, file appends settle); a turn has a bounded number of rounds
(`ts/orchestrator.ts`), hence strong fairness of `Finish`; the watchdog has a timer, and releases
the lease of a dead owner whose pid nobody else can take (`Reused` are the processes whose pid
others may take: of those nothing is promised); a process that released its port exits; the process manager starts a successor. No
cancel, crash or resend is assumed to happen, and progress is not promised once all
the processes of the instance are used up (`AllDead`).
`ScheduledMessages!FairSpec`: the poll has a timer, the process is restarted, time
passes, and a launched turn ends. This last one is an assumption the code does not
enforce: a hung turn keeps its slot until a restart, as
scheduled-messages.service.ts:235-240 says itself. The refund window closes although
refunds repeat (strong fairness): it is wall-clock time.
`UpdateGate!FairSpec`: a process goes on with its update or its boot, a served process
attaches, an admitted writer ends; an update, a crash or a writer is never assumed to come.
`PeerRelay!FairSpec`: the dispatcher ticks, backoff elapses, a turn gets past its guard or is
refused, and then registers or fails, turns end and so does a person's, a draining process
exits and a successor boots; strong fairness of the claim of a message, by whichever
process, because a person's turns may close and open its guard.
`SessionSteer!FairSpec`: the generator and the message loop go on, timers fire, a run ends,
a transcript is looked at; strong fairness of the CLI's `result`. That the CLI reads
what it is given is not assumed.
`PermissionExecutions!FairSpec`: the process manager restarts the server until it serves
and a draining process ends. Nothing is assumed of effects, expiry or lifts.

## 5. Findings

1. **A hand-off descriptor left by a crash keeps the gate closed** (`stale_handoff`). The quote it
   disagrees with is in `PROJECT.json`; `GateSettlesUnlessStale` states what holds.

Observed besides, without a run of their own.

*Turns and messages.* The watchdog keeps the lease of a dead owner while another process has
its pid (`ts/watchdog.ts:33-58`), so that capacity is lost for as long: `DeadOwnerReleased`
speaks of the other owners only. OpenCode and Cursor send an `error` frame for a line of stderr or
one that does not parse, and go on (`opencode-cli.js:588-597, 889-921`, `cursor-cli.js:362-372`);
the gate records it as the verdict (`chat-websocket.service.ts:1322, 1340-1349`) and drops the later
one, so that a duplicate of a turn that succeeded is told it failed, and a scheduled message is
failed (`scheduled-messages.dispatch.ts:161-163`) while its turn goes on. With two runtimes, startup after an interrupted cancellation fails:
each resumes every pending root with its own adapters (`ts/cancel-cascade.ts:97, 244`); with
one runtime it never does. A process that starts beside a live one reaps runs that are
still executed, and marks running ones uncertain; in that overlap `LeaseHasHolder`,
`CancelCompletes` and `NoDispatchAfterCancel` do not hold either: a request accepted by the successor
does not stop the dispatch of an execution that the draining process has under way. For sessions that are `Fresh`, `LeaseHasHolder` and
`WorkingHoldsLease` fail even in one process: the second execute() releases the shared lease. A message
refused as not started cannot be edited: its id stays bound to the payload that was never
sent (`message-coordination.db.ts:171`). A duplicate towards a supervisor overwrites the
verdict (`chat-websocket.service.ts:1345`), and one that permission or workspace refuses is
told `sameClientMsgIdRetryable` while the first delivery runs, which is why
`ReplayIsTheOutcome` and `RetryableMeansNotLaunched` are stated of messages without a supervisor.
Rescheduling a message that failed terminally, with its content unchanged, replays the old
failure. With late heartbeats or a store that fails twice, a row may be failed
(`lease_expired`), edited and cancelled while its first delivery is under way
(failExpiredExhausted does not exclude busy sessions), which is why `scheduled_edits` has
`Faults = FALSE`.

*Updates.* With identical dependencies, a crash in INSTALLING before the snapshot ends in
MANUAL although nothing is lost; `CrashAloneNeverManual` exempts it.

*Peer relay.* Two messages sent in one millisecond are delivered in the order of their random ids
(`peer-messages.db.ts:97-98`, `peer-relay.service.ts:143`); `InOrder` speaks of different
milliseconds, and of a clock that does not go back. The run guard (`claude-sdk.js:3546`) is several
awaits before the registration (`claude-sdk.js:4817`), so two turns may pass it and the later
registration writes over the earlier; the transcript then has both, which the properties allow.
`pause()` during the awaits of a claim does not stop it, although
`peer-dispatcher.ts:214` says "Drain: claim nothing from now on"; claimed after the successor's
repair, such a row stays `delivering` until the next restart. The repair of a boot beside a
draining process requeues a row that is still delivered, which is then read twice
(`disturbed`), against `peer-messages.db.ts:4-5`; the CLI of a dead process may write after the
repair, to the same effect. A ledger write that throws leaves the row `delivering` until a
restart. `Resolved` exempts the first and the third (`exposed`), `ReadAtMostOnce` the second.

*Steering.* A crash leaves an accepted text `queued` for good, and its id is refused as a
duplicate afterwards (`lost`). Marking a text delivered races its settlement as unconfirmed.

*Permissions.* A definite outcome does not say that the effect is over: a turn whose loop threw
or was stopped is settled failed or cancelled (`claude-sdk.js:5396-5399, 5546`) before its input is
released (`claude-sdk.js:5569`) and its CLI has exited, and the adapter settles failed whenever the
effect throws (`adapter.ts:49-53, 64-67`). What runs on then is fenced by nothing. The reconciliation looks only at leases past their 30 s and only at boot: a
server that dies soon after an admission and is restarted at once leaves the row active and its
scope open beside a running orphan, although `claude-sdk.js:4758-4761` says that a crash
fences the session. The gateway sets `consumed` before the claim, so that a refused claim leaves a
lease nobody can settle, and an authorized launch that was never started is not settled
either; both refuse every acknowledgement of their scope until a restart. The terminal broker
forgets a launch whose start failed; the next boot fences its user's terminals though
nothing ran. A lease still active under a living old server makes every boot fatal while
that server lives, although `runtime-gateway.ts:158` says that the retry boots clean.

## 6. The proofs

All are checked by TLAPS for every value of the constants under the `ASSUME` of the module.

| Module | Theorems | Argument |
|---|---|---|
| `CancellationStoreProofs` | TypeOK, RunsFollowTheirRoot, CompletionOrCancellation | the conjunction is inductive once a run's root is known to be one that exists |
| `TurnSupervisorProofs` | TypeOK, AtMostOnceDispatch, OutcomeAgreesWithCancellation, ImplementsContract | `IInv` = rows, cancellation, executions and servers are typed, plus `SafeInv`, which ties an execution at work to the running row that it alone took from claimed to running, and that row to the cancellation row; every action either leaves the mapped phase alone or is a step of the contract |
| | WorkingHoldsLease, LeaseHasHolder, ReapedIsQuiet, RunningHasDriver, NoDispatchAfterCancel | `LongInv` adds `LifeInv` (who is active has a living process and its rows), `LeaseInv` (a grant is of the execution's own process, one execution of a turn per process) and, with one process at a time, `AloneInv` (a request is seen by every execution that may still dispatch, a held lease has a holder, startup has a running row on its list or has dealt with it) |
| `ChatIngressProofs` | TypeOK, LaunchedOnceAsBound, AnswersAreTrue (its replay and retry parts speak of messages without a supervisor) | `IInv`: a delivery that passed the gate holds a claimed row of its own payload; without a supervisor it is the only such delivery, and a row reopens only when no delivery launched; a verdict in a row is the outcome of the turn or the failure of an error frame it sent |
| `ScheduledMessagesProofs` | TypeOK, OneEffectAsTold, TurnsWithinCaps, LaunchesWhatIsScheduled | `IInv`: a delivery past the ledger is the only one of its message and nothing was launched before it; a row's token is that of its delivery; caps follow because every live turn is a busy delivery and a claim needs room. `ScheduleInv`: until its launch a delivery holds the lease of a row with its content, or the row is already sent |
| `UpdateGateProofs` | Consistent, WritersSeeOpenGate, OpenIsWhole, CrashAloneNeverManual, NoReopenPastHandoff | `IInv` says who holds which lock at each stage (`LockInv`), what the journal says there (`StageInv`), and what each phase vouches for on disk: source, generations, receipt and snapshot (`JournalInv`); the disk can be judged only from the phase, and the phase is trusted only because one process holds the locks |
| `PeerRelayProofs` | TypeOK, ReadAtMostOnce, VerdictIsTrue, InOrder, GivenUpAfterTries | for a row nobody disturbed, one job or one orphan may still write its line, only while it is `delivering`, and past the offset of its claim; what the job remembers is what the row says; attempts are turns that could have delivered it, save a claim whose turn has not registered |
| `SessionSteerProofs` | InOnePlace, VerdictIsTrue, ReadOnceByItsRun, OthersNeedTheStarter, GraceSparesSteers | `IInv` relates row and last event, says where a text that was told `queued` is (queue, stdin, in flight, being confirmed) and that it is there once, that these are texts of the present run and have tainted it, and that a grace is armed only over nothing under way |
| `PermissionExecutionsProofs` | TypeOK, OutcomeIsHonest, FencesHold, NoClaimBesideAnOrphan | `RowInv` ties a row to the handle in its owner's memory and to what really runs (a handle that can act has a living owner, and one that was claimed an active lease; in-process work ends with its owner, an effect exists only past its recorded start); `CoverInv` says what a lift answered for: a decision it covers is unknown, and over or taken on by an owner |

`ChatIngressProofs` and `ScheduledMessagesProofs` begin with the lemmas on what the ledger's
claim, markStarted and recordVerdict do to a row, which both rest on.

Five theorems of `TurnSupervisorProofs` and one of `ScheduledMessagesProofs` have a hypothesis,
because without it the property is false of the code; TLC finds the counterexample on the
instances of the runs:

| Theorem | Hypothesis | What happens without it |
|---|---|---|
| WorkingHoldsLease, LeaseHasHolder | the client named its sessions (`Known`) | two execute() calls of a first message, each with a session of its own, share the turn's lease, and the loser returns it |
| LeaseHasHolder, ReapedIsQuiet, RunningHasDriver, NoDispatchAfterCancel | processes do not overlap (`~MayOverlap`) | startup reaps or marks what the other process still drives, and a cancellation that one of them accepts does not abort the other's execution |
| LaunchesWhatIsScheduled | heartbeats come in time and the store does not fail (`~Faults`) | a row fails as `lease_expired` under a living delivery and may then be edited or cancelled |

An invariant alone is never inductive here: that one effect happens depends on which
of the deliveries in flight has passed the ledger, which no property mentions.

Only model-checked: liveness, which is out of the prover's reach as ENABLED is:
CancelCompletes, RunningIsResolved, DeadOwnerReleased, DueIsResolved, GateSettlesUnlessStale,
`PeerRelay!Resolved`, `SessionSteer!Settled` and NodeReturns. Every other property of a passing
run is a theorem.

## 7. Limits

- `ChatIngress` and `TurnSupervisor` are not composed: the gate sees a supervisor as what it
  answers, and the supervisor sees resends as executions that may start at any time.
- SQLite transactions are atomic and durable. A stretch of code without await is one
  step, except where a crash may split it. `StartSuperseded` takes a few microtasks as one step.
- reconcileOnStartup fences and marks one run in one step. A storage fault inside
  claimWriter, after which the session stays in the active map until a restart, is left out.
- `Fresh` sessions model CLI resends; hosted resends reuse the session of the durable context.
- `ScheduledMessages` has one process (across processes only the lease excludes, as claimDue
  says) and a provider without a supervisor; the order of available_at among
  sessions is any order; the end of the refund window is a step only when it is read.
- `UpdateGate`: a write of the source tree is in two parts, whatever the number of paths; the
  content of the database snapshot and the health checks are answers. The journal's
  compare-and-swap is left out, since every write of it is under the admission lock.
- `PeerRelay`: a person's turn is its registration alone, which its guard may precede by any
  time; the clock that stamps rows does not go back; hop limits, access and throttles are left
  out; repairAll is assumed not to throw midway; a second pass that lists a row of a rejected one
  is left out. Progress of a row is that of the process that holds it.
- `SessionSteer`: refused requests change nothing and are not actions; images, rate limits
  and usage are left out; the tool permission is the predicate `Unasked`, over what the run itself
  read; other reasons that hold the input open are the grace period, and a change of the relay
  mode, which releases a held run (`claude-sdk.js:3731, 3829-3831`) whatever text is under way, is left
  out; an abort sends what was taken a `steer-rejected` event with the status `unconfirmed`, which
  is what `told` keeps; a new run while the loop of a stopped one
  ends is left out.
- `PermissionExecutions`: definite outcomes of a launch that is not said to be
  unstarted or unspawned are one, "done"; a side question
  (`btw`), whose process exists before its start is recorded, is left out, as are the
  projects and participants that a binding is checked against; the search for a decision's processes is exact (the code documents the residual risk); the
  wrapper stands for its grandchild; rollout transitions and unreadable boot ids are left
  out; no server boots beside one that is up; ids are used in order; closed rows forget what
  nobody asks of them.
- Providers, permission and workspace answers, the update gate and samples of the
  machine are nondeterministic answers.
- Not modelled components and the reasons are in `PROJECT.json`.
