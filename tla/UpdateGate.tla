------------------------------ MODULE UpdateGate ------------------------------
(***************************************************************************)
(* The maintenance gate of a source update: a durable journal (OPEN,       *)
(* DRAINING, UPDATING, RECOVERING, MANUAL) and two kernel locks, admission *)
(* and activity, that every application writer takes shared and every      *)
(* updater, recovery and bootstrap takes exclusive.  Server processes may  *)
(* overlap, die between any two steps and be restarted; the next one must  *)
(* finish, undo or hand to a person what the last one left half done.      *)
(* Every journal write happens under the exclusive admission lock, so its  *)
(* compare-and-swap on the sequence cannot lose and is not modelled.       *)
(* Source: server/services/update-maintenance-gate.js,                     *)
(* update-writer-lease.js, server/bootstrap.js, server/routes/system.js.   *)
(***************************************************************************)
EXTENDS SourceActivation

CONSTANTS Proc,        \* server processes (slots restarted by pm2)
          None,        \* no process, no phase, no transaction
          Dead,        \* an owner recorded by a process that is gone
          MaxCrashes,  \* bound on crashes
          MaxRefs      \* bound on nested writers of one lease

ASSUME GateAssumption ==
    /\ None \notin Proc \cup 1..MaxUpdates /\ Dead \notin Proc /\ None # Dead
    /\ MaxCrashes \in Nat /\ MaxRefs \in Nat \ {0}

VARIABLES j,           \* the journal
          desc,        \* transaction named by bootstrap-handoff.json
          updates,     \* transactions begun so far
          adm, act,    \* exclusive holders of the admission and activity locks
          pc,          \* what each process is doing
          seen,        \* descriptor a booting process has read
          lease, refs, \* the application writer lease of a process, and its uses
          ctx,         \* volatile flags of the activation in progress
          crashes,
          fault        \* some step has failed, other than by a crash

vars == <<diskVars, j, desc, updates, adm, act, pc, seen, lease, refs, ctx, crashes, fault>>

NoFlags == [src |-> FALSE, gen |-> FALSE, err |-> FALSE]

Idle == [state |-> "OPEN", phase |-> None, tx |-> None, owner |-> None,
         from |-> 0, to |-> 0, unknown |-> FALSE, degraded |-> FALSE]

Init == /\ DiskInit
        /\ j = Idle /\ desc = None /\ updates = 0
        /\ adm = None /\ act = None
        /\ pc = [p \in Proc |-> "up"] /\ seen = [p \in Proc |-> None]
        /\ lease = [p \in Proc |-> "none"] /\ refs = [p \in Proc |-> 0]
        /\ ctx = NoFlags /\ crashes = 0 /\ fault = FALSE

Quiet == j.state = "OPEN" /\ ~j.degraded
Loaded == {"up", "begin", "drain", "act", "undo", "handed", "attach", "attached"}

AdmissionFree == adm = None /\ \A p \in Proc : lease[p] # "admission"
ActivityFree  == act = None /\ \A p \in Proc : lease[p] # "activity"
LocksFree     == AdmissionFree /\ ActivityFree

Takes(p)    == LocksFree /\ adm' = p /\ act' = p
Releases(p) == adm' = None /\ act' = None
KeepLocks   == UNCHANGED <<adm, act>>
Goes(p, x)  == pc' = [pc EXCEPT ![p] = x]

WriterUnchanged == UNCHANGED <<lease, refs>>
LifeUnchanged   == UNCHANGED <<updates, seen, crashes>>

Manual(row)  == [row EXCEPT !.state = "MANUAL", !.owner = None]
\* Clearing the transaction; the versions stay readable from the disk.
Reset(row)   == [Idle EXCEPT !.unknown = row.unknown, !.degraded = row.degraded]

(* The declared exit: reopen on the previous generations, degraded (and     *)
(* with the transaction kept) when the source tree stayed at the target.    *)
Eligible == j.tx # None /\ GensProven(j.from) /\ src # Mixed
Reopened(row) ==
    IF src = row.to
    THEN [row EXCEPT !.state = "OPEN", !.phase = None, !.owner = None, !.degraded = TRUE]
    ELSE [Reset(row) EXCEPT !.degraded = FALSE]
ReopenOrManual(row) == IF Eligible THEN Reopened(row) ELSE Manual(row)

-----------------------------------------------------------------------------
(* Application writers: one lease per process, shared by nested writers.    *)
Admit(p) ==
    /\ pc[p] \in Loaded /\ lease[p] = "none"
    /\ adm = None /\ j.state = "OPEN"
    /\ lease' = [lease EXCEPT ![p] = "admission"]
    /\ UNCHANGED <<diskVars, j, desc, adm, act, pc, refs, ctx, fault>> /\ LifeUnchanged

AdmitActivity(p) ==
    /\ lease[p] = "admission" /\ act = None /\ j.state = "OPEN"
    /\ lease' = [lease EXCEPT ![p] = "activity"]
    /\ refs' = [refs EXCEPT ![p] = 1]
    /\ UNCHANGED <<diskVars, j, desc, adm, act, pc, ctx, fault>> /\ LifeUnchanged

(* The wait is aborted or times out, or the second look at the journal fails. *)
AdmitAborted(p) ==
    /\ lease[p] = "admission"
    /\ lease' = [lease EXCEPT ![p] = "none"]
    /\ UNCHANGED <<diskVars, j, desc, adm, act, pc, refs, ctx, fault>> /\ LifeUnchanged

Retain(p) ==
    /\ refs[p] \in 1..(MaxRefs - 1)
    /\ refs' = [refs EXCEPT ![p] = @ + 1]
    /\ UNCHANGED <<diskVars, j, desc, adm, act, pc, lease, ctx, fault>> /\ LifeUnchanged

\* Mutant: the first nested release frees the lease of the others.
LeaseAfterFirst(left, held) == "none"

LeaseAfter(left, held) == IF left = 0 THEN "none" ELSE held

ReleaseWriter(p) ==
    /\ refs[p] > 0
    /\ refs' = [refs EXCEPT ![p] = @ - 1]
    /\ lease' = [lease EXCEPT ![p] = LeaseAfter(refs[p] - 1, @)]
    /\ UNCHANGED <<diskVars, j, desc, adm, act, pc, ctx, fault>> /\ LifeUnchanged

-----------------------------------------------------------------------------
(* The exclusive source-ref lease (attaching a release branch): admission,  *)
(* then activity with a short wait; the journal is never written.           *)
Attach(p) ==
    /\ pc[p] = "up" /\ AdmissionFree /\ Quiet
    /\ adm' = p /\ Goes(p, "attach")
    /\ UNCHANGED <<diskVars, j, desc, act, ctx, fault>> /\ LifeUnchanged /\ WriterUnchanged

AttachActivity(p) ==
    /\ pc[p] = "attach"
    /\ \/ /\ ActivityFree /\ act' = p /\ Goes(p, "attached") /\ UNCHANGED adm
       \/ /\ ~ActivityFree /\ adm' = None /\ Goes(p, "up") /\ UNCHANGED act
    /\ UNCHANGED <<diskVars, j, desc, ctx, fault>> /\ LifeUnchanged /\ WriterUnchanged

Detach(p) ==
    /\ pc[p] = "attached" /\ Releases(p) /\ Goes(p, "up")
    /\ UNCHANGED <<diskVars, j, desc, ctx, fault>> /\ LifeUnchanged /\ WriterUnchanged

-----------------------------------------------------------------------------
(* beginUpdate: lock, then close.  A contended activity lock costs the      *)
(* attempt, never a closed gate.                                            *)
Begin(p) ==
    /\ pc[p] = "up" /\ updates < MaxUpdates
    /\ AdmissionFree /\ Quiet
    /\ adm' = p /\ Goes(p, "begin")
    /\ UNCHANGED <<diskVars, j, desc, act, ctx, fault>> /\ LifeUnchanged /\ WriterUnchanged

BeginContended(p) ==
    /\ pc[p] = "begin" /\ ~ActivityFree
    /\ adm' = None /\ Goes(p, "up")
    /\ UNCHANGED <<diskVars, j, desc, act, ctx, fault>> /\ LifeUnchanged /\ WriterUnchanged

\* Mutant: close first and wait for the writers afterwards.
MayCloseEarly == TRUE

MayClose == ActivityFree

BeginClose(p) ==
    /\ pc[p] = "begin" /\ MayClose
    /\ act' = p /\ updates' = updates + 1
    /\ j' = [state |-> "DRAINING", phase |-> "PREPARED", tx |-> updates + 1, owner |-> p,
             from |-> src, to |-> src + 1, unknown |-> FALSE, degraded |-> FALSE]
    /\ receipt' = NoReceipt /\ snap' = FALSE       \* a candidate root of its own
    /\ ctx' = NoFlags /\ Goes(p, "drain")
    /\ UNCHANGED <<src, gen, desc, adm, seen, crashes, fault>> /\ WriterUnchanged

BeginUpdating(p) ==
    /\ pc[p] = "drain"
    /\ \/ /\ j' = [j EXCEPT !.state = "UPDATING"] /\ Goes(p, "act")
          /\ KeepLocks /\ UNCHANGED fault
       \/ /\ j' = Reset(j) /\ Goes(p, "up")
          /\ Releases(p) /\ fault' = TRUE
    /\ UNCHANGED <<diskVars, desc, ctx>> /\ LifeUnchanged /\ WriterUnchanged

-----------------------------------------------------------------------------
(* The activation.  Each phase is journalled before the effect it covers.   *)
Phases(x) == CASE x = "PREPARED"          -> "SOURCE_APPLYING"
               [] x = "SOURCE_APPLYING"   -> "SOURCE_APPLIED"
               [] x = "SOURCE_APPLIED"    -> "INSTALLING"
               [] x = "INSTALLING"        -> "VERIFIED"
               [] x = "VERIFIED"          -> "ACTIVATION_QUEUED"
               [] x = "ACTIVATION_QUEUED" -> "RESTARTING_HANDOFF"
               [] OTHER                   -> None

PhaseDone == CASE j.phase = "SOURCE_APPLYING" -> src = j.to
               [] j.phase = "INSTALLING"      -> Exchanged(j.to)
               [] OTHER                       -> TRUE

ActPhase(p) ==
    /\ pc[p] = "act" /\ PhaseDone /\ Phases(j.phase) # None
    /\ j' = [j EXCEPT !.phase = Phases(j.phase),
                      !.unknown = Phases(j.phase) = "RESTARTING_HANDOFF"]
    /\ UNCHANGED <<diskVars, desc, pc, ctx, fault>> /\ LifeUnchanged /\ WriterUnchanged /\ KeepLocks

MayWriteSource == j.phase = "SOURCE_APPLYING"

ActSource(p) ==
    /\ pc[p] = "act" /\ MayWriteSource
    /\ WriteSource(j.to)
    /\ ctx' = [ctx EXCEPT !.src = TRUE]
    /\ UNCHANGED <<j, desc, pc, fault>> /\ LifeUnchanged /\ WriterUnchanged /\ KeepLocks

ActSnapshot(p) ==
    /\ pc[p] = "act" /\ j.phase = "INSTALLING" /\ ~snap
    /\ snap' = TRUE
    /\ ctx' = [ctx EXCEPT !.gen = TRUE]
    /\ UNCHANGED <<src, gen, receipt, j, desc, pc, fault>> /\ LifeUnchanged /\ WriterUnchanged /\ KeepLocks

ActReceipt(p) ==
    /\ pc[p] = "act" /\ j.phase = "INSTALLING" /\ snap /\ ~receipt.filed
    /\ receipt' = Recorded({})
    /\ UNCHANGED <<src, gen, snap, j, desc, pc, ctx, fault>> /\ LifeUnchanged /\ WriterUnchanged /\ KeepLocks

ActExchange(p) ==
    /\ pc[p] = "act" /\ j.phase = "INSTALLING" /\ receipt.filed
    /\ RecordIntent(j.to) \/ Exchange(j.to)
    /\ UNCHANGED <<j, desc, pc, ctx, fault>> /\ LifeUnchanged /\ WriterUnchanged /\ KeepLocks

ActDescriptor(p) ==
    /\ pc[p] = "act" /\ j.phase = "RESTARTING_HANDOFF"
    /\ desc' = j.tx /\ Goes(p, "handed")
    /\ UNCHANGED <<diskVars, j, ctx, fault>> /\ LifeUnchanged /\ WriterUnchanged /\ KeepLocks

\* Mutant: the living process stays recorded as the owner.
DeclaredManualOwned(row) == [row EXCEPT !.state = "MANUAL"]

DeclaredManual(row) == Manual(row)

(* A step throws: before the handoff the rollback starts, past it (the      *)
(* descriptor write failing, or the restart never launched) only a person   *)
(* can decide.                                                              *)
ActFails(p) ==
    /\ pc[p] \in {"act", "handed"} /\ fault' = TRUE
    /\ IF j.phase = "RESTARTING_HANDOFF"
       THEN j' = DeclaredManual(j) /\ Releases(p) /\ Goes(p, "up")
       ELSE j' = [j EXCEPT !.phase = "ROLLBACK_PREPARED"] /\ KeepLocks /\ Goes(p, "undo")
    /\ UNCHANGED <<diskVars, desc, ctx>> /\ LifeUnchanged /\ WriterUnchanged

(* The restart that the handoff asked for.                                  *)
HandoffExit(p) ==
    /\ pc[p] = "handed"
    /\ pc' = [pc EXCEPT ![p] = "down"] /\ Releases(p)
    /\ j' = [j EXCEPT !.owner = Dead]
    /\ lease' = [lease EXCEPT ![p] = "none"] /\ refs' = [refs EXCEPT ![p] = 0]
    /\ UNCHANGED <<diskVars, desc, ctx, fault>> /\ LifeUnchanged

-----------------------------------------------------------------------------
(* The rollback inside the updating process: generations, source, exit.     *)
UndoGens(p) ==
    /\ pc[p] = "undo" /\ j.phase = "ROLLBACK_PREPARED" /\ ctx.gen
    /\ UndoExchange(j.from)
    /\ UNCHANGED <<j, desc, pc, ctx, fault>> /\ LifeUnchanged /\ WriterUnchanged /\ KeepLocks

UndoGensEnds(p) ==
    /\ pc[p] = "undo" /\ j.phase = "ROLLBACK_PREPARED"
    /\ j' = [j EXCEPT !.phase = "ROLLBACK_SOURCE_APPLYING"]
    /\ \/ /\ ~ctx.gen /\ UNCHANGED <<receipt, ctx, fault>>
       \/ /\ ctx.gen /\ receipt.filed /\ AllAt(j.from)
          /\ receipt' = UndoneReceipt /\ UNCHANGED <<ctx, fault>>
       \/ /\ ctx.gen /\ UNCHANGED receipt        \* no receipt, or the exchange back fails
          /\ ctx' = [ctx EXCEPT !.err = TRUE] /\ fault' = TRUE
    /\ UNCHANGED <<src, gen, snap, desc, pc>> /\ LifeUnchanged /\ WriterUnchanged /\ KeepLocks

UndoSource(p) ==
    /\ pc[p] = "undo" /\ j.phase = "ROLLBACK_SOURCE_APPLYING" /\ ctx.src
    /\ WriteSource(j.from)
    /\ UNCHANGED <<j, desc, pc, ctx, fault>> /\ LifeUnchanged /\ WriterUnchanged /\ KeepLocks

UndoSourceEnds(p) ==
    /\ pc[p] = "undo" /\ j.phase = "ROLLBACK_SOURCE_APPLYING"
    /\ j' = [j EXCEPT !.phase = "ROLLBACK_SOURCE_APPLIED"]
    /\ \/ (ctx.src => src = j.from) /\ UNCHANGED <<ctx, fault>>
       \/ ctx.src /\ src # j.from /\ ctx' = [ctx EXCEPT !.err = TRUE] /\ fault' = TRUE
    /\ UNCHANGED <<diskVars, desc, pc>> /\ LifeUnchanged /\ WriterUnchanged /\ KeepLocks

UndoExit(p) ==
    /\ pc[p] = "undo" /\ j.phase = "ROLLBACK_SOURCE_APPLIED"
    /\ j' = IF ctx.err THEN ReopenOrManual(j) ELSE Reset(j)
    /\ Releases(p) /\ Goes(p, "up")
    /\ UNCHANGED <<diskVars, desc, ctx, fault>> /\ LifeUnchanged /\ WriterUnchanged

-----------------------------------------------------------------------------
(* bootstrap.js: a process that starts reads the journal, then claims a     *)
(* handoff, recovers what a dead owner left, or serves.                     *)
\* Mutant: a missing descriptor is not a case for the recovery.
HandoffNamedByPhase == j.state = "UPDATING" /\ j.phase = "RESTARTING_HANDOFF"

HandoffNamed == j.state = "UPDATING" /\ j.phase = "RESTARTING_HANDOFF" /\ desc # None

Start(p) ==
    /\ pc[p] = "down"
    /\ Goes(p, IF j.state = "OPEN" THEN "up" ELSE IF HandoffNamed THEN "claim" ELSE "recover")
    /\ seen' = [seen EXCEPT ![p] = desc]
    /\ UNCHANGED <<diskVars, j, desc, updates, crashes, ctx, fault>> /\ WriterUnchanged /\ KeepLocks

Claimable(p) == j.state = "UPDATING" /\ j.phase = "RESTARTING_HANDOFF" /\ j.tx = seen[p]

(* The claim re-reads the journal under both locks.  A rejected or          *)
(* contended claim ends the process; a snapshot or application that cannot  *)
(* be attested ends in MANUAL.                                              *)
Claim(p) ==
    /\ pc[p] = "claim"
    /\ \/ /\ Claimable(p) /\ Takes(p) /\ Goes(p, "claimed")
          /\ j' = [j EXCEPT !.phase = "BOOTSTRAP_CLAIMED", !.owner = p]
          /\ UNCHANGED fault
       \/ /\ Claimable(p) /\ LocksFree /\ KeepLocks /\ Goes(p, "down")
          /\ j' = Manual(j) /\ fault' = TRUE
       \/ /\ LocksFree => ~Claimable(p)
          /\ Goes(p, "down") /\ KeepLocks /\ UNCHANGED <<j, fault>>
    /\ UNCHANGED <<diskVars, desc, ctx>> /\ LifeUnchanged /\ WriterUnchanged

(* The new server verifies the exchanged generations and opens the gate;    *)
(* a failure aborts its startup.                                            *)
ClaimedEnds(p) ==
    /\ pc[p] = "claimed" /\ Releases(p)
    /\ \/ /\ Exchanged(j.to) /\ Goes(p, "up") /\ UNCHANGED fault
          /\ j' = [j EXCEPT !.state = "OPEN", !.phase = "ACTIVE_VERIFIED", !.owner = None]
       \/ /\ Goes(p, "down") /\ fault' = TRUE
          /\ j' = [j EXCEPT !.owner = Dead]
    /\ UNCHANGED <<diskVars, desc, ctx>> /\ LifeUnchanged /\ WriterUnchanged

-----------------------------------------------------------------------------
\* Mutant: the recovery rolls back whatever the database state is.
PastHandoffIgnored == FALSE

(* recoverOrDeclareManual, at startup or from the maintenance poll.         *)
PastHandoff == j.unknown \/ j.phase \in {"RESTARTING_HANDOFF", "BOOTSTRAP_CLAIMED"}

Unstarted   == j.state \in {"DRAINING", "UPDATING"} /\ j.phase = "PREPARED"
Recoverable == j.state \in {"UPDATING", "RECOVERING"} /\ j.phase # "PREPARED"

RecoverEnters(p) == pc[p] = "recover" \/ pc[p] = "poll"

(* What the recovery decides under both locks; a living owner stops it.     *)
Recover(p) ==
    /\ RecoverEnters(p) /\ LocksFree /\ j.owner \notin Proc
    /\ \/ /\ j.state = "OPEN" /\ UNCHANGED j
          /\ Goes(p, "up") /\ KeepLocks /\ UNCHANGED fault
       \/ /\ j.owner = Dead                       \* /proc does not answer
          /\ j' = Manual(j) /\ fault' = TRUE
          /\ Goes(p, "hold") /\ KeepLocks
       \/ /\ j.state # "OPEN" /\ ~PastHandoff /\ Unstarted
          /\ j' = Reset(j)
          /\ Goes(p, "up") /\ KeepLocks /\ UNCHANGED fault
       \/ /\ j.state # "OPEN" /\ ~PastHandoff /\ Recoverable
          /\ j' = [j EXCEPT !.state = "RECOVERING", !.owner = None]
          /\ Takes(p) /\ Goes(p, "rollback") /\ UNCHANGED fault
       \/ /\ j.state # "OPEN" /\ (PastHandoff \/ (~Unstarted /\ ~Recoverable))
          /\ j' = Manual(j)
          /\ Goes(p, "hold") /\ KeepLocks /\ UNCHANGED fault
    /\ UNCHANGED <<diskVars, desc, ctx>> /\ LifeUnchanged /\ WriterUnchanged

RecoverContended(p) ==
    /\ RecoverEnters(p) /\ ~LocksFree
    /\ Goes(p, "hold")
    /\ UNCHANGED <<diskVars, j, desc, ctx, fault>> /\ LifeUnchanged /\ WriterUnchanged /\ KeepLocks

(* The maintenance poll: an open gate lets the process load the server.     *)
Poll(p) ==
    /\ pc[p] = "hold" /\ j.state # "MANUAL"
    /\ Goes(p, IF j.state = "OPEN" THEN "up" ELSE "poll")
    /\ UNCHANGED <<diskVars, j, desc, ctx, fault>> /\ LifeUnchanged /\ WriterUnchanged /\ KeepLocks

\* Mutant: every phase needs the snapshot.
SnapshotAlwaysNeeded == snap

(* rollbackStaleSourceUpdate: only before the install is no snapshot needed. *)
SnapshotHeld == snap \/ j.phase \in {"SOURCE_APPLYING", "SOURCE_APPLIED"}

RollbackGens(p) ==
    /\ pc[p] = "rollback" /\ SnapshotHeld
    /\ UndoExchange(j.from)
    /\ UNCHANGED <<j, desc, pc, ctx, fault>> /\ LifeUnchanged /\ WriterUnchanged /\ KeepLocks

\* Mutant: the recovery undoes the source only.
GensBackAssumed == TRUE

GensBack == ~receipt.filed \/ AllAt(j.from)

RollbackSource(p) ==
    /\ pc[p] = "rollback" /\ SnapshotHeld /\ GensBack
    /\ WriteSource(j.from)
    /\ UNCHANGED <<j, desc, pc, ctx, fault>> /\ LifeUnchanged /\ WriterUnchanged /\ KeepLocks

(* Rolled back; or the rollback threw (always without the snapshot it       *)
(* needs) and the declared exit is taken if it is proven.                   *)
RollbackEnds(p) ==
    /\ pc[p] = "rollback"
    /\ \/ /\ SnapshotHeld /\ GensBack /\ src = j.from
          /\ j' = Reset(j) /\ UNCHANGED fault
       \/ /\ SnapshotHeld /\ j' = ReopenOrManual(j) /\ fault' = TRUE
       \/ /\ ~SnapshotHeld /\ j' = ReopenOrManual(j) /\ UNCHANGED fault
    /\ Releases(p) /\ Goes(p, IF j'.state = "OPEN" THEN "up" ELSE "hold")
    /\ UNCHANGED <<diskVars, desc, ctx>> /\ LifeUnchanged /\ WriterUnchanged

-----------------------------------------------------------------------------
(* A person, through doctor: reopen on the previous generations, or finish  *)
(* the source rollback of a degraded gate (which may stop half way).        *)
DoctorReopen ==
    /\ LocksFree /\ ~Quiet /\ j.owner \notin Proc /\ Eligible
    /\ j' = Reopened(j)
    /\ UNCHANGED <<diskVars, desc, pc, ctx, fault>> /\ LifeUnchanged /\ WriterUnchanged /\ KeepLocks

DoctorSourceRollback ==
    /\ LocksFree /\ j.state = "OPEN" /\ j.degraded
    /\ \/ /\ src' = j.from
          /\ j' = [Reset(j) EXCEPT !.degraded = FALSE]
       \/ src' \in {src, Mixed} /\ UNCHANGED j
    /\ UNCHANGED <<gen, receipt, snap, desc, pc, ctx, fault>> /\ LifeUnchanged /\ WriterUnchanged /\ KeepLocks

(* A process dies: the kernel drops its locks, its owner record is provably *)
(* dead, and everything volatile is gone.                                   *)
Freed(lock, p) == IF lock = p THEN None ELSE lock

Crash(p) ==
    /\ pc[p] # "down" /\ crashes < MaxCrashes
    /\ crashes' = crashes + 1
    /\ Goes(p, "down")
    /\ adm' = Freed(adm, p) /\ act' = Freed(act, p)
    /\ lease' = [lease EXCEPT ![p] = "none"] /\ refs' = [refs EXCEPT ![p] = 0]
    /\ j' = [j EXCEPT !.owner = IF @ = p THEN Dead ELSE @]
    /\ UNCHANGED <<diskVars, desc, updates, seen, ctx, fault>>

-----------------------------------------------------------------------------
Writers(p)  == Admit(p) \/ AdmitActivity(p) \/ AdmitAborted(p) \/ Retain(p) \/ ReleaseWriter(p)
Attaches(p) == Attach(p) \/ AttachActivity(p) \/ Detach(p)
Updating(p) == \/ BeginContended(p) \/ BeginClose(p) \/ BeginUpdating(p)
               \/ ActPhase(p) \/ ActSource(p) \/ ActSnapshot(p) \/ ActReceipt(p)
               \/ ActExchange(p) \/ ActDescriptor(p) \/ ActFails(p) \/ HandoffExit(p)
               \/ UndoGens(p) \/ UndoGensEnds(p) \/ UndoSource(p) \/ UndoSourceEnds(p) \/ UndoExit(p)
Booting(p)  == \/ Start(p) \/ Claim(p) \/ ClaimedEnds(p)
               \/ Recover(p) \/ RecoverContended(p) \/ Poll(p)
               \/ RollbackGens(p) \/ RollbackSource(p) \/ RollbackEnds(p)

Next == \/ \E p \in Proc : \/ Writers(p) \/ Attaches(p) \/ Begin(p)
                          \/ Updating(p) \/ Booting(p) \/ Crash(p)
        \/ DoctorReopen \/ DoctorSourceRollback

Spec == Init /\ [][Next]_vars

(* pm2 restarts a dead server, a started step runs or throws, a lock comes  *)
(* back; nobody must begin an update, write, attach or call the doctor.     *)
Fairness == \A p \in Proc : /\ WF_vars(Updating(p)) /\ WF_vars(Booting(p))
                            /\ WF_vars(AttachActivity(p) \/ Detach(p))
                            /\ WF_vars(AdmitActivity(p) \/ ReleaseWriter(p))
FairSpec == Spec /\ Fairness

-----------------------------------------------------------------------------
JournalType ==
    [state : {"OPEN", "DRAINING", "UPDATING", "RECOVERING", "MANUAL"},
     phase : {None, "PREPARED", "SOURCE_APPLYING", "SOURCE_APPLIED", "INSTALLING",
              "VERIFIED", "ACTIVATION_QUEUED", "RESTARTING_HANDOFF",
              "BOOTSTRAP_CLAIMED", "ACTIVE_VERIFIED", "ROLLBACK_PREPARED",
              "ROLLBACK_SOURCE_APPLYING", "ROLLBACK_SOURCE_APPLIED"},
     tx : 1..MaxUpdates \cup {None}, owner : Proc \cup {None, Dead},
     from : Version, to : Version, unknown : BOOLEAN, degraded : BOOLEAN]

TypeOK ==
    /\ DiskTypeOK
    /\ j \in JournalType
    /\ desc \in 1..MaxUpdates \cup {None} /\ updates \in 0..MaxUpdates
    /\ adm \in Proc \cup {None} /\ act \in Proc \cup {None}
    /\ pc \in [Proc -> Loaded \cup {"down", "claim", "claimed", "recover", "poll", "hold", "rollback"}]
    /\ seen \in [Proc -> 1..MaxUpdates \cup {None}]
    /\ lease \in [Proc -> {"none", "admission", "activity"}]
    /\ refs \in [Proc -> 0..MaxRefs]
    /\ ctx \in [src : BOOLEAN, gen : BOOLEAN, err : BOOLEAN]
    /\ crashes \in 0..MaxCrashes /\ fault \in BOOLEAN

(* "Lock, THEN close": whoever still writes, nested or not, does so under   *)
(* an open gate, and no update, recovery or attach runs beside it.          *)
WritersSeeOpenGate ==
    \A p \in Proc : refs[p] > 0 => j.state = "OPEN" /\ act = None /\ lease[p] = "activity"

(* A gate that is open and not degraded shows one version: the source tree  *)
(* and every generation, however many crashes and rollbacks led there.      *)
(* A degraded one still runs the previous generations, whole, and keeps the *)
(* transaction its exit path needs.                                         *)
OpenIsWhole ==
    /\ Quiet => \E v \in Version : src = v /\ AllAt(v)
    /\ (j.state = "OPEN" /\ j.degraded) => AllAt(j.from) /\ j.tx # None

(* "Releasing with the journal still UPDATING under this living owner kept  *)
(* the gate closed until a restart": a living owner is at work on it, with  *)
(* both locks; and everything has its type.                                 *)
Consistent == TypeOK /\
    \A p \in Proc : j.owner = p => /\ adm = p /\ act = p
                                  /\ pc[p] \in {"drain", "act", "handed", "undo", "claimed"}

(* A killed updater is not a reason for MANUAL: before the handoff, with no *)
(* failing step, only one death ends there, that of an update between the   *)
(* source and the snapshot when some generation is not changed by it (with  *)
(* no receipt its hash is taken for an exchange nobody recorded).           *)
CrashAloneNeverManual ==
    (j.state = "MANUAL" /\ ~fault) =>
        j.unknown \/ (Identical # {} /\ j.phase = "INSTALLING" /\ ~snap)

(* Past the handoff the database may have been migrated: only the process   *)
(* that claimed the handoff and verified the new generations reopens.       *)
NoReopenPastHandoff ==
    [][(j.state # "OPEN" /\ j.unknown /\ j'.state = "OPEN")
       => /\ j.phase = "BOOTSTRAP_CLAIMED" /\ j.owner \in Proc
          /\ AllAt(j.to) /\ src = j.to]_vars

(* A closed gate ends open or in a person's hands; bootstrap.js says that   *)
(* "past the handoff that means MANUAL and 503" for a missing descriptor.   *)
GateSettles == j.state \notin {"OPEN", "MANUAL"} ~> j.state \in {"OPEN", "MANUAL"}

(* It does, wherever no descriptor of an earlier update is in the way.      *)
GateSettlesUnlessStale ==
    (j.state \notin {"OPEN", "MANUAL"} /\ desc \in {None, j.tx})
        ~> j.state \in {"OPEN", "MANUAL"}
===============================================================================
