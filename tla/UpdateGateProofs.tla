--------------------------- MODULE UpdateGateProofs ---------------------------
(***************************************************************************)
(* Proofs about the maintenance gate, for any number of server processes,  *)
(* generations, updates, crashes and nested writers.  No safety property   *)
(* of the gate is inductive alone: what is on disk can be judged only from *)
(* the phase the journal records, and the journal is trusted only because  *)
(* one process at a time holds the locks.  The invariant says both.        *)
(***************************************************************************)
EXTENDS UpdateGate, TLAPS, WellFoundedInduction

Owners == {"drain", "act", "undo", "handed", "claimed"}
Works  == Owners \cup {"attached", "rollback"}         \* both locks are held
Admits == Works \cup {"begin", "attach"}               \* at least admission is

(* A writer's lease is the activity lock as long as somebody uses it, and   *)
(* then the gate is open and nobody holds that lock exclusively.            *)
WriterInv ==
    \A p \in Proc : /\ refs[p] > 0 <=> lease[p] = "activity"
                    /\ lease[p] = "activity" => j.state = "OPEN" /\ act = None

(* Whoever is at work holds the locks for it, and owns the journal exactly  *)
(* while it carries an update or a claimed handoff.                         *)
LockOK(p) == /\ pc[p] \in Admits => adm = p
             /\ pc[p] \in Works => act = p
             /\ j.owner = p <=> pc[p] \in Owners
LockInv == \A p \in Proc : LockOK(p)

Undoing == {"ROLLBACK_PREPARED", "ROLLBACK_SOURCE_APPLYING", "ROLLBACK_SOURCE_APPLIED"}
Handed  == {"RESTARTING_HANDOFF", "BOOTSTRAP_CLAIMED"}
Staged  == {"VERIFIED", "ACTIVATION_QUEUED"}
Forward == {"PREPARED", "SOURCE_APPLYING", "SOURCE_APPLIED", "INSTALLING"} \cup Staged

(* What the rollback of a living updater may conclude from its flags.       *)
UndoInv ==
    /\ ~ctx.gen => AllAt(j.from)
    /\ ~ctx.src => src = j.from
    /\ ctx.err => fault
    /\ ~ctx.err /\ j.phase # "ROLLBACK_PREPARED" => AllAt(j.from)
    /\ ~ctx.err /\ j.phase = "ROLLBACK_SOURCE_APPLIED" => src = j.from

(* Where a process stands fixes what the journal says.                      *)
StageOK(p) ==
    /\ pc[p] = "begin" => Quiet /\ updates < MaxUpdates
    /\ pc[p] = "drain" => j.state = "DRAINING" /\ ctx = NoFlags
    /\ pc[p] = "act" => /\ j.state = "UPDATING" /\ j.phase \in Forward \cup {"RESTARTING_HANDOFF"}
                        /\ ~ctx.err /\ (~ctx.src => src = j.from) /\ (~ctx.gen => ~snap)
    /\ pc[p] = "undo" => j.state = "UPDATING" /\ j.phase \in Undoing /\ UndoInv
    /\ pc[p] = "handed" => j.state = "UPDATING" /\ j.phase = "RESTARTING_HANDOFF"
    /\ pc[p] = "claimed" => j.state = "UPDATING" /\ j.phase = "BOOTSTRAP_CLAIMED"
    /\ pc[p] = "rollback" => j.state = "RECOVERING"
StageInv == \A p \in Proc : StageOK(p)

(* An open gate has no owner; what it shows of the disk.                    *)
OpenInv ==
    j.state = "OPEN" =>
        /\ j.owner = None
        /\ ~j.degraded => src \in 0..updates /\ AllAt(src)
        /\ j.degraded => /\ j.tx # None /\ j.to = j.from + 1 /\ j.to <= updates
                         /\ AllAt(j.from) /\ src \in {j.from, j.to, Mixed}

(* A closed one moves one version up; an exchanged generation has its step. *)
ClosedInv ==
    j.state # "OPEN" =>
        /\ j.tx # None /\ j.to = j.from + 1 /\ j.to <= updates /\ ~j.degraded
        /\ src \in {j.from, j.to, Mixed}
        /\ \A g \in Changed : \/ gen[g] = j.from
                              \/ gen[g] = j.to /\ g \in receipt.steps
        /\ ~receipt.filed => receipt.steps = {}
        /\ j.unknown => AllAt(j.to) /\ src = j.to
        /\ j.state \in {"RECOVERING", "MANUAL"} => j.owner = None

(* What each phase vouches for, until the recovery starts to undo it.       *)
PhaseInv ==
    /\ j.state = "DRAINING" => j.phase = "PREPARED"
    /\ j.state = "UPDATING" =>
          /\ j.phase \in Forward \cup Handed \cup Undoing
          /\ j.phase \in {"PREPARED", "SOURCE_APPLYING", "SOURCE_APPLIED"} => ~receipt.filed /\ ~snap
          /\ j.phase \in {"SOURCE_APPLIED", "INSTALLING"} => src = j.to
          /\ j.phase = "INSTALLING" /\ receipt.filed => snap
          /\ j.phase \in Staged \cup Handed => Exchanged(j.to) /\ src = j.to /\ snap
    /\ j.state \in {"DRAINING", "UPDATING"} =>
          /\ j.phase = "PREPARED" => src = j.from /\ ~receipt.filed /\ ~snap
          /\ j.phase \in Handed <=> j.unknown
    /\ j.state = "RECOVERING" =>
          /\ ~j.unknown /\ j.phase \in (Forward \ {"PREPARED"}) \cup Undoing
          /\ j.phase \in Staged => snap
          /\ j.phase = "INSTALLING" /\ ~snap => src # Mixed /\ ~receipt.filed
    /\ j.state \in {"UPDATING", "RECOVERING"} /\ j.phase \in Undoing => fault

JournalInv == OpenInv /\ ClosedInv /\ PhaseInv /\ CrashAloneNeverManual

IInv == TypeOK /\ WriterInv /\ LockInv /\ StageInv /\ JournalInv

-----------------------------------------------------------------------------
(* The largest of some generations is one of them.                          *)
LEMMA MaxIn ==
    ASSUME NEW S \in SUBSET Gens, S # {}
    PROVE  Max(S) \in S
<1> DEFINE T == {NumGens - x : x \in S}
           R == OpToRel(<, Nat)
<1>0. NumGens \in Nat /\ \A x \in S : x \in Nat /\ x =< NumGens
  BY DiskAssumption DEF Gens
<1>1. T \subseteq Nat
  BY <1>0
<1>1a. T # {}
  OBVIOUS
<1>r. \A u, t \in Nat : u < t => <<u, t>> \in R
  BY DEF OpToRel
<1>2. PICK t \in T : \A u \in T : ~(<<u, t>> \in R)
  <2> HIDE DEF T, R
  <2>1. IsWellFoundedOn(R, Nat)
    BY NatLessThanWellFounded DEF R
  <2> QED  BY <1>1, <1>1a, <2>1, WFMin
<1>3. \A u \in T : t =< u
  <2> HIDE DEF T, R
  <2>1. TAKE u \in T
  <2>2. u \in Nat /\ t \in Nat
    BY <1>1
  <2>3. ~(u < t)
    BY <1>2, <1>r, <2>2
  <2> QED BY <2>2, <2>3
<1>4. PICK x \in S : t = NumGens - x
  OBVIOUS
<1>5. \A y \in S : x >= y
  <2>1. TAKE y \in S
  <2>2. NumGens - y \in T
    OBVIOUS
  <2>3. t =< NumGens - y
    BY <1>3, <2>2
  <2> QED BY <1>4, <1>0, <2>3
<1>6. QED
  BY <1>5 DEF Max

LEMMA Constants ==
    /\ None \notin Proc /\ Dead \notin Proc /\ None # Dead /\ None \notin 1..MaxUpdates
    /\ MaxUpdates \in Nat /\ MaxRefs \in Nat \ {0} /\ MaxCrashes \in Nat
    /\ \A v \in Version : v \in Nat /\ v # Mixed
    /\ Changed \subseteq Gens /\ Changed # {}
BY GateAssumption, DiskAssumption DEF Version, Mixed, Changed

LEMMA InitIInv == Init => IInv
<1> SUFFICES ASSUME Init PROVE IInv
  OBVIOUS
<1>1. TypeOK
  <2>1. 0 \in Version /\ 0 \in 0..MaxUpdates /\ 0 \in 0..MaxCrashes /\ 0 \in 0..MaxRefs
    BY Constants DEF Version
  <2>2. DiskTypeOK
    BY <2>1 DEF Init, DiskTypeOK, DiskInit, NoReceipt
  <2>3. QED
    BY <2>1, <2>2 DEF Init, TypeOK, JournalType, Idle, NoFlags, Loaded
<1>2. WriterInv /\ LockInv /\ StageInv
  BY Constants DEF Init, Idle, WriterInv, LockInv, LockOK, StageInv, StageOK, Admits, Works, Owners
<1>3. JournalInv
  BY Constants DEF Init, Idle, DiskInit, JournalInv, OpenInv, ClosedInv, PhaseInv, CrashAloneNeverManual, AllAt, Changed
<1>4. QED
  BY <1>1, <1>2, <1>3 DEF IInv

(* Beside the holder of the admission lock, or when nobody holds it, every  *)
(* process is idle and owns nothing.                                        *)
LEMMA Alone ==
    ASSUME IInv, NEW p \in Proc, pc[p] \in Admits \/ AdmissionFree, NEW q \in Proc \ {p}
    PROVE  pc[q] \notin Admits /\ j.owner # q
BY Constants DEF IInv, LockInv, LockOK, AdmissionFree, Admits, Works

LEMMA NobodyWorks ==
    ASSUME IInv, AdmissionFree, NEW q \in Proc
    PROVE  pc[q] \notin Admits /\ j.owner # q
BY Constants DEF IInv, LockInv, LockOK, AdmissionFree, Admits, Works

LEMMA IdleOK ==
    ASSUME NEW q \in Proc, pc[q] \notin Admits, j.owner # q
    PROVE  LockOK(q) /\ StageOK(q)
BY DEF LockOK, StageOK, Admits, Works, Owners

(* A closed gate, and a lock taken exclusively, keep the writers out.       *)
LEMMA WritersKept ==
    ASSUME IInv, WriterUnchanged,
           \/ ActivityFree
           \/ (j.state # "OPEN" \/ j'.state = "OPEN") /\ act' \in {act, None}
    PROVE  WriterInv'
BY DEF IInv, WriterInv, WriterUnchanged, ActivityFree

(* What remains to be shown of a step of the process that holds, or may     *)
(* take, the admission lock.                                                *)
LEMMA HolderStep ==
    ASSUME IInv, NEW p \in Proc, pc[p] \in Admits \/ AdmissionFree,
           WriterUnchanged,
           \/ ActivityFree
           \/ (j.state # "OPEN" \/ j'.state = "OPEN") /\ act' \in {act, None},
           \A q \in Proc \ {p} : pc'[q] = pc[q],
           j'.owner \in {j.owner, None, Dead, p},
           TypeOK', LockOK(p)', StageOK(p)', JournalInv'
    PROVE  IInv'
<1>1. WriterInv'
  BY WritersKept
<1>2. ASSUME NEW q \in Proc \ {p}
      PROVE  LockOK(q)' /\ StageOK(q)'
  <2>1. pc[q] \notin Admits /\ j.owner # q
    BY Alone
  <2>2. (pc[q] \notin Admits)' /\ (j.owner # q)'
    BY <2>1, Constants DEF Admits, Works, Owners
  <2>3. QED
    BY <2>2 DEF LockOK, StageOK, Admits, Works, Owners
<1>3. LockInv' /\ StageInv'
  BY <1>2 DEF LockInv, StageInv
<1>4. QED
  BY <1>1, <1>3 DEF IInv

-----------------------------------------------------------------------------
(* The writers move only their leases.                                      *)
LEMMA JournalKept ==
    ASSUME IInv, UNCHANGED <<diskVars, j, updates, fault>>
    PROVE  JournalInv'
BY DEF IInv, JournalInv, OpenInv, ClosedInv, PhaseInv, CrashAloneNeverManual, AllAt, Exchanged, diskVars

LEMMA PlaceKept ==
    ASSUME IInv, UNCHANGED <<diskVars, j, updates, adm, act, ctx, fault>>, NEW q \in Proc, pc'[q] = pc[q]
    PROVE  LockOK(q)' /\ StageOK(q)'
<1>1. LockOK(q)'
  BY DEF IInv, LockInv, LockOK
<1>2. UndoInv => UndoInv'
  BY DEF UndoInv, AllAt, diskVars
<1>3. StageOK(q)'
  BY <1>2 DEF IInv, StageInv, StageOK, Quiet, diskVars
<1>4. QED
  BY <1>1, <1>3

LEMMA WriterSteps ==
    ASSUME IInv, NEW p \in Proc, Writers(p)
    PROVE  IInv'
<1> USE DEF Writers, Admit, AdmitActivity, AdmitAborted, Retain, ReleaseWriter
<1>1. UNCHANGED <<diskVars, j, desc, adm, act, pc, ctx, fault, updates, seen, crashes>>
  BY DEF LifeUnchanged
<1>2. /\ lease \in [Proc -> {"none", "admission", "activity"}] /\ refs \in [Proc -> 0..MaxRefs]
      /\ MaxRefs \in Nat \ {0}
      /\ \A q \in Proc : /\ refs[q] > 0 <=> lease[q] = "activity"
                         /\ lease[q] = "activity" => j.state = "OPEN" /\ act = None
  BY Constants DEF IInv, TypeOK, WriterInv
<1>3. /\ lease' \in [Proc -> {"none", "admission", "activity"}] /\ refs' \in [Proc -> 0..MaxRefs]
      /\ WriterInv'
  <2>1. CASE Admit(p) \/ AdmitAborted(p)
    BY <1>1, <1>2, <2>1 DEF WriterInv
  <2>2. CASE AdmitActivity(p)
    BY <1>1, <1>2, <2>2 DEF WriterInv
  <2>3. CASE Retain(p)
    BY <1>1, <1>2, <2>3 DEF WriterInv
  <2>4. CASE ReleaseWriter(p)
    BY <1>1, <1>2, <2>4 DEF WriterInv, LeaseAfter
  <2>5. QED
    BY <2>1, <2>2, <2>3, <2>4
<1> USE DEF IInv
<1>4. TypeOK'
  BY <1>1, <1>3 DEF TypeOK, DiskTypeOK, diskVars
<1>5. LockInv' /\ StageInv'
  BY <1>1, PlaceKept DEF LockInv, StageInv
<1>6. QED
  BY <1>1, <1>3, <1>4, <1>5, JournalKept

-----------------------------------------------------------------------------
(* Steps that move a process, and perhaps the locks, and nothing else.      *)
Points == Loaded \cup {"down", "claim", "claimed", "recover", "poll", "hold", "rollback"}

LEMMA PlaceStep ==
    ASSUME IInv, NEW p \in Proc, NEW x \in Points, Goes(p, x),
           UNCHANGED <<diskVars, j, desc, updates, ctx, fault, crashes>>, WriterUnchanged,
           seen' \in [Proc -> 1..MaxUpdates \cup {None}],
           adm' \in {adm, p, None}, act' \in {act, p, None},
           pc[p] \in Admits \/ AdmissionFree \/ KeepLocks,
           act' \in {act, None} \/ ActivityFree,
           x \in Admits => adm' = p /\ x # "rollback", x \in Works => act' = p,
           x \in Owners <=> pc[p] \in Owners, x \in Owners => x = pc[p],
           x = "begin" => Quiet /\ updates < MaxUpdates
    PROVE  IInv'
<1>1. pc \in [Proc -> Points]
  BY DEF IInv, TypeOK, Points
<1>2. pc' \in [Proc -> Points] /\ pc'[p] = x /\ \A q \in Proc \ {p} : pc'[q] = pc[q]
  BY <1>1 DEF Goes
<1>3. TypeOK'
  BY <1>2 DEF IInv, TypeOK, DiskTypeOK, diskVars, WriterUnchanged, Points
<1>4. JournalInv'
  BY JournalKept
<1>5. LockOK(p)' /\ StageOK(p)'
  <2>1. LockOK(p)'
    BY <1>2 DEF IInv, LockInv, LockOK
  <2>2. UndoInv => UndoInv'
    BY DEF UndoInv, AllAt, diskVars
  <2>3. CASE x \in Owners
    <3>1. pc'[p] = pc[p] /\ StageOK(p)
      BY <1>2, <2>3 DEF IInv, StageInv
    <3>2. QED
      BY <2>1, <2>2, <3>1 DEF StageOK, diskVars, Quiet
  <2>4. CASE x \notin Owners
    <3>1. pc'[p] \notin Owners \cup {"rollback"} /\ (pc'[p] = "begin" => Quiet' /\ updates' < MaxUpdates)
      BY <1>2, <2>4 DEF Quiet, Admits, Works
    <3>2. QED
      BY <2>1, <3>1 DEF StageOK, Owners
  <2>5. QED
    BY <2>1, <2>3, <2>4
<1>6. CASE pc[p] \in Admits \/ AdmissionFree
  BY <1>2, <1>3, <1>4, <1>5, <1>6, HolderStep
<1>7. CASE KeepLocks
  <2>1. ASSUME NEW q \in Proc \ {p} PROVE LockOK(q)' /\ StageOK(q)'
    BY <1>2, <1>7, PlaceKept DEF KeepLocks
  <2>2. LockInv' /\ StageInv'
    BY <1>5, <2>1 DEF LockInv, StageInv
  <2>3. WriterInv'
    BY <1>7, WritersKept DEF KeepLocks
  <2>4. QED
    BY <1>3, <1>4, <2>2, <2>3 DEF IInv
<1>8. QED
  BY <1>6, <1>7

LEMMA AttachSteps ==
    ASSUME IInv, NEW p \in Proc,
           Attaches(p) \/ Begin(p) \/ BeginContended(p) \/ Start(p) \/ RecoverContended(p) \/ Poll(p)
    PROVE  IInv'
<1> USE DEF Attaches, LifeUnchanged, KeepLocks, Points, Admits, Works, Owners, Loaded
<1>0. seen \in [Proc -> 1..MaxUpdates \cup {None}] /\ desc \in 1..MaxUpdates \cup {None}
  BY DEF IInv, TypeOK
<1>1. CASE Attach(p)
  BY <1>0, <1>1, PlaceStep DEF Attach
<1>2. CASE AttachActivity(p)
  <2>1. CASE ActivityFree
    BY <1>0, <1>2, <2>1, PlaceStep DEF AttachActivity, IInv, LockInv, LockOK
  <2>2. CASE ~ActivityFree
    BY <1>0, <1>2, <2>2, PlaceStep DEF AttachActivity
  <2>3. QED
    BY <2>1, <2>2
<1>3. CASE Detach(p)
  BY <1>0, <1>3, PlaceStep DEF Detach, Releases
<1>4. CASE Begin(p)
  BY <1>0, <1>4, PlaceStep DEF Begin
<1>5. CASE BeginContended(p)
  BY <1>0, <1>5, PlaceStep DEF BeginContended
<1>6. CASE Start(p)
  <2>1. seen' \in [Proc -> 1..MaxUpdates \cup {None}]
    BY <1>0, <1>6 DEF Start
  <2>2. PICK x \in {"up", "claim", "recover"} : Goes(p, x)
    BY <1>6 DEF Start
  <2>3. QED
    BY <1>6, <2>1, <2>2, PlaceStep DEF Start
<1>7. CASE RecoverContended(p)
  BY <1>0, <1>7, PlaceStep DEF RecoverContended, RecoverEnters
<1>8. CASE Poll(p)
  <2>1. PICK x \in {"up", "poll"} : Goes(p, x)
    BY <1>8 DEF Poll
  <2>2. QED
    BY <1>0, <1>8, <2>1, PlaceStep DEF Poll
<1>9. QED
  BY <1>1, <1>2, <1>3, <1>4, <1>5, <1>6, <1>7, <1>8

-----------------------------------------------------------------------------
(* The rows the journal is rewritten to.                                    *)
LEMMA Rows ==
    ASSUME NEW r \in JournalType
    PROVE  /\ Manual(r) \in JournalType /\ Manual(r).state = "MANUAL" /\ Manual(r).owner = None
           /\ \A f \in {"phase", "tx", "from", "to", "unknown", "degraded"} : Manual(r)[f] = r[f]
           /\ Reset(r) \in JournalType /\ Reset(r).state = "OPEN" /\ Reset(r).owner = None
           /\ Reset(r).degraded = r.degraded
           /\ Reopened(r) \in JournalType /\ Reopened(r).state = "OPEN" /\ Reopened(r).owner = None
           /\ Reopened(r).degraded <=> src = r.to
           /\ src = r.to => Reopened(r).tx = r.tx /\ Reopened(r).from = r.from /\ Reopened(r).to = r.to
<1>1. /\ Manual(r) \in JournalType /\ Manual(r).state = "MANUAL" /\ Manual(r).owner = None
      /\ \A f \in {"phase", "tx", "from", "to", "unknown", "degraded"} : Manual(r)[f] = r[f]
  BY DEF Manual, JournalType
<1>2. 0 \in Version
  BY Constants DEF Version
<1>3. /\ Reset(r) \in JournalType /\ Reset(r).state = "OPEN" /\ Reset(r).owner = None
      /\ Reset(r).degraded = r.degraded
  BY <1>2 DEF Reset, Idle, JournalType
<1>4. CASE src = r.to
  BY <1>1, <1>3, <1>4 DEF Reopened, JournalType
<1>5. CASE src # r.to
  <2>1. Reopened(r) = [Reset(r) EXCEPT !.degraded = FALSE]
    BY <1>5 DEF Reopened
  <2>2. [Reset(r) EXCEPT !.degraded = FALSE] \in JournalType
    BY <1>3 DEF JournalType
  <2>3. Reopened(r).state = "OPEN" /\ Reopened(r).owner = None /\ ~Reopened(r).degraded
    BY <1>3, <2>1 DEF JournalType
  <2>4. QED
    BY <1>1, <1>3, <1>5, <2>1, <2>2, <2>3
<1>6. QED
  BY <1>4, <1>5

LEMMA Typed ==
    ASSUME IInv
    PROVE  /\ j \in JournalType /\ DiskTypeOK /\ updates \in 0..MaxUpdates
           /\ pc \in [Proc -> Points] /\ ctx \in [src : BOOLEAN, gen : BOOLEAN, err : BOOLEAN]
           /\ desc \in 1..MaxUpdates \cup {None} /\ fault \in BOOLEAN
           /\ adm \in Proc \cup {None} /\ act \in Proc \cup {None}
BY DEF IInv, TypeOK, Points

(* What remains to be shown of a step on the journal or on the disk.        *)
LEMMA GateStep ==
    ASSUME IInv, NEW p \in Proc, NEW x \in Points, Goes(p, x) \/ (UNCHANGED pc /\ x = pc[p]),
           pc[p] \in Admits \/ AdmissionFree,
           UNCHANGED <<seen, crashes>>, WriterUnchanged,
           DiskTypeOK', j' \in JournalType, updates' \in 0..MaxUpdates,
           desc' \in 1..MaxUpdates \cup {None}, fault' \in BOOLEAN,
           ctx' \in [src : BOOLEAN, gen : BOOLEAN, err : BOOLEAN],
           KeepLocks \/ (adm' = p /\ act' = p) \/ Releases(p),
           ActivityFree \/ ((j.state # "OPEN" \/ j'.state = "OPEN") /\ act' \in {act, None}),
           j'.owner \in {j.owner, None, Dead, p},
           x \in Admits => adm' = p, x \in Works => act' = p, x \in Owners <=> j'.owner = p,
           pc'[p] = x => StageOK(p)', JournalInv'
    PROVE  IInv'
<1>1. pc' \in [Proc -> Points] /\ pc'[p] = x /\ \A q \in Proc \ {p} : pc'[q] = pc[q]
  BY Typed DEF Goes
<1>2. TypeOK'
  BY <1>1, Typed DEF IInv, TypeOK, WriterUnchanged, KeepLocks, Releases, Points
<1>3. LockOK(p)'
  BY <1>1 DEF LockOK
<1>4. QED
  BY <1>1, <1>2, <1>3, HolderStep

(* A journal that opens, one that stays closed, one that goes to a person.  *)
LEMMA ToOpen ==
    ASSUME j'.state = "OPEN", j'.owner = None, ~j'.degraded, src' \in 0..updates', AllAt(src)'
    PROVE  JournalInv'
BY DEF JournalInv, OpenInv, ClosedInv, PhaseInv, CrashAloneNeverManual

LEMMA ToClosed ==
    ASSUME j'.state \in {"DRAINING", "UPDATING", "RECOVERING"}, ClosedInv', PhaseInv'
    PROVE  JournalInv'
BY DEF JournalInv, OpenInv, CrashAloneNeverManual

LEMMA ToManual ==
    ASSUME IInv, j.state # "OPEN", j' = Manual(j), UNCHANGED <<diskVars, updates>>,
           fault' \/ j.unknown \/ (Identical # {} /\ j.phase = "INSTALLING" /\ ~snap)
    PROVE  JournalInv'
<1>1. /\ j'.state = "MANUAL" /\ j'.owner = None
      /\ j'.phase = j.phase /\ j'.tx = j.tx /\ j'.from = j.from /\ j'.to = j.to
      /\ j'.unknown = j.unknown /\ j'.degraded = j.degraded
  BY Rows, Typed
<1>2. ClosedInv'
  BY <1>1 DEF IInv, JournalInv, ClosedInv, AllAt, diskVars
<1>3. QED
  BY <1>1, <1>2 DEF JournalInv, OpenInv, PhaseInv, CrashAloneNeverManual, diskVars

(* The declared exit of a closed gate, and of a degraded one.               *)
LEMMA ToExit ==
    ASSUME IInv, ~Quiet, Eligible, j' = Reopened(j), UNCHANGED <<diskVars, updates>>
    PROVE  JournalInv' /\ j'.state = "OPEN" /\ (j.state # "OPEN" => ~j.unknown)
<1>1. /\ j'.state = "OPEN" /\ j'.owner = None /\ (j'.degraded <=> src = j.to)
      /\ src = j.to => j'.tx = j.tx /\ j'.from = j.from /\ j'.to = j.to
  BY Rows, Typed
<1>2. j.tx # None /\ AllAt(j.from) /\ src # Mixed
  BY DEF Eligible, GensProven
<1>3. j.to = j.from + 1 /\ j.to <= updates /\ src \in {j.from, j.to, Mixed}
  BY DEF IInv, JournalInv, OpenInv, ClosedInv, Quiet
<1>4. j.from \in Nat /\ updates \in Nat /\ j.from # j.to
  BY <1>3, Typed, Constants DEF JournalType
<1>5. JournalInv'
  BY <1>1, <1>2, <1>3, <1>4 DEF JournalInv, OpenInv, ClosedInv, PhaseInv, CrashAloneNeverManual, AllAt, diskVars
<1>6. j.state # "OPEN" => ~j.unknown
  BY <1>2, <1>4, Constants DEF IInv, JournalInv, ClosedInv, AllAt
<1>7. QED
  BY <1>1, <1>5, <1>6

-----------------------------------------------------------------------------
(* An update closes the gate on the version it found whole.                 *)
LEMMA BeginCloseStep ==
    ASSUME IInv, NEW p \in Proc, BeginClose(p)
    PROVE  IInv'
<1>1. /\ pc[p] = "begin" /\ ActivityFree /\ act' = p /\ updates' = updates + 1
      /\ receipt' = NoReceipt /\ snap' = FALSE /\ ctx' = NoFlags /\ Goes(p, "drain")
      /\ UNCHANGED <<src, gen, desc, adm, seen, crashes, fault>> /\ WriterUnchanged
      /\ j' = [state |-> "DRAINING", phase |-> "PREPARED", tx |-> updates + 1, owner |-> p,
               from |-> src, to |-> src + 1, unknown |-> FALSE, degraded |-> FALSE]
  BY DEF BeginClose, MayClose
<1>2. Quiet /\ updates < MaxUpdates /\ adm = p
  BY <1>1 DEF IInv, StageInv, StageOK, LockInv, LockOK, Admits
<1>3. src \in 0..updates /\ AllAt(src) /\ updates \in Nat /\ MaxUpdates \in Nat
  BY <1>2, Typed, Constants DEF IInv, JournalInv, OpenInv, Quiet
<1>4. src \in Version /\ src + 1 \in Version /\ updates + 1 \in 1..MaxUpdates /\ updates + 1 \in 0..MaxUpdates
  BY <1>2, <1>3 DEF Version
<1>5. j' \in JournalType
  BY <1>1, <1>4 DEF JournalType
<1>6. DiskTypeOK'
  BY <1>1, Typed DEF DiskTypeOK, NoReceipt
<1>7. JournalInv'
  <2>1. /\ j'.state = "DRAINING" /\ j'.phase = "PREPARED" /\ j'.tx = updates + 1 /\ j'.owner = p
        /\ j'.from = src /\ j'.to = src + 1 /\ ~j'.unknown /\ ~j'.degraded
    BY <1>1
  <2>2. ClosedInv'
    BY <1>1, <1>3, <1>4, <2>1, Constants DEF ClosedInv, AllAt, NoReceipt
  <2>3. PhaseInv'
    BY <1>1, <2>1 DEF PhaseInv, NoReceipt, Handed, Undoing, Forward, Staged
  <2>4. QED
    BY <2>1, <2>2, <2>3, ToClosed
<1>8. pc'[p] = "drain" => StageOK(p)'
  BY <1>1 DEF StageOK
<1>9. j'.owner = p
  BY <1>1
<1>10. QED
  <2>1. /\ ctx' \in [src : BOOLEAN, gen : BOOLEAN, err : BOOLEAN] /\ fault' \in BOOLEAN
        /\ updates' \in 0..MaxUpdates /\ desc' \in 1..MaxUpdates \cup {None}
    BY <1>1, <1>4, Typed DEF NoFlags
  <2>2. "drain" \in Points /\ "drain" \in Owners /\ pc[p] \in Admits
    BY <1>1 DEF Points, Loaded, Owners, Admits
  <2>3. adm' = p /\ UNCHANGED <<seen, crashes>>
    BY <1>1, <1>2
  <2>4. QED
    BY <1>1, <1>5, <1>6, <1>7, <1>8, <1>9, <2>1, <2>2, <2>3, GateStep

(* Who works holds both locks, and the writers are out.                     *)
LEMMA AtWork ==
    ASSUME IInv, NEW p \in Proc, pc[p] \in Works
    PROVE  adm = p /\ act = p /\ (j.owner = p <=> pc[p] \in Owners) /\ StageOK(p) /\ pc[p] \in Admits
BY DEF IInv, LockInv, LockOK, StageInv, Admits

(* A step of the updating process that keeps both locks and its ownership.  *)
LEMMA WorkStep ==
    ASSUME IInv, NEW p \in Proc, NEW x \in Points, Goes(p, x) \/ (UNCHANGED pc /\ x = pc[p]),
           pc[p] \in Works, x \in Works, x \in Owners <=> pc[p] \in Owners, j'.owner = j.owner, j.state # "OPEN",
           LifeUnchanged, WriterUnchanged, KeepLocks,
           DiskTypeOK', j' \in JournalType, desc' \in 1..MaxUpdates \cup {None}, fault' \in BOOLEAN,
           ctx' \in [src : BOOLEAN, gen : BOOLEAN, err : BOOLEAN],
           pc'[p] = x => StageOK(p)', JournalInv'
    PROVE  IInv'
<1>1. adm' = p /\ act' = p /\ act' = act /\ (x \in Owners <=> j'.owner = p) /\ pc[p] \in Admits
  BY AtWork DEF KeepLocks
<1>2. updates' \in 0..MaxUpdates
  BY Typed DEF LifeUnchanged
<1>3. QED
  BY <1>1, <1>2, GateStep DEF LifeUnchanged

(* A step that gives both locks back.                                       *)
LEMMA EndStep ==
    ASSUME IInv, NEW p \in Proc, NEW x \in Points \ Admits, Goes(p, x), pc[p] \in Works, j'.owner \in {None, Dead},
           j.state # "OPEN", LifeUnchanged, WriterUnchanged, Releases(p),
           UNCHANGED <<diskVars, desc, ctx>>, j' \in JournalType, fault' \in BOOLEAN,
           JournalInv'
    PROVE  IInv'
<1>1. pc[p] \in Admits
  BY AtWork
<1>2. updates' \in 0..MaxUpdates /\ DiskTypeOK' /\ desc' \in 1..MaxUpdates \cup {None}
      /\ ctx' \in [src : BOOLEAN, gen : BOOLEAN, err : BOOLEAN]
  BY Typed DEF LifeUnchanged, DiskTypeOK, diskVars
<1>3. x \notin Works /\ x \notin Owners /\ j'.owner # p
  BY Constants DEF Admits, Works
<1>4. pc'[p] = x => StageOK(p)'
  BY DEF StageOK, Admits, Works, Owners
<1>5. QED
  BY <1>1, <1>2, <1>3, <1>4, GateStep DEF LifeUnchanged, Releases

LEMMA BeginUpdatingStep ==
    ASSUME IInv, NEW p \in Proc, BeginUpdating(p)
    PROVE  IInv'
<1>1. /\ pc[p] = "drain" /\ UNCHANGED <<diskVars, desc, ctx>> /\ LifeUnchanged /\ WriterUnchanged
  BY DEF BeginUpdating
<1>2. pc[p] \in Works /\ pc[p] \in Owners
  BY <1>1 DEF Works, Owners
<1>3. j.state = "DRAINING" /\ j.owner = p /\ j \in JournalType
  BY <1>1, <1>2, AtWork, Typed DEF StageOK
<1>4. CASE j' = [j EXCEPT !.state = "UPDATING"] /\ Goes(p, "act") /\ KeepLocks /\ UNCHANGED fault
  <2>1. /\ j' \in JournalType /\ j'.state = "UPDATING" /\ j'.phase = j.phase /\ j'.tx = j.tx /\ j'.owner = j.owner
        /\ j'.from = j.from /\ j'.to = j.to /\ j'.unknown = j.unknown /\ j'.degraded = j.degraded
    BY <1>3, <1>4 DEF JournalType
  <2>2. ClosedInv'
    BY <1>1, <1>3, <2>1 DEF IInv, JournalInv, ClosedInv, AllAt, diskVars, LifeUnchanged
  <2>3. PhaseInv'
    BY <1>1, <1>3, <2>1 DEF IInv, JournalInv, PhaseInv, diskVars, Handed, Undoing, Forward, Staged
  <2>4. pc'[p] = "act" => StageOK(p)'
    <3>1. ctx = NoFlags /\ src = j.from /\ ~snap /\ j.phase = "PREPARED"
      BY <1>1, <1>2, <1>3, AtWork DEF StageOK, IInv, JournalInv, PhaseInv
    <3>2. QED
      BY <1>1, <2>1, <3>1 DEF StageOK, NoFlags, Forward, diskVars
  <2>5. JournalInv'
    BY <2>1, <2>2, <2>3, ToClosed
  <2>6. "act" \in Points /\ "act" \in Works /\ "act" \in Owners
    BY DEF Points, Loaded, Works, Owners
  <2>7. DiskTypeOK' /\ desc' \in 1..MaxUpdates \cup {None} /\ fault' \in BOOLEAN
        /\ ctx' \in [src : BOOLEAN, gen : BOOLEAN, err : BOOLEAN]
    BY <1>1, <1>4, Typed DEF DiskTypeOK, diskVars
  <2>8. QED
    BY <1>1, <1>2, <1>3, <1>4, <2>1, <2>4, <2>5, <2>6, <2>7, WorkStep
<1>5. CASE j' = Reset(j) /\ Goes(p, "up") /\ Releases(p) /\ fault' = TRUE
  <2>1. /\ j' \in JournalType /\ j'.state = "OPEN" /\ j'.owner = None /\ j'.degraded = j.degraded
    BY <1>3, <1>5, Rows
  <2>2. /\ ~j.degraded /\ src = j.from /\ AllAt(j.from) /\ j.to = j.from + 1 /\ j.to <= updates
    BY <1>3 DEF IInv, JournalInv, ClosedInv, PhaseInv, AllAt
  <2>3. src \in 0..updates
    BY <2>2, Typed, Constants DEF JournalType
  <2>4. JournalInv'
    BY <1>1, <2>1, <2>2, <2>3, ToOpen DEF AllAt, diskVars, LifeUnchanged
  <2>5. "up" \in Points \ Admits
    BY DEF Points, Loaded, Admits, Works, Owners
  <2>6. QED
    BY <1>1, <1>2, <1>3, <1>5, <2>1, <2>4, <2>5, EndStep
<1>6. QED
  BY <1>4, <1>5 DEF BeginUpdating

-----------------------------------------------------------------------------
(* The activation: each phase is journalled when what it vouches for holds. *)
LEMMA NextPhase ==
    ASSUME j.phase \in Forward \cup {"RESTARTING_HANDOFF"}, Phases(j.phase) # None
    PROVE  \/ j.phase = "PREPARED" /\ Phases(j.phase) = "SOURCE_APPLYING"
           \/ j.phase = "SOURCE_APPLYING" /\ Phases(j.phase) = "SOURCE_APPLIED"
           \/ j.phase = "SOURCE_APPLIED" /\ Phases(j.phase) = "INSTALLING"
           \/ j.phase = "INSTALLING" /\ Phases(j.phase) = "VERIFIED"
           \/ j.phase = "VERIFIED" /\ Phases(j.phase) = "ACTIVATION_QUEUED"
           \/ j.phase = "ACTIVATION_QUEUED" /\ Phases(j.phase) = "RESTARTING_HANDOFF"
BY DEF Phases, Forward, Staged

LEMMA AtAct ==
    ASSUME IInv, NEW p \in Proc, pc[p] = "act"
    PROVE  /\ j.state = "UPDATING" /\ j.phase \in Forward \cup {"RESTARTING_HANDOFF"} /\ j.owner = p
           /\ ~ctx.err /\ (~ctx.src => src = j.from) /\ (~ctx.gen => ~snap)
           /\ pc[p] \in Works /\ pc[p] \in Owners /\ pc[p] \in Points
           /\ ClosedInv /\ PhaseInv /\ j \in JournalType /\ DiskTypeOK
<1>1. pc[p] \in Works /\ pc[p] \in Owners /\ pc[p] \in Points
  BY DEF Works, Owners, Points, Loaded
<1>2. StageOK(p) /\ j.owner = p
  BY <1>1, AtWork
<1>3. QED
  BY <1>1, <1>2, Typed DEF StageOK, IInv, JournalInv

LEMMA ActPhaseStep ==
    ASSUME IInv, NEW p \in Proc, ActPhase(p)
    PROVE  IInv'
<1>1. /\ pc[p] = "act" /\ PhaseDone /\ Phases(j.phase) # None
      /\ UNCHANGED <<diskVars, desc, pc, ctx, fault>> /\ LifeUnchanged /\ WriterUnchanged /\ KeepLocks
      /\ j' = [j EXCEPT !.phase = Phases(j.phase), !.unknown = (Phases(j.phase) = "RESTARTING_HANDOFF")]
  BY DEF ActPhase
<1> DEFINE x == Phases(j.phase)
<1>2. \/ j.phase = "PREPARED" /\ x = "SOURCE_APPLYING"
      \/ j.phase = "SOURCE_APPLYING" /\ x = "SOURCE_APPLIED"
      \/ j.phase = "SOURCE_APPLIED" /\ x = "INSTALLING"
      \/ j.phase = "INSTALLING" /\ x = "VERIFIED"
      \/ j.phase = "VERIFIED" /\ x = "ACTIVATION_QUEUED"
      \/ j.phase = "ACTIVATION_QUEUED" /\ x = "RESTARTING_HANDOFF"
  BY <1>1, AtAct, NextPhase
<1> HIDE DEF x
<1>3. /\ j' \in JournalType /\ j'.state = j.state /\ j'.phase = x /\ j'.tx = j.tx /\ j'.owner = j.owner
      /\ j'.from = j.from /\ j'.to = j.to /\ (j'.unknown <=> x = "RESTARTING_HANDOFF") /\ j'.degraded = j.degraded
  <2>1. x \in {"SOURCE_APPLYING", "SOURCE_APPLIED", "INSTALLING", "VERIFIED", "ACTIVATION_QUEUED", "RESTARTING_HANDOFF"}
    BY <1>2
  <2>2. j' = [j EXCEPT !.phase = x, !.unknown = (x = "RESTARTING_HANDOFF")] /\ j \in JournalType
    BY <1>1, AtAct DEF x
  <2>3. QED
    BY <2>1, <2>2 DEF JournalType
<1>4. (x = "SOURCE_APPLIED" => src = j.to) /\ (x = "VERIFIED" => Exchanged(j.to))
  BY <1>1, <1>2 DEF PhaseDone
<1>5. PhaseInv'
  <2>1. x = "VERIFIED" => snap
    BY <1>1, <1>2, <1>4, AtAct, Constants DEF PhaseInv, ClosedInv, Exchanged
  <2>2. /\ x \in {"SOURCE_APPLYING", "SOURCE_APPLIED"} => ~receipt.filed /\ ~snap
        /\ x \in {"SOURCE_APPLIED", "INSTALLING"} => src = j.to
        /\ x = "INSTALLING" => ~receipt.filed
        /\ x \in Staged \cup Handed => Exchanged(j.to) /\ src = j.to /\ snap
    BY <1>1, <1>2, <1>4, <2>1, AtAct DEF PhaseInv, Staged, Handed
  <2>3. x \in Forward \cup {"RESTARTING_HANDOFF"} /\ x # "PREPARED"
    BY <1>2 DEF Forward, Staged
  <2>4. j.state = "UPDATING"
    BY <1>1, AtAct
  <2>5. Exchanged(j.to) => Exchanged(j.to)'
    BY <1>1, <1>3 DEF Exchanged, AllAt, diskVars
  <2>6. QED
    BY <1>1, <1>2, <1>3, <2>2, <2>3, <2>4, <2>5 DEF PhaseInv, diskVars, Undoing, Handed, Forward, Staged
<1>6. ClosedInv'
  <2>1. x = "RESTARTING_HANDOFF" => AllAt(j.to) /\ src = j.to
    BY <1>1, <1>2, AtAct DEF PhaseInv, Exchanged, Staged
  <2>2. QED
    BY <1>1, <1>3, <2>1, AtAct DEF ClosedInv, AllAt, diskVars, LifeUnchanged
<1>7. StageOK(p)'
  <2>1. x \in Forward \cup {"RESTARTING_HANDOFF"}
    BY <1>2 DEF Forward, Staged
  <2>2. QED
    BY <1>1, <1>3, <2>1, AtAct DEF StageOK, diskVars
<1>8. QED
  <2>1. JournalInv'
    BY <1>1, <1>3, <1>5, <1>6, AtAct, ToClosed
  <2>2. DiskTypeOK' /\ desc' \in 1..MaxUpdates \cup {None} /\ fault' \in BOOLEAN
        /\ ctx' \in [src : BOOLEAN, gen : BOOLEAN, err : BOOLEAN]
    BY <1>1, Typed DEF DiskTypeOK, diskVars
  <2>3. QED
    BY <1>1, <1>3, <1>7, <2>1, <2>2, AtAct, WorkStep

(* A step on the disk that leaves the journal and the process in place.     *)
LEMMA DiskStep ==
    ASSUME IInv, NEW p \in Proc, pc[p] \in Works, j.state \in {"UPDATING", "RECOVERING"},
           UNCHANGED <<j, desc, pc, fault>>, LifeUnchanged, WriterUnchanged, KeepLocks,
           ctx' \in [src : BOOLEAN, gen : BOOLEAN, err : BOOLEAN],
           DiskTypeOK', StageOK(p)', ClosedInv', PhaseInv'
    PROVE  IInv'
<1>1. pc[p] \in Points /\ j' \in JournalType /\ desc' \in 1..MaxUpdates \cup {None} /\ fault' \in BOOLEAN
  BY Typed
<1>2. JournalInv'
  BY ToClosed
<1>3. QED
  BY <1>1, <1>2, WorkStep

(* Writing the source tree towards one of the two versions.                 *)
LEMMA SourceMoves ==
    ASSUME IInv, NEW v \in {j.from, j.to}, WriteSource(v)
    PROVE  DiskTypeOK' /\ src' \in {v, Mixed} /\ UNCHANGED <<gen, receipt, snap>>
<1>1. v \in Version
  BY Typed DEF JournalType
<1>2. QED
  BY <1>1, Typed DEF WriteSource, DiskTypeOK

LEMMA ActSourceStep ==
    ASSUME IInv, NEW p \in Proc, ActSource(p)
    PROVE  IInv'
<1>1. /\ pc[p] = "act" /\ j.phase = "SOURCE_APPLYING" /\ WriteSource(j.to)
      /\ ctx' = [ctx EXCEPT !.src = TRUE]
      /\ UNCHANGED <<j, desc, pc, fault>> /\ LifeUnchanged /\ WriterUnchanged /\ KeepLocks
  BY DEF ActSource, MayWriteSource
<1>2. DiskTypeOK' /\ src' \in {j.to, Mixed} /\ UNCHANGED <<gen, receipt, snap>>
  BY <1>1, SourceMoves
<1>3. /\ ctx' \in [src : BOOLEAN, gen : BOOLEAN, err : BOOLEAN]
      /\ ctx'.src /\ ctx'.gen = ctx.gen /\ ctx'.err = ctx.err
  BY <1>1, Typed
<1>4. ClosedInv'
  <2>1. ~j.unknown
    BY <1>1, AtAct DEF PhaseInv, Handed
  <2>2. QED
    BY <1>1, <1>2, <2>1, AtAct DEF ClosedInv, LifeUnchanged
<1>5. PhaseInv'
  BY <1>1, <1>2, AtAct DEF PhaseInv, Staged, Handed, Undoing
<1>6. StageOK(p)'
  BY <1>1, <1>2, <1>3, AtAct DEF StageOK
<1>7. QED
  BY <1>1, <1>2, <1>3, <1>4, <1>5, <1>6, AtAct, DiskStep

LEMMA ActSnapshotStep ==
    ASSUME IInv, NEW p \in Proc, ActSnapshot(p)
    PROVE  IInv'
<1>1. /\ pc[p] = "act" /\ j.phase = "INSTALLING" /\ snap' = TRUE
      /\ ctx' = [ctx EXCEPT !.gen = TRUE]
      /\ UNCHANGED <<src, gen, receipt, j, desc, pc, fault>> /\ LifeUnchanged /\ WriterUnchanged /\ KeepLocks
  BY DEF ActSnapshot
<1>2. DiskTypeOK'
  BY <1>1, Typed DEF DiskTypeOK
<1>3. /\ ctx' \in [src : BOOLEAN, gen : BOOLEAN, err : BOOLEAN]
      /\ ctx'.gen /\ ctx'.src = ctx.src /\ ctx'.err = ctx.err
  BY <1>1, Typed
<1>4. ClosedInv' /\ PhaseInv'
  BY <1>1, AtAct DEF ClosedInv, PhaseInv, AllAt, LifeUnchanged, Staged, Handed, Undoing
<1>5. StageOK(p)'
  BY <1>1, <1>3, AtAct DEF StageOK
<1>6. QED
  BY <1>1, <1>2, <1>3, <1>4, <1>5, AtAct, DiskStep

(* The receipt is filed, or gains one step, while the generations stay.     *)
LEMMA ReceiptStep ==
    ASSUME IInv, NEW p \in Proc, pc[p] = "act", j.phase = "INSTALLING", snap,
           NEW S \in SUBSET Gens, receipt.steps \subseteq S, receipt' = Recorded(S),
           UNCHANGED <<src, gen, snap, j, desc, pc, ctx, fault>>, LifeUnchanged, WriterUnchanged, KeepLocks
    PROVE  IInv'
<1>1. receipt'.filed /\ receipt'.steps = S /\ DiskTypeOK'
  BY Typed DEF DiskTypeOK, Recorded
<1>2. ClosedInv' /\ PhaseInv'
  BY <1>1, AtAct DEF ClosedInv, PhaseInv, AllAt, LifeUnchanged, Staged, Handed, Undoing
<1>3. StageOK(p)'
  BY AtAct DEF StageOK
<1>4. QED
  BY <1>1, <1>2, <1>3, AtAct, Typed, DiskStep

LEMMA ActReceiptStep ==
    ASSUME IInv, NEW p \in Proc, ActReceipt(p)
    PROVE  IInv'
<1>1. receipt.steps = {}
  BY AtAct DEF ActReceipt, ClosedInv
<1>2. QED
  BY <1>1, ReceiptStep DEF ActReceipt

LEMMA ActExchangeStep ==
    ASSUME IInv, NEW p \in Proc, ActExchange(p)
    PROVE  IInv'
<1>1. /\ pc[p] = "act" /\ j.phase = "INSTALLING" /\ receipt.filed
      /\ UNCHANGED <<j, desc, pc, ctx, fault>> /\ LifeUnchanged /\ WriterUnchanged /\ KeepLocks
  BY DEF ActExchange
<1>2. snap /\ j.state = "UPDATING" /\ src = j.to
  BY <1>1, AtAct DEF PhaseInv
<1>3. CASE RecordIntent(j.to)
  <2>1. PICK g \in Gens : receipt' = Recorded(receipt.steps \cup {g}) /\ UNCHANGED <<src, gen, snap>>
    BY <1>3 DEF RecordIntent, NextForward
  <2>2. receipt.steps \cup {g} \in SUBSET Gens
    BY Typed DEF DiskTypeOK
  <2>3. QED
    BY <1>1, <1>2, <2>1, <2>2, ReceiptStep
<1>4. CASE Exchange(j.to)
  <2>1. PICK g \in Gens : /\ g \in receipt.steps /\ gen' = [gen EXCEPT ![g] = j.to]
                          /\ UNCHANGED <<src, receipt, snap>>
    BY <1>4 DEF Exchange, NextForward
  <2>2. gen \in [Gens -> Version] /\ j.to \in Version
    BY Typed DEF DiskTypeOK, JournalType
  <2>3. gen' \in [Gens -> Version] /\ gen'[g] = j.to /\ \A h \in Gens \ {g} : gen'[h] = gen[h]
    BY <2>1, <2>2
  <2>4. DiskTypeOK'
    BY <2>1, <2>3, Typed DEF DiskTypeOK
  <2>5. ~j.unknown
    BY <1>1, AtAct DEF PhaseInv, Handed
  <2>6. ClosedInv'
    BY <1>1, <2>1, <2>3, <2>5, AtAct, Constants DEF ClosedInv, LifeUnchanged
  <2>7. PhaseInv'
    BY <1>1, <1>2, <2>1, AtAct DEF PhaseInv, Staged, Handed, Undoing
  <2>8. StageOK(p)'
    BY <1>1, <2>1, AtAct DEF StageOK
  <2>9. QED
    BY <1>1, <2>1, <2>4, <2>6, <2>7, <2>8, AtAct, Typed, DiskStep
<1>5. QED
  BY <1>3, <1>4 DEF ActExchange

LEMMA ActDescriptorStep ==
    ASSUME IInv, NEW p \in Proc, ActDescriptor(p)
    PROVE  IInv'
<1>1. /\ pc[p] = "act" /\ j.phase = "RESTARTING_HANDOFF" /\ desc' = j.tx /\ Goes(p, "handed")
      /\ UNCHANGED <<diskVars, j, ctx, fault>> /\ LifeUnchanged /\ WriterUnchanged /\ KeepLocks
  BY DEF ActDescriptor
<1>2. desc' \in 1..MaxUpdates \cup {None} /\ j' \in JournalType /\ j' = j
  BY <1>1, AtAct DEF JournalType
<1>3. JournalInv'
  BY <1>1, JournalKept DEF LifeUnchanged
<1>4. DiskTypeOK' /\ fault' \in BOOLEAN /\ ctx' \in [src : BOOLEAN, gen : BOOLEAN, err : BOOLEAN]
  BY <1>1, Typed DEF DiskTypeOK, diskVars
<1>5. pc'[p] = "handed" => StageOK(p)'
  BY <1>1, AtAct DEF StageOK
<1>6. "handed" \in Points /\ "handed" \in Works /\ "handed" \in Owners
  BY DEF Points, Loaded, Works, Owners
<1>7. QED
  BY <1>1, <1>2, <1>3, <1>4, <1>5, <1>6, AtAct, WorkStep

(* A step that throws.                                                      *)
LEMMA ActFailsStep ==
    ASSUME IInv, NEW p \in Proc, ActFails(p)
    PROVE  IInv'
<1>1. /\ pc[p] \in {"act", "handed"} /\ fault' = TRUE
      /\ UNCHANGED <<diskVars, desc, ctx>> /\ LifeUnchanged /\ WriterUnchanged
  BY DEF ActFails
<1>2. /\ pc[p] \in Works /\ pc[p] \in Owners /\ j.state = "UPDATING" /\ j.owner = p
      /\ j \in JournalType /\ ClosedInv /\ PhaseInv
  <2>1. pc[p] \in Works /\ pc[p] \in Owners
    BY <1>1 DEF Works, Owners
  <2>2. QED
    BY <1>1, <2>1, AtWork, Typed DEF StageOK, IInv, JournalInv
<1>3. CASE j.phase = "RESTARTING_HANDOFF"
  <2>1. j' = Manual(j) /\ Releases(p) /\ Goes(p, "up")
    BY <1>3 DEF ActFails, DeclaredManual
  <2>2. j' \in JournalType /\ j'.owner = None
    BY <1>2, <2>1, Rows
  <2>3. JournalInv'
    BY <1>1, <1>2, <2>1, ToManual DEF LifeUnchanged
  <2>4. "up" \in Points \ Admits
    BY DEF Points, Loaded, Admits, Works, Owners
  <2>5. QED
    BY <1>1, <1>2, <2>1, <2>2, <2>3, <2>4, EndStep
<1>4. CASE j.phase # "RESTARTING_HANDOFF"
  <2>1. j' = [j EXCEPT !.phase = "ROLLBACK_PREPARED"] /\ KeepLocks /\ Goes(p, "undo")
    BY <1>4 DEF ActFails
  <2>2. /\ j' \in JournalType /\ j'.state = j.state /\ j'.phase = "ROLLBACK_PREPARED" /\ j'.tx = j.tx
        /\ j'.owner = j.owner /\ j'.from = j.from /\ j'.to = j.to /\ j'.unknown = j.unknown
        /\ j'.degraded = j.degraded
    BY <1>2, <2>1 DEF JournalType
  <2>3. pc[p] = "act"
    BY <1>1, <1>2, <1>4, AtWork DEF StageOK
  <2>4. ~j.unknown /\ j.phase \in Forward
    BY <1>2, <1>4, <2>3, AtAct DEF PhaseInv, Handed, Forward, Staged
  <2>5. ClosedInv'
    BY <1>1, <1>2, <2>2 DEF ClosedInv, AllAt, diskVars, LifeUnchanged
  <2>6. PhaseInv'
    BY <1>1, <1>2, <2>2, <2>4 DEF PhaseInv, diskVars, Handed, Undoing, Forward, Staged
  <2>7. JournalInv'
    BY <1>2, <2>2, <2>5, <2>6, ToClosed
  <2>8. UndoInv'
    <3>1. ~ctx.gen => AllAt(j.from)
      BY <1>2, <2>3, <2>4, AtAct DEF PhaseInv, ClosedInv, Forward, AllAt
    <3>2. ~ctx.err /\ (~ctx.src => src = j.from)
      BY <2>3, AtAct
    <3>3. QED
      BY <1>1, <2>2, <3>1, <3>2 DEF UndoInv, AllAt, diskVars
  <2>9. pc'[p] = "undo" => StageOK(p)'
    BY <1>2, <2>2, <2>8 DEF StageOK, Undoing
  <2>10. "undo" \in Points /\ "undo" \in Works /\ "undo" \in Owners
    BY DEF Points, Loaded, Works, Owners
  <2>11. /\ DiskTypeOK' /\ desc' \in 1..MaxUpdates \cup {None} /\ fault' \in BOOLEAN
         /\ ctx' \in [src : BOOLEAN, gen : BOOLEAN, err : BOOLEAN]
    BY <1>1, Typed DEF DiskTypeOK, diskVars
  <2>12. QED
    BY <1>1, <1>2, <2>1, <2>2, <2>7, <2>9, <2>10, <2>11, WorkStep
<1>5. QED
  BY <1>3, <1>4

(* A process that is gone holds no lock, no lease and no journal.           *)
LEMMA DeathStep ==
    ASSUME IInv, NEW p \in Proc, Goes(p, "down"), adm' = Freed(adm, p), act' = Freed(act, p),
           lease' = [lease EXCEPT ![p] = "none"], refs' = [refs EXCEPT ![p] = 0],
           j' = [j EXCEPT !.owner = IF j.owner = p THEN Dead ELSE j.owner],
           crashes' \in 0..MaxCrashes, UNCHANGED <<diskVars, desc, updates, seen, ctx, fault>>
    PROVE  IInv'
<1>1. /\ j \in JournalType /\ pc \in [Proc -> Points] /\ adm \in Proc \cup {None} /\ act \in Proc \cup {None}
      /\ lease \in [Proc -> {"none", "admission", "activity"}] /\ refs \in [Proc -> 0..MaxRefs]
  BY Typed DEF IInv, TypeOK
<1>2. /\ j' \in JournalType /\ j'.state = j.state /\ j'.phase = j.phase /\ j'.tx = j.tx
      /\ j'.from = j.from /\ j'.to = j.to /\ j'.unknown = j.unknown /\ j'.degraded = j.degraded
      /\ j'.owner = IF j.owner = p THEN Dead ELSE j.owner
  BY <1>1 DEF JournalType
<1>3. pc' \in [Proc -> Points] /\ pc'[p] = "down" /\ \A q \in Proc \ {p} : pc'[q] = pc[q]
  BY <1>1 DEF Goes, Points
<1>4. /\ lease' \in [Proc -> {"none", "admission", "activity"}] /\ refs' \in [Proc -> 0..MaxRefs]
      /\ lease'[p] = "none" /\ refs'[p] = 0
      /\ \A q \in Proc \ {p} : lease'[q] = lease[q] /\ refs'[q] = refs[q]
  BY <1>1, Constants
<1>5. /\ adm' \in Proc \cup {None} /\ act' \in Proc \cup {None} /\ (act = None => act' = None)
      /\ \A q \in Proc \ {p} : (adm = q => adm' = q) /\ (act = q => act' = q)
  BY <1>1, Constants DEF Freed
<1>6. TypeOK'
  BY <1>2, <1>3, <1>4, <1>5 DEF IInv, TypeOK, DiskTypeOK, diskVars, Points
<1>7. WriterInv'
  BY <1>2, <1>4, <1>5 DEF IInv, WriterInv
<1>8. UndoInv => UndoInv'
  BY <1>2 DEF UndoInv, AllAt, diskVars
<1>9. ASSUME NEW q \in Proc PROVE LockOK(q)' /\ StageOK(q)'
  <2>1. CASE q = p
    BY <1>2, <1>3, <2>1, Constants DEF LockOK, StageOK, Admits, Works, Owners
  <2>2. CASE q # p
    <3>1. LockOK(q) /\ StageOK(q) /\ pc'[q] = pc[q] /\ (j'.owner = q <=> j.owner = q)
      BY <1>2, <1>3, <2>2, Constants DEF IInv, LockInv, StageInv
    <3>2. LockOK(q)'
      BY <1>5, <2>2, <3>1 DEF LockOK
    <3>3. StageOK(q)'
      BY <1>2, <1>8, <3>1 DEF StageOK, Quiet, diskVars
    <3>4. QED
      BY <3>2, <3>3
  <2>3. QED
    BY <2>1, <2>2
<1>10. JournalInv'
  <2>1. j.owner = None => j'.owner = None
    BY <1>2, Constants
  <2>2. OpenInv' /\ ClosedInv'
    BY <1>2, <2>1 DEF IInv, JournalInv, OpenInv, ClosedInv, AllAt, diskVars
  <2>3. PhaseInv' /\ CrashAloneNeverManual'
    BY <1>2 DEF IInv, JournalInv, PhaseInv, CrashAloneNeverManual, Exchanged, AllAt, diskVars
  <2>4. QED
    BY <2>2, <2>3 DEF JournalInv
<1>11. QED
  BY <1>6, <1>7, <1>9, <1>10 DEF IInv, LockInv, StageInv

LEMMA DeathSteps ==
    ASSUME IInv, NEW p \in Proc, HandoffExit(p) \/ Crash(p)
    PROVE  IInv'
<1>1. CASE HandoffExit(p)
  <2>1. pc[p] \in Works /\ pc[p] \in Owners
    BY <1>1 DEF HandoffExit, Works, Owners
  <2>2. adm = p /\ act = p /\ j.owner = p /\ j \in JournalType /\ crashes \in 0..MaxCrashes
    BY <2>1, AtWork, Typed DEF IInv, TypeOK
  <2>3. j' = [j EXCEPT !.owner = IF j.owner = p THEN Dead ELSE j.owner]
    BY <1>1, <2>2 DEF HandoffExit
  <2>4. adm' = Freed(adm, p) /\ act' = Freed(act, p)
    BY <1>1, <2>2 DEF HandoffExit, Releases, Freed
  <2>5. QED
    BY <1>1, <2>2, <2>3, <2>4, DeathStep DEF HandoffExit, LifeUnchanged, Goes
<1>2. CASE Crash(p)
  <2>1. crashes' \in 0..MaxCrashes /\ j \in JournalType
    BY <1>2, Typed, Constants DEF Crash, IInv, TypeOK
  <2>2. QED
    BY <1>2, <2>1, DeathStep DEF Crash
<1>3. QED
  BY <1>1, <1>2

-----------------------------------------------------------------------------
(* The rollback: inside the living updater, and in the process that         *)
(* recovers a dead one.                                                     *)
LEMMA GenerationBack ==
    ASSUME IInv, j.state # "OPEN", ~j.unknown, UndoExchange(j.from), UNCHANGED <<j, updates>>
    PROVE  DiskTypeOK' /\ receipt'.filed /\ UNCHANGED <<src, snap>> /\ ClosedInv'
<1> DEFINE back == {g \in Changed : gen[g] # j.from}
           m == Max(back)
<1>1. /\ back # {} /\ receipt' = Recorded(receipt.steps \cup {m})
      /\ gen' = [gen EXCEPT ![m] = j.from] /\ UNCHANGED <<src, snap>>
  BY DEF UndoExchange
<1>2. m \in back
  <2>1. back \in SUBSET Gens
    BY DEF Changed
  <2> HIDE DEF back
  <2>2. QED
    BY <1>1, <2>1, MaxIn
<1>3. m \in Gens /\ m \in Changed
  BY <1>2, Constants
<1> HIDE DEF m, back
<1>4. gen \in [Gens -> Version] /\ j.from \in Version /\ receipt.steps \subseteq Gens
  BY Typed DEF DiskTypeOK, JournalType
<1>5. /\ gen' \in [Gens -> Version] /\ gen'[m] = j.from /\ \A g \in Gens \ {m} : gen'[g] = gen[g]
      /\ receipt'.filed /\ receipt'.steps = receipt.steps \cup {m}
  BY <1>1, <1>3, <1>4 DEF Recorded
<1>6. DiskTypeOK'
  BY <1>1, <1>3, <1>4, <1>5, Typed DEF DiskTypeOK, Recorded
<1>7. ClosedInv'
  BY <1>1, <1>3, <1>5, Constants DEF IInv, JournalInv, ClosedInv
<1>8. QED
  BY <1>1, <1>5, <1>6, <1>7

LEMMA AtUndo ==
    ASSUME IInv, NEW p \in Proc, pc[p] = "undo"
    PROVE  /\ j.state = "UPDATING" /\ j.phase \in Undoing /\ j.owner = p /\ UndoInv /\ fault /\ ~j.unknown
           /\ pc[p] \in Works /\ pc[p] \in Owners /\ pc[p] \in Points
           /\ ClosedInv /\ PhaseInv /\ j \in JournalType /\ DiskTypeOK
<1>1. pc[p] \in Works /\ pc[p] \in Owners /\ pc[p] \in Points
  BY DEF Works, Owners, Points, Loaded
<1>2. StageOK(p) /\ j.owner = p
  BY <1>1, AtWork
<1>3. /\ j.state = "UPDATING" /\ j.phase \in Undoing /\ UndoInv
      /\ ClosedInv /\ PhaseInv /\ j \in JournalType /\ DiskTypeOK
  BY <1>2, Typed DEF StageOK, IInv, JournalInv
<1>4. fault /\ ~j.unknown
  BY <1>3 DEF PhaseInv, Undoing, Handed
<1>5. QED
  BY <1>1, <1>2, <1>3, <1>4

(* The end of one stage of the rollback.                                    *)
LEMMA UndoStage ==
    ASSUME IInv, NEW p \in Proc, pc[p] = "undo", NEW x \in Undoing, j' = [j EXCEPT !.phase = x],
           UNCHANGED <<src, gen, snap, desc, pc>>, LifeUnchanged, WriterUnchanged, KeepLocks,
           receipt' \in {receipt, UndoneReceipt}, fault',
           ctx' \in [src : BOOLEAN, gen : BOOLEAN, err : BOOLEAN],
           ctx'.src <=> ctx.src, ctx'.gen <=> ctx.gen,
           ~ctx'.err /\ x # "ROLLBACK_PREPARED" => AllAt(j.from),
           ~ctx'.err /\ x = "ROLLBACK_SOURCE_APPLIED" => src = j.from
    PROVE  IInv'
<1>1. /\ j' \in JournalType /\ j'.state = j.state /\ j'.phase = x /\ j'.tx = j.tx
      /\ j'.owner = j.owner /\ j'.from = j.from /\ j'.to = j.to /\ j'.unknown = j.unknown
      /\ j'.degraded = j.degraded
  BY AtUndo DEF JournalType, Undoing
<1>2. /\ receipt.steps \subseteq receipt'.steps /\ (~receipt'.filed => receipt'.steps = {})
      /\ receipt' \in [filed : BOOLEAN, steps : SUBSET Gens]
  <2>1. receipt \in [filed : BOOLEAN, steps : SUBSET Gens] /\ (~receipt.filed => receipt.steps = {})
    BY AtUndo DEF DiskTypeOK, ClosedInv
  <2>2. CASE receipt' = receipt
    BY <2>1, <2>2
  <2>3. CASE receipt' = Recorded(Gens)
    BY <2>1, <2>3 DEF Recorded
  <2>4. QED
    BY <2>2, <2>3 DEF UndoneReceipt
<1>3. DiskTypeOK'
  BY <1>2, AtUndo DEF DiskTypeOK
<1>4. ClosedInv'
  BY <1>1, <1>2, AtUndo DEF ClosedInv, LifeUnchanged
<1>5. PhaseInv'
  BY <1>1, AtUndo DEF PhaseInv, Undoing, Handed, Forward, Staged
<1>6. JournalInv'
  BY <1>1, <1>4, <1>5, AtUndo, ToClosed
<1>7. UndoInv'
  BY <1>1, AtUndo DEF UndoInv, AllAt
<1>8. StageOK(p)'
  BY <1>1, <1>7, AtUndo DEF StageOK
<1>9. desc' \in 1..MaxUpdates \cup {None} /\ fault' \in BOOLEAN
  BY Typed
<1>10. QED
  BY <1>1, <1>3, <1>6, <1>8, <1>9, AtUndo, WorkStep

LEMMA UndoSteps ==
    ASSUME IInv, NEW p \in Proc, UndoGens(p) \/ UndoGensEnds(p) \/ UndoSource(p) \/ UndoSourceEnds(p)
    PROVE  IInv'
<1>0. ctx \in [src : BOOLEAN, gen : BOOLEAN, err : BOOLEAN] /\ fault \in BOOLEAN
  BY Typed
<1>1. CASE UndoGens(p)
  <2>1. /\ pc[p] = "undo" /\ j.phase = "ROLLBACK_PREPARED" /\ ctx.gen /\ UndoExchange(j.from)
        /\ UNCHANGED <<j, desc, pc, ctx, fault>> /\ LifeUnchanged /\ WriterUnchanged /\ KeepLocks
    BY <1>1 DEF UndoGens
  <2>2. DiskTypeOK' /\ receipt'.filed /\ UNCHANGED <<src, snap>> /\ ClosedInv'
    BY <2>1, AtUndo, GenerationBack DEF LifeUnchanged
  <2>3. PhaseInv'
    BY <2>1, <2>2, AtUndo DEF PhaseInv, Undoing, Handed, Staged
  <2>4. StageOK(p)'
    BY <2>1, <2>2, AtUndo DEF StageOK, UndoInv
  <2>5. QED
    BY <1>0, <2>1, <2>2, <2>3, <2>4, AtUndo, DiskStep
<1>2. CASE UndoGensEnds(p)
  <2>1. /\ pc[p] = "undo" /\ j.phase = "ROLLBACK_PREPARED"
        /\ j' = [j EXCEPT !.phase = "ROLLBACK_SOURCE_APPLYING"]
        /\ UNCHANGED <<src, gen, snap, desc, pc>> /\ LifeUnchanged /\ WriterUnchanged /\ KeepLocks
    BY <1>2 DEF UndoGensEnds
  <2>2. /\ receipt' \in {receipt, UndoneReceipt} /\ fault'
        /\ ctx' \in [src : BOOLEAN, gen : BOOLEAN, err : BOOLEAN]
        /\ (ctx'.src <=> ctx.src) /\ (ctx'.gen <=> ctx.gen) /\ (~ctx'.err => AllAt(j.from))
    <3>1. fault /\ (~ctx.gen => AllAt(j.from)) /\ fault \in BOOLEAN
      BY <1>0, <2>1, AtUndo DEF UndoInv
    <3>2. CASE ~ctx.gen /\ UNCHANGED <<receipt, ctx, fault>>
      BY <1>0, <3>1, <3>2
    <3>3. CASE ctx.gen /\ AllAt(j.from) /\ receipt' = UndoneReceipt /\ UNCHANGED <<ctx, fault>>
      BY <1>0, <3>1, <3>3
    <3>4. CASE UNCHANGED receipt /\ ctx' = [ctx EXCEPT !.err = TRUE] /\ fault' = TRUE
      BY <1>0, <3>4
    <3>5. QED
      BY <1>2, <3>2, <3>3, <3>4 DEF UndoGensEnds
  <2>3. QED
    BY <2>1, <2>2, UndoStage DEF Undoing
<1>3. CASE UndoSource(p)
  <2>1. /\ pc[p] = "undo" /\ j.phase = "ROLLBACK_SOURCE_APPLYING" /\ ctx.src /\ WriteSource(j.from)
        /\ UNCHANGED <<j, desc, pc, ctx, fault>> /\ LifeUnchanged /\ WriterUnchanged /\ KeepLocks
    BY <1>3 DEF UndoSource
  <2>2. DiskTypeOK' /\ src' \in {j.from, Mixed} /\ UNCHANGED <<gen, receipt, snap>>
    BY <2>1, SourceMoves
  <2>3. ClosedInv'
    BY <2>1, <2>2, AtUndo DEF ClosedInv, LifeUnchanged
  <2>4. PhaseInv'
    BY <2>1, <2>2, AtUndo DEF PhaseInv, Undoing, Handed, Staged
  <2>5. StageOK(p)'
    BY <2>1, <2>2, AtUndo DEF StageOK, UndoInv, AllAt
  <2>6. QED
    BY <1>0, <2>1, <2>2, <2>3, <2>4, <2>5, AtUndo, DiskStep
<1>4. CASE UndoSourceEnds(p)
  <2>1. /\ pc[p] = "undo" /\ j.phase = "ROLLBACK_SOURCE_APPLYING"
        /\ j' = [j EXCEPT !.phase = "ROLLBACK_SOURCE_APPLIED"]
        /\ UNCHANGED <<diskVars, desc, pc>> /\ LifeUnchanged /\ WriterUnchanged /\ KeepLocks
    BY <1>4 DEF UndoSourceEnds
  <2>2. /\ fault' /\ ctx' \in [src : BOOLEAN, gen : BOOLEAN, err : BOOLEAN]
        /\ (ctx'.src <=> ctx.src) /\ (ctx'.gen <=> ctx.gen)
        /\ (~ctx'.err => AllAt(j.from) /\ src = j.from)
    <3>1. fault /\ (~ctx.src => src = j.from) /\ (~ctx.err => AllAt(j.from))
      BY <2>1, AtUndo DEF UndoInv
    <3>2. CASE (ctx.src => src = j.from) /\ UNCHANGED <<ctx, fault>>
      BY <1>0, <3>1, <3>2
    <3>3. CASE ctx' = [ctx EXCEPT !.err = TRUE] /\ fault' = TRUE
      BY <1>0, <3>3
    <3>4. QED
      BY <1>4, <3>2, <3>3 DEF UndoSourceEnds
  <2>3. QED
    BY <2>1, <2>2, UndoStage DEF Undoing, diskVars
<1>5. QED
  BY <1>1, <1>2, <1>3, <1>4

(* The exit of a rollback that could not be finished.                       *)
LEMMA ExitOrManual ==
    ASSUME IInv, j.state # "OPEN", j' = ReopenOrManual(j), UNCHANGED <<diskVars, updates>>,
           fault' \/ (~Eligible => Identical # {} /\ j.phase = "INSTALLING" /\ ~snap)
    PROVE  JournalInv' /\ j' \in JournalType /\ j'.owner = None /\ j'.state \in {"OPEN", "MANUAL"}
<1>1. CASE Eligible
  <2>1. j' = Reopened(j)
    BY <1>1 DEF ReopenOrManual
  <2>2. QED
    BY <1>1, <2>1, ToExit, Typed, Rows DEF Quiet
<1>2. CASE ~Eligible
  <2>1. j' = Manual(j)
    BY <1>2 DEF ReopenOrManual
  <2>2. QED
    BY <1>2, <2>1, ToManual, Typed, Rows
<1>3. QED
  BY <1>1, <1>2

(* Everything undone: the gate opens on the version the update began from.  *)
LEMMA Undone ==
    ASSUME IInv, j.state # "OPEN", j' = Reset(j), UNCHANGED <<diskVars, updates>>, src = j.from, AllAt(j.from)
    PROVE  JournalInv' /\ j' \in JournalType /\ j'.owner = None /\ j'.state = "OPEN"
<1>1. j' \in JournalType /\ j'.state = "OPEN" /\ j'.owner = None /\ j'.degraded = j.degraded
  BY Rows, Typed
<1>2. ~j.degraded /\ j.to = j.from + 1 /\ j.to <= updates
  BY DEF IInv, JournalInv, ClosedInv
<1>3. src \in 0..updates
  BY <1>2, Typed, Constants DEF JournalType
<1>4. QED
  BY <1>1, <1>2, <1>3, ToOpen DEF AllAt, diskVars

LEMMA UndoExitStep ==
    ASSUME IInv, NEW p \in Proc, UndoExit(p)
    PROVE  IInv'
<1>1. /\ pc[p] = "undo" /\ j.phase = "ROLLBACK_SOURCE_APPLIED" /\ Releases(p) /\ Goes(p, "up")
      /\ j' = IF ctx.err THEN ReopenOrManual(j) ELSE Reset(j)
      /\ UNCHANGED <<diskVars, desc, ctx, fault>> /\ LifeUnchanged /\ WriterUnchanged
  BY DEF UndoExit
<1>2. JournalInv' /\ j' \in JournalType /\ j'.owner = None
  <2>1. CASE ctx.err
    BY <1>1, <2>1, AtUndo, ExitOrManual DEF LifeUnchanged
  <2>2. CASE ~ctx.err
    BY <1>1, <2>2, AtUndo, Undone DEF LifeUnchanged, UndoInv
  <2>3. QED
    BY <2>1, <2>2
<1>3. "up" \in Points \ Admits /\ fault' \in BOOLEAN
  BY <1>1, Typed DEF Points, Loaded, Admits, Works, Owners
<1>4. QED
  BY <1>1, <1>2, <1>3, AtUndo, EndStep

-----------------------------------------------------------------------------
(* A starting process decides with both locks free.                         *)
LEMMA FreeStep ==
    ASSUME IInv, NEW p \in Proc, LocksFree, NEW x \in Points, Goes(p, x),
           (KeepLocks /\ x \notin Admits) \/ (Takes(p) /\ x \in Works),
           UNCHANGED <<diskVars, desc, ctx>>, LifeUnchanged, WriterUnchanged,
           j' \in JournalType, fault' \in BOOLEAN, JournalInv',
           j'.owner \in {None, p}, x \in Owners <=> j'.owner = p,
           pc'[p] = x => StageOK(p)'
    PROVE  IInv'
<1>1. AdmissionFree /\ ActivityFree
  BY DEF LocksFree
<1>2. DiskTypeOK' /\ desc' \in 1..MaxUpdates \cup {None} /\ updates' \in 0..MaxUpdates
      /\ ctx' \in [src : BOOLEAN, gen : BOOLEAN, err : BOOLEAN]
  BY Typed DEF DiskTypeOK, diskVars, LifeUnchanged
<1>3. (x \in Admits => adm' = p) /\ (x \in Works => act' = p) /\ (KeepLocks \/ (adm' = p /\ act' = p))
  BY DEF Takes, Admits
<1>4. QED
  BY <1>1, <1>2, <1>3, GateStep DEF LifeUnchanged

(* ... and keeps nothing when it leaves the gate open or to a person.       *)
LEMMA FreeExit ==
    ASSUME IInv, NEW p \in Proc, LocksFree, NEW x \in {"up", "down", "hold"}, Goes(p, x), KeepLocks,
           UNCHANGED <<diskVars, desc, ctx>>, LifeUnchanged, WriterUnchanged,
           j' \in JournalType, fault' \in BOOLEAN, JournalInv', j'.owner = None
    PROVE  IInv'
<1>1. x \in Points /\ x \notin Admits /\ x \notin Owners
  BY DEF Points, Loaded, Admits, Works, Owners
<1>2. pc'[p] = x => StageOK(p)'
  BY DEF StageOK
<1>3. j'.owner # p
  BY Constants
<1>4. QED
  BY <1>1, <1>2, <1>3, FreeStep

LEMMA ClaimStep ==
    ASSUME IInv, NEW p \in Proc, Claim(p)
    PROVE  IInv'
<1>0. /\ pc[p] = "claim" /\ UNCHANGED <<diskVars, desc, ctx>> /\ LifeUnchanged /\ WriterUnchanged
      /\ j \in JournalType /\ fault \in BOOLEAN
  BY Typed DEF Claim
<1>1. CASE /\ Claimable(p) /\ Takes(p) /\ Goes(p, "claimed")
           /\ j' = [j EXCEPT !.phase = "BOOTSTRAP_CLAIMED", !.owner = p] /\ UNCHANGED fault
  <2>1. /\ j' \in JournalType /\ j'.state = j.state /\ j'.phase = "BOOTSTRAP_CLAIMED" /\ j'.tx = j.tx
        /\ j'.owner = p /\ j'.from = j.from /\ j'.to = j.to /\ j'.unknown = j.unknown
        /\ j'.degraded = j.degraded
    BY <1>0, <1>1 DEF JournalType
  <2>2. j.state = "UPDATING" /\ j.phase = "RESTARTING_HANDOFF" /\ LocksFree
    BY <1>1 DEF Claimable, Takes
  <2>3. ClosedInv'
    BY <1>0, <2>1, <2>2 DEF IInv, JournalInv, ClosedInv, AllAt, diskVars, LifeUnchanged
  <2>4. PhaseInv'
    BY <1>0, <2>1, <2>2 DEF IInv, JournalInv, PhaseInv, Exchanged, AllAt, diskVars, Handed, Undoing, Forward, Staged
  <2>5. JournalInv'
    BY <2>1, <2>2, <2>3, <2>4, ToClosed
  <2>6. pc'[p] = "claimed" => StageOK(p)'
    BY <2>1, <2>2 DEF StageOK
  <2>7. "claimed" \in Points /\ "claimed" \in Works /\ "claimed" \in Owners
    BY DEF Points, Works, Owners
  <2>8. QED
    BY <1>0, <1>1, <2>1, <2>2, <2>5, <2>6, <2>7, FreeStep
<1>2. CASE /\ Claimable(p) /\ LocksFree /\ KeepLocks /\ Goes(p, "down")
           /\ j' = Manual(j) /\ fault' = TRUE
  <2>1. j' \in JournalType /\ j'.owner = None /\ JournalInv'
    BY <1>0, <1>2, Rows, ToManual DEF Claimable, LifeUnchanged
  <2>2. QED
    BY <1>0, <1>2, <2>1, FreeExit
<1>3. CASE Goes(p, "down") /\ KeepLocks /\ UNCHANGED <<j, fault>>
  <2>1. "down" \in Points /\ "down" \notin Admits /\ "down" \notin Owners /\ pc[p] \notin Owners
    BY <1>0 DEF Points, Admits, Works, Owners
  <2>2. seen' \in [Proc -> 1..MaxUpdates \cup {None}]
    BY <1>0 DEF IInv, TypeOK, LifeUnchanged
  <2>3. QED
    BY <1>0, <1>3, <2>1, <2>2, PlaceStep DEF LifeUnchanged, KeepLocks, Admits, Works
<1>4. QED
  BY <1>1, <1>2, <1>3 DEF Claim

LEMMA ClaimedEndsStep ==
    ASSUME IInv, NEW p \in Proc, ClaimedEnds(p)
    PROVE  IInv'
<1>1. /\ pc[p] = "claimed" /\ Releases(p)
      /\ UNCHANGED <<diskVars, desc, ctx>> /\ LifeUnchanged /\ WriterUnchanged
  BY DEF ClaimedEnds
<1>2. pc[p] \in Works
  BY <1>1 DEF Works, Owners
<1>3. /\ j.state = "UPDATING" /\ j.phase = "BOOTSTRAP_CLAIMED" /\ j \in JournalType
      /\ fault \in BOOLEAN /\ ClosedInv /\ PhaseInv
  BY <1>1, <1>2, AtWork, Typed DEF StageOK, IInv, JournalInv
<1>4. CASE /\ Goes(p, "up") /\ UNCHANGED fault
           /\ j' = [j EXCEPT !.state = "OPEN", !.phase = "ACTIVE_VERIFIED", !.owner = None]
  <2>1. j' \in JournalType /\ j'.state = "OPEN" /\ j'.owner = None /\ j'.degraded = j.degraded
    BY <1>3, <1>4 DEF JournalType
  <2>2. ~j.degraded /\ src = j.to /\ AllAt(j.to) /\ j.to <= updates
    BY <1>3 DEF ClosedInv, PhaseInv, Handed, Exchanged
  <2>3. src \in 0..updates
    BY <1>3, <2>2, Typed, Constants DEF JournalType
  <2>4. JournalInv'
    BY <1>1, <2>1, <2>2, <2>3, ToOpen DEF AllAt, diskVars, LifeUnchanged
  <2>5. "up" \in Points \ Admits
    BY DEF Points, Loaded, Admits, Works, Owners
  <2>6. QED
    BY <1>1, <1>2, <1>3, <1>4, <2>1, <2>4, <2>5, EndStep
<1>5. CASE Goes(p, "down") /\ fault' = TRUE /\ j' = [j EXCEPT !.owner = Dead]
  <2>1. /\ j' \in JournalType /\ j'.state = j.state /\ j'.phase = j.phase /\ j'.tx = j.tx
        /\ j'.owner = Dead /\ j'.from = j.from /\ j'.to = j.to /\ j'.unknown = j.unknown
        /\ j'.degraded = j.degraded
    BY <1>3, <1>5 DEF JournalType
  <2>2. ClosedInv'
    BY <1>1, <1>3, <2>1 DEF ClosedInv, AllAt, diskVars, LifeUnchanged
  <2>3. PhaseInv'
    BY <1>1, <1>3, <2>1 DEF PhaseInv, Exchanged, AllAt, diskVars, Handed, Undoing
  <2>4. JournalInv'
    BY <1>3, <2>1, <2>2, <2>3, ToClosed
  <2>5. "down" \in Points \ Admits
    BY DEF Points, Admits, Works, Owners
  <2>6. QED
    BY <1>1, <1>2, <1>3, <1>5, <2>1, <2>4, <2>5, EndStep
<1>6. QED
  BY <1>4, <1>5 DEF ClaimedEnds

LEMMA RecoverStep ==
    ASSUME IInv, NEW p \in Proc, Recover(p)
    PROVE  IInv'
<1>0. /\ pc[p] \in {"recover", "poll"} /\ LocksFree /\ j.owner \notin Proc
      /\ UNCHANGED <<diskVars, desc, ctx>> /\ LifeUnchanged /\ WriterUnchanged
      /\ j \in JournalType /\ fault \in BOOLEAN
  BY Typed DEF Recover, RecoverEnters
<1>1. CASE UNCHANGED j /\ Goes(p, "up") /\ KeepLocks /\ UNCHANGED fault
  <2>1. "up" \in Points /\ "up" \notin Admits /\ "up" \notin Owners /\ pc[p] \notin Owners
    BY <1>0 DEF Points, Loaded, Admits, Works, Owners
  <2>2. seen' \in [Proc -> 1..MaxUpdates \cup {None}]
    BY <1>0 DEF IInv, TypeOK, LifeUnchanged
  <2>3. QED
    BY <1>0, <1>1, <2>1, <2>2, PlaceStep DEF LifeUnchanged, KeepLocks, Admits, Works
<1>2. CASE /\ j.owner = Dead /\ j' = Manual(j) /\ fault' = TRUE
           /\ Goes(p, "hold") /\ KeepLocks
  <2>1. j.state # "OPEN"
    BY <1>2, Constants DEF IInv, JournalInv, OpenInv
  <2>2. j' \in JournalType /\ j'.owner = None /\ JournalInv'
    BY <1>0, <1>2, <2>1, Rows, ToManual DEF LifeUnchanged
  <2>3. QED
    BY <1>0, <1>2, <2>2, FreeExit
<1>3. CASE /\ j.state # "OPEN" /\ Unstarted /\ j' = Reset(j)
           /\ Goes(p, "up") /\ KeepLocks /\ UNCHANGED fault
  <2>1. src = j.from /\ AllAt(j.from)
    BY <1>3 DEF IInv, JournalInv, PhaseInv, ClosedInv, Unstarted, AllAt
  <2>2. j' \in JournalType /\ j'.owner = None /\ JournalInv'
    BY <1>0, <1>3, <2>1, Undone DEF LifeUnchanged
  <2>3. QED
    BY <1>0, <1>3, <2>2, FreeExit
<1>4. CASE /\ j.state # "OPEN" /\ ~PastHandoff /\ Recoverable
           /\ j' = [j EXCEPT !.state = "RECOVERING", !.owner = None]
           /\ Takes(p) /\ Goes(p, "rollback") /\ UNCHANGED fault
  <2>1. /\ j' \in JournalType /\ j'.state = "RECOVERING" /\ j'.phase = j.phase /\ j'.tx = j.tx
        /\ j'.owner = None /\ j'.from = j.from /\ j'.to = j.to /\ j'.unknown = j.unknown
        /\ j'.degraded = j.degraded
    BY <1>0, <1>4 DEF JournalType
  <2>2. j.state \in {"UPDATING", "RECOVERING"} /\ j.phase # "PREPARED" /\ ~j.unknown /\ j.phase \notin Handed
    BY <1>4 DEF Recoverable, PastHandoff, Handed
  <2>3. ClosedInv'
    BY <1>0, <1>4, <2>1 DEF IInv, JournalInv, ClosedInv, AllAt, diskVars, LifeUnchanged
  <2>4. j.from \in Version /\ j.to \in Version
    BY <1>0 DEF JournalType
  <2>5. PhaseInv'
    <3>1. j.phase \in (Forward \ {"PREPARED"}) \cup Undoing /\ (j.phase \in Undoing => fault)
      BY <2>2 DEF IInv, JournalInv, PhaseInv
    <3>2. (j.phase \in Staged => snap) /\ (j.phase = "INSTALLING" /\ ~snap => src # Mixed /\ ~receipt.filed)
      BY <2>2, <2>4, Constants DEF IInv, JournalInv, PhaseInv
    <3>3. QED
      BY <1>0, <1>4, <2>1, <2>2, <3>1, <3>2 DEF PhaseInv, diskVars
  <2>6. JournalInv'
    BY <2>1, <2>3, <2>5, ToClosed
  <2>7. pc'[p] = "rollback" => StageOK(p)'
    BY <2>1 DEF StageOK
  <2>8. "rollback" \in Points /\ "rollback" \in Works /\ "rollback" \notin Owners /\ j'.owner # p
    BY <2>1, Constants DEF Points, Works, Owners
  <2>9. QED
    BY <1>0, <1>4, <2>1, <2>6, <2>7, <2>8, FreeStep
<1>5. CASE /\ j.state # "OPEN" /\ (PastHandoff \/ (~Unstarted /\ ~Recoverable)) /\ j' = Manual(j)
           /\ Goes(p, "hold") /\ KeepLocks /\ UNCHANGED fault
  <2>1. fault \/ j.unknown \/ (Identical # {} /\ j.phase = "INSTALLING" /\ ~snap)
    <3>1. CASE j.state = "MANUAL"
      BY <3>1 DEF IInv, JournalInv, CrashAloneNeverManual
    <3>2. CASE j.state # "MANUAL"
      <4>1. j.state \in {"DRAINING", "UPDATING", "RECOVERING"}
        BY <1>0, <1>5, <3>2 DEF JournalType
      <4>2. QED
        BY <1>5, <4>1 DEF IInv, JournalInv, PhaseInv, PastHandoff, Unstarted, Recoverable, Handed, Undoing, Forward, Staged
    <3>3. QED
      BY <3>1, <3>2
  <2>2. j' \in JournalType /\ j'.owner = None /\ JournalInv'
    BY <1>0, <1>5, <2>1, Rows, ToManual DEF LifeUnchanged
  <2>3. QED
    BY <1>0, <1>5, <2>2, FreeExit
<1>6. QED
  BY <1>1, <1>2, <1>3, <1>4, <1>5 DEF Recover

LEMMA AtRollback ==
    ASSUME IInv, NEW p \in Proc, pc[p] = "rollback"
    PROVE  /\ j.state = "RECOVERING" /\ j.owner = None /\ ~j.unknown
           /\ pc[p] \in Works /\ pc[p] \in Points
           /\ ClosedInv /\ PhaseInv /\ j \in JournalType /\ DiskTypeOK
<1>1. pc[p] \in Works /\ pc[p] \in Points
  BY DEF Works, Points
<1>2. StageOK(p)
  BY <1>1, AtWork
<1>3. j.state = "RECOVERING" /\ ClosedInv /\ PhaseInv /\ j \in JournalType /\ DiskTypeOK
  BY <1>2, Typed DEF StageOK, IInv, JournalInv
<1>4. QED
  BY <1>1, <1>3 DEF ClosedInv, PhaseInv

LEMMA RollbackSteps ==
    ASSUME IInv, NEW p \in Proc, RollbackGens(p) \/ RollbackSource(p)
    PROVE  IInv'
<1>0. /\ pc[p] = "rollback" /\ SnapshotHeld /\ UNCHANGED <<j, desc, pc, ctx, fault>>
      /\ LifeUnchanged /\ WriterUnchanged /\ KeepLocks
  BY DEF RollbackGens, RollbackSource
<1>1. ctx' \in [src : BOOLEAN, gen : BOOLEAN, err : BOOLEAN]
  BY <1>0, Typed
<1>2. StageOK(p)'
  BY <1>0, AtRollback DEF StageOK
<1>3. j.phase \in Staged => snap
  BY <1>0, AtRollback DEF PhaseInv
<1>4. CASE RollbackGens(p)
  <2>1. UndoExchange(j.from)
    BY <1>4 DEF RollbackGens
  <2>2. DiskTypeOK' /\ UNCHANGED <<src, snap>> /\ ClosedInv'
    BY <1>0, <2>1, AtRollback, GenerationBack DEF LifeUnchanged
  <2>3. PhaseInv'
    BY <1>0, <2>2, AtRollback DEF PhaseInv, SnapshotHeld
  <2>4. QED
    BY <1>0, <1>1, <1>2, <2>2, <2>3, AtRollback, DiskStep
<1>5. CASE RollbackSource(p)
  <2>1. WriteSource(j.from)
    BY <1>5 DEF RollbackSource
  <2>2. DiskTypeOK' /\ src' \in {j.from, Mixed} /\ UNCHANGED <<gen, receipt, snap>>
    BY <2>1, SourceMoves
  <2>3. ClosedInv'
    BY <1>0, <2>2, AtRollback DEF ClosedInv, LifeUnchanged
  <2>4. PhaseInv'
    BY <1>0, <2>2, AtRollback DEF PhaseInv, SnapshotHeld
  <2>5. QED
    BY <1>0, <1>1, <1>2, <2>2, <2>3, <2>4, AtRollback, DiskStep
<1>6. QED
  BY <1>4, <1>5

LEMMA RollbackEndsStep ==
    ASSUME IInv, NEW p \in Proc, RollbackEnds(p)
    PROVE  IInv'
<1>0. /\ pc[p] = "rollback" /\ Releases(p) /\ Goes(p, IF j'.state = "OPEN" THEN "up" ELSE "hold")
      /\ UNCHANGED <<diskVars, desc, ctx>> /\ LifeUnchanged /\ WriterUnchanged
  BY DEF RollbackEnds
<1>1. JournalInv' /\ j' \in JournalType /\ j'.owner = None /\ fault' \in BOOLEAN
  <2>1. CASE SnapshotHeld /\ GensBack /\ src = j.from /\ j' = Reset(j) /\ UNCHANGED fault
    <3>1. AllAt(j.from)
      BY <1>0, <2>1, AtRollback DEF GensBack, ClosedInv, AllAt
    <3>2. QED
      BY <1>0, <2>1, <3>1, AtRollback, Typed, Undone DEF LifeUnchanged
  <2>2. CASE SnapshotHeld /\ j' = ReopenOrManual(j) /\ fault' = TRUE
    BY <1>0, <2>2, AtRollback, ExitOrManual DEF LifeUnchanged
  <2>3. CASE ~SnapshotHeld /\ j' = ReopenOrManual(j) /\ UNCHANGED fault
    <3>1. fault \/ (j.phase = "INSTALLING" /\ ~snap /\ src # Mixed /\ ~receipt.filed)
      BY <1>0, <2>3, AtRollback DEF PhaseInv, SnapshotHeld, Forward, Staged
    <3>2. ~receipt.filed => AllAt(j.from) /\ receipt.steps = {} /\ j.tx # None
      BY <1>0, AtRollback DEF ClosedInv, AllAt
    <3>3. fault' \/ (~Eligible => Identical # {} /\ j.phase = "INSTALLING" /\ ~snap)
      BY <2>3, <3>1, <3>2 DEF Eligible, GensProven
    <3>4. QED
      BY <1>0, <2>3, <3>3, AtRollback, Typed, ExitOrManual DEF LifeUnchanged
  <2>4. QED
    BY <2>1, <2>2, <2>3 DEF RollbackEnds
<1>2. PICK x \in {"up", "hold"} : Goes(p, x)
  BY <1>0
<1>3. x \in Points \ Admits
  BY DEF Points, Loaded, Admits, Works, Owners
<1>4. QED
  BY <1>0, <1>1, <1>2, <1>3, AtRollback, EndStep

(* A person acts with both locks free, so nobody is at work.                *)
LEMMA DoctorStep ==
    ASSUME IInv, LocksFree, UNCHANGED <<desc, pc, ctx, fault>>, LifeUnchanged, WriterUnchanged, KeepLocks,
           DiskTypeOK', j' \in JournalType, j'.owner \in {j.owner, None}, JournalInv'
    PROVE  IInv'
<1>1. TypeOK'
  BY DEF IInv, TypeOK, LifeUnchanged, WriterUnchanged, KeepLocks
<1>2. WriterInv'
  BY WritersKept DEF LocksFree
<1>3. ASSUME NEW q \in Proc PROVE LockOK(q)' /\ StageOK(q)'
  <2>1. pc'[q] \notin Admits /\ j'.owner # q
    BY NobodyWorks, Constants DEF LocksFree
  <2>2. QED
    BY <2>1 DEF LockOK, StageOK, Admits, Works, Owners
<1>4. QED
  BY <1>1, <1>2, <1>3 DEF IInv, LockInv, StageInv

LEMMA DoctorSteps ==
    ASSUME IInv, DoctorReopen \/ DoctorSourceRollback
    PROVE  IInv'
<1>0. /\ LocksFree /\ UNCHANGED <<desc, pc, ctx, fault>> /\ LifeUnchanged /\ WriterUnchanged /\ KeepLocks
      /\ j \in JournalType /\ DiskTypeOK
  BY Typed DEF DoctorReopen, DoctorSourceRollback
<1>1. CASE DoctorReopen
  <2>1. ~Quiet /\ Eligible /\ j' = Reopened(j) /\ UNCHANGED diskVars
    BY <1>1 DEF DoctorReopen
  <2>2. JournalInv' /\ j' \in JournalType /\ j'.owner = None
    BY <1>0, <2>1, ToExit, Rows DEF LifeUnchanged
  <2>3. DiskTypeOK'
    BY <1>0, <2>1 DEF DiskTypeOK, diskVars
  <2>4. QED
    BY <1>0, <2>2, <2>3, DoctorStep
<1>2. CASE DoctorSourceRollback
  <2>0. /\ j.state = "OPEN" /\ j.degraded /\ UNCHANGED <<gen, receipt, snap>>
    BY <1>2 DEF DoctorSourceRollback
  <2>1. /\ j.owner = None /\ j.tx # None /\ j.to = j.from + 1 /\ j.to <= updates
        /\ AllAt(j.from) /\ src \in {j.from, j.to, Mixed}
    BY <2>0 DEF IInv, JournalInv, OpenInv
  <2>2. j.from \in Version /\ j.from \in 0..updates
    BY <1>0, <2>1, Typed, Constants DEF JournalType
  <2>3. CASE src' = j.from /\ j' = [Reset(j) EXCEPT !.degraded = FALSE]
    <3>1. j' \in JournalType /\ j'.state = "OPEN" /\ j'.owner = None /\ ~j'.degraded
      <4>1. Reset(j) \in JournalType /\ Reset(j).state = "OPEN" /\ Reset(j).owner = None
        BY <1>0, Rows
      <4>2. QED
        BY <2>3, <4>1 DEF JournalType
    <3>2. JournalInv'
      BY <1>0, <2>0, <2>1, <2>2, <2>3, <3>1, ToOpen DEF AllAt, LifeUnchanged
    <3>3. DiskTypeOK'
      BY <1>0, <2>0, <2>2, <2>3 DEF DiskTypeOK
    <3>4. QED
      BY <1>0, <3>1, <3>2, <3>3, DoctorStep
  <2>4. CASE src' \in {src, Mixed} /\ UNCHANGED j
    <3>1. JournalInv'
      BY <1>0, <2>0, <2>1, <2>4 DEF JournalInv, OpenInv, ClosedInv, PhaseInv, CrashAloneNeverManual, AllAt, LifeUnchanged
    <3>2. DiskTypeOK'
      BY <1>0, <2>0, <2>4 DEF DiskTypeOK
    <3>3. QED
      BY <1>0, <2>4, <3>1, <3>2, DoctorStep
  <2>5. QED
    BY <1>2, <2>3, <2>4 DEF DoctorSourceRollback
<1>3. QED
  BY <1>1, <1>2

-----------------------------------------------------------------------------
LEMMA NextIInv == IInv /\ [Next]_vars => IInv'
<1> SUFFICES ASSUME IInv, [Next]_vars PROVE IInv'
  OBVIOUS
<1>1. ASSUME NEW p \in Proc, Writers(p) \/ Attaches(p) \/ Begin(p) \/ Updating(p) \/ Booting(p) \/ Crash(p)
      PROVE  IInv'
  <2>1. CASE Writers(p)
    BY <2>1, WriterSteps
  <2>2. CASE Attaches(p) \/ Begin(p)
    BY <2>2, AttachSteps
  <2>3. CASE Updating(p)
    BY <2>3, AttachSteps, BeginCloseStep, BeginUpdatingStep, ActPhaseStep, ActSourceStep, ActSnapshotStep,
       ActReceiptStep, ActExchangeStep, ActDescriptorStep, ActFailsStep, DeathSteps, UndoSteps, UndoExitStep
       DEF Updating
  <2>4. CASE Booting(p)
    BY <2>4, AttachSteps, ClaimStep, ClaimedEndsStep, RecoverStep, RollbackSteps, RollbackEndsStep DEF Booting
  <2>5. CASE Crash(p)
    BY <2>5, DeathSteps
  <2>6. QED
    BY <1>1, <2>1, <2>2, <2>3, <2>4, <2>5
<1>2. CASE DoctorReopen \/ DoctorSourceRollback
  BY <1>2, DoctorSteps
<1>3. CASE UNCHANGED vars
  <2>1. TypeOK' /\ WriterInv'
    BY <1>3 DEF IInv, TypeOK, DiskTypeOK, WriterInv, vars, diskVars
  <2>2. LockInv' /\ StageInv'
    BY <1>3, PlaceKept DEF LockInv, StageInv, vars
  <2>3. QED
    BY <1>3, <2>1, <2>2, JournalKept DEF IInv, vars
<1>4. QED
  BY <1>1, <1>2, <1>3 DEF Next

(* The invariant of the gate holds in every reachable state.                *)
THEOREM GateInvariant == Spec => []IInv
BY InitIInv, NextIInv, PTL DEF Spec

(* Every variable keeps its type, and a living owner of the journal is at   *)
(* work on it with both locks: the gate never stays closed under an owner   *)
(* that is alive and has gone back to serving.                              *)
THEOREM OwnerIsAtWork == Spec => []Consistent
<1>1. IInv => Consistent
  BY DEF IInv, Consistent, LockInv, LockOK, Admits, Works, Owners
<1>2. QED
  BY <1>1, GateInvariant, PTL

(* "Lock, then close": no writer is inside while an update, a recovery or   *)
(* an attach runs, however many leases nest and whoever dies holding one.   *)
THEOREM WritersAreOutside == Spec => []WritersSeeOpenGate
<1>1. IInv => WritersSeeOpenGate
  BY DEF IInv, WriterInv, WritersSeeOpenGate
<1>2. QED
  BY <1>1, GateInvariant, PTL

(* An open gate shows one whole version of the source and the generations;  *)
(* a degraded one the previous generations, with its way out.               *)
THEOREM OpenGateIsWhole == Spec => []OpenIsWhole
<1>1. IInv => OpenIsWhole
  <2> SUFFICES ASSUME IInv PROVE OpenIsWhole
    OBVIOUS
  <2>1. Quiet => src \in 0..updates /\ AllAt(src)
    BY DEF IInv, JournalInv, OpenInv, Quiet
  <2>2. 0..updates \subseteq Version
    BY Typed, Constants DEF Version
  <2>3. QED
    BY <2>1, <2>2 DEF OpenIsWhole, IInv, JournalInv, OpenInv
<1>2. QED
  BY <1>1, GateInvariant, PTL

(* Crashes alone never end in a person's hands before the handoff, but in   *)
(* the one window between the source and the snapshot.                      *)
THEOREM KilledUpdaterRecovers == Spec => []CrashAloneNeverManual
<1>1. IInv => CrashAloneNeverManual
  BY DEF IInv, JournalInv
<1>2. QED
  BY <1>1, GateInvariant, PTL

(* The steps that open a closed gate all look for a database that was not   *)
(* handed off, but for the process that claimed the handoff.                *)
LEMMA ReopenStep ==
    ASSUME IInv, Next, j.state # "OPEN", j.unknown, j'.state = "OPEN"
    PROVE  \E p \in Proc : ClaimedEnds(p)
<1>0. /\ j \in JournalType /\ ClosedInv /\ PhaseInv
      /\ (j.phase \in Handed \/ j.state = "MANUAL") /\ j.state \notin {"DRAINING", "RECOVERING"}
  <2>1. j \in JournalType /\ ClosedInv /\ PhaseInv
    BY Typed DEF IInv, JournalInv
  <2>2. QED
    BY <2>1 DEF PhaseInv, JournalType, Handed
<1>1. \A row \in {j} : Manual(row).state = "MANUAL"
  BY <1>0, Rows
<1>2. ~Eligible
  <2>1. AllAt(j.to) /\ j.to = j.from + 1 /\ j.from \in Nat
    BY <1>0, Constants DEF ClosedInv, JournalType
  <2>2. QED
    BY <2>1, Constants DEF Eligible, GensProven, AllAt
<1>3. PICK p \in Proc : Writers(p) \/ Attaches(p) \/ Begin(p) \/ Updating(p) \/ Booting(p) \/ Crash(p)
  <2>1. ~DoctorReopen /\ ~DoctorSourceRollback
    BY <1>2 DEF DoctorReopen, DoctorSourceRollback
  <2>2. QED
    BY <2>1 DEF Next
<1>4. ~(Writers(p) \/ Attaches(p) \/ Begin(p))
  BY DEF Writers, Admit, AdmitActivity, AdmitAborted, Retain, ReleaseWriter,
         Attaches, Attach, AttachActivity, Detach, Begin
<1>5. ~Crash(p)
  BY <1>0 DEF Crash, JournalType
<1>6. ~Updating(p)
  <2>1. StageOK(p)
    BY DEF IInv, StageInv
  <2>2. ~(BeginContended(p) \/ BeginClose(p) \/ BeginUpdating(p))
    BY <1>0, <2>1 DEF BeginContended, BeginClose, BeginUpdating, StageOK, Quiet
  <2>3. ~(ActPhase(p) \/ HandoffExit(p))
    BY <1>0 DEF ActPhase, HandoffExit, JournalType
  <2>4. ~(ActSource(p) \/ ActSnapshot(p) \/ ActReceipt(p) \/ ActExchange(p) \/ ActDescriptor(p))
    BY DEF ActSource, ActSnapshot, ActReceipt, ActExchange, ActDescriptor
  <2>5. ~ActFails(p)
    BY <1>0, <1>1 DEF ActFails, DeclaredManual, JournalType
  <2>6. pc[p] # "undo"
    BY AtUndo
  <2>7. QED
    BY <2>2, <2>3, <2>4, <2>5, <2>6 DEF Updating, UndoGens, UndoGensEnds, UndoSource, UndoSourceEnds, UndoExit
<1>7. Booting(p) => ClaimedEnds(p)
  <2>1. ~(Start(p) \/ RecoverContended(p) \/ Poll(p))
    BY DEF Start, RecoverContended, Poll
  <2>2. ~Claim(p)
    BY <1>0, <1>1 DEF Claim, JournalType
  <2>3. ~Recover(p)
    BY <1>0, <1>1 DEF Recover, PastHandoff
  <2>4. pc[p] # "rollback"
    BY AtRollback
  <2>5. QED
    BY <2>1, <2>2, <2>3, <2>4 DEF Booting, RollbackGens, RollbackSource, RollbackEnds
<1>8. QED
  BY <1>3, <1>4, <1>5, <1>6, <1>7

(* Past the handoff the database may have been migrated: only the process   *)
(* that claimed it, and found every new generation in place, reopens.       *)
THEOREM HandoffIsNotReopened == Spec => NoReopenPastHandoff
<1> DEFINE Act == (j.state # "OPEN" /\ j.unknown /\ j'.state = "OPEN")
                     => /\ j.phase = "BOOTSTRAP_CLAIMED" /\ j.owner \in Proc
                        /\ AllAt(j.to) /\ src = j.to
<1>1. IInv /\ [Next]_vars => [Act]_vars
  <2> SUFFICES ASSUME IInv, Next, j.state # "OPEN", j.unknown, j'.state = "OPEN"
               PROVE  /\ j.phase = "BOOTSTRAP_CLAIMED" /\ j.owner \in Proc
                      /\ AllAt(j.to) /\ src = j.to
    BY DEF vars
  <2>1. PICK p \in Proc : ClaimedEnds(p)
    BY ReopenStep
  <2>2. pc[p] = "claimed" /\ pc[p] \in Works /\ pc[p] \in Owners
    BY <2>1 DEF ClaimedEnds, Works, Owners
  <2>3. j.phase = "BOOTSTRAP_CLAIMED" /\ j.owner = p
    BY <2>2, AtWork DEF StageOK
  <2>4. AllAt(j.to) /\ src = j.to
    BY DEF IInv, JournalInv, ClosedInv
  <2>5. QED
    BY <2>3, <2>4
<1>2. QED
  BY <1>1, GateInvariant, PTL DEF Spec, NoReopenPastHandoff
===============================================================================
