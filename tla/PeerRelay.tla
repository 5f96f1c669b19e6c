------------------------------ MODULE PeerRelay ------------------------------
(***************************************************************************)
(* Relay of messages between sessions.  A sent message is a durable row; a *)
(* dispatcher delivers it by a resume turn of the target session, one row  *)
(* per target at a time and in order, only while nobody runs there.  The   *)
(* proof of a delivery is the line the target's CLI appends to its         *)
(* transcript, looked for past the size recorded at the claim; a boot      *)
(* repairs the rows a dead process left `delivering` from the ledger or    *)
(* the proof.  Runs are known only to the process that owns them, and a    *)
(* process that drains may still deliver while its successor boots.        *)
(* Source: server/modules/peer-relay/peer-dispatcher.ts,                   *)
(* peer-turn-runner.ts, database/repositories/peer-messages.db.ts.         *)
(***************************************************************************)
EXTENDS Integers, FiniteSets, Sequences

CONSTANTS NumRows,      \* messages, numbered in the order of their random ids
          Session,      \* target sessions
          NumProcs,     \* processes that may be alive together
          None, Human, \* no run, and the run of a person
          Batch,        \* BATCH, rows of one pass
          MaxAttempts,  \* MAX_ATTEMPTS
          MaxBoots,     \* bound on boots after the first
          MaxHumans,    \* bound on turns started by people
          Faults        \* which I/O failures happen

ASSUME RelayAssumption ==
    /\ NumRows \in Nat /\ NumProcs \in Nat \ {0} /\ Batch \in Nat \ {0}
    /\ MaxAttempts \in Nat \ {0} /\ MaxBoots \in Nat /\ MaxHumans \in Nat
    /\ Faults \subseteq {"ledger", "orphan"}

Row     == 1..NumRows
Proc    == 1..NumProcs
Handler == Proc \X Row   \* deliverPeerRow calls

VARIABLES state, to, at, attempts, offset,  \* the peer_messages rows; at: created_at, in ms
          wait,                 \* rows whose next_attempt_at is in the future
          ledger,               \* rows the delivery ledger holds
          transcript,           \* proof lines of each session, in file order
          proc,                 \* each process's dispatcher
          pass,                 \* handlers the running pass still waits for
          job,                  \* where each handler is
          run,                  \* active runs, as each process knows them
          orphans,              \* messages read late by the CLI of a dead process
          boots, humans,        \* counters of the bounds
          chances,              \* turns that could have delivered the row
          disturbed,            \* rows taken over while somebody still held them
          exposed               \* rows claimed during a drain, or whose ledger write failed

rowVars == <<state, to, at, attempts, offset, wait>>
envVars == <<orphans, boots, humans>>
vars == <<rowVars, ledger, transcript, proc, pass, job, run, envVars,
          chances, disturbed, exposed>>

Open     == {"queued", "deferred"}
Finished == {"delivered", "failed", "refused"}
Free     == [pc |-> "free", from |-> "queued", off |-> 0, tries |-> 0]
P(h) == h[1]
R(h) == h[2]
To(h) == to[R(h)]

Init == /\ state = [r \in Row |-> "none"] /\ to = [r \in Row |-> None] /\ at = [r \in Row |-> 0]
        /\ attempts = [r \in Row |-> 0] /\ offset = [r \in Row |-> 0] /\ wait = {} /\ ledger = {}
        /\ transcript = [s \in Session |-> <<>>]
        /\ proc = [p \in Proc |-> IF p = 1 THEN "up" ELSE "off"]
        /\ pass = [p \in Proc |-> {}] /\ job = [h \in Handler |-> Free]
        /\ run = [p \in Proc |-> [s \in Session |-> None]]
        /\ orphans = {} /\ boots = 0 /\ humans = 0
        /\ chances = [r \in Row |-> 0] /\ disturbed = {} /\ exposed = {}

(* What a handler does to its own record; finishing also leaves the pass. *)
Goes(h, x) == job' = [job EXCEPT ![h].pc = x] /\ UNCHANGED pass
\* Mutant: a pass is never over
FinishesInPass(h) == job' = [job EXCEPT ![h] = Free] /\ UNCHANGED pass

Finishes(h) == job' = [job EXCEPT ![h] = Free]
               /\ pass' = [pass EXCEPT ![P(h)] = @ \ {h}]
(* Promise.all rejects: the pass is over although other handlers still run. *)
Throws(h) == job' = [job EXCEPT ![h] = Free] /\ pass' = [pass EXCEPT ![P(h)] = {}]

\* Mutant: a busy refusal is not refunded
MovesUnrefunded(r, from, target, waiting, refund) ==
    IF state[r] = from
    THEN /\ state' = [state EXCEPT ![r] = target]
         /\ wait' = IF waiting THEN wait \cup {r} ELSE wait \ {r}
         /\ UNCHANGED <<to, at, offset, attempts>>
    ELSE UNCHANGED rowVars

(* peerMessagesDb.transition: a compare-and-set on the state alone. *)
Moves(r, from, target, waiting, refund) ==
    IF state[r] = from
    THEN /\ state' = [state EXCEPT ![r] = target]
         /\ attempts' = [attempts EXCEPT ![r] = IF refund /\ @ > 0 THEN @ - 1 ELSE @]
         /\ wait' = IF waiting THEN wait \cup {r} ELSE wait \ {r}
         /\ UNCHANGED <<to, at, offset>>
    ELSE UNCHANGED rowVars

---------------------------------------------------------------------------
Sent == {r \in Row : state[r] # "none"}

(* Intake: a row of a live server, queued even while it drains.  Its id is   *)
(* random: any among those of its millisecond.  Of created_at only order and *)
(* equality are read, and ids of two milliseconds are never compared, so the *)
(* clock moves by one at most and ids grow with it; it does not go back.     *)
Now == {t \in {0} \cup UNION {{at[q], at[q] + 1} : q \in Sent} : \A q \in Sent : at[q] <= t}

Send(r, s) ==
    /\ r \notin Sent /\ \E p \in Proc : proc[p] # "off"
    /\ state' = [state EXCEPT ![r] = "queued"] /\ to' = [to EXCEPT ![r] = s]
    /\ \E t \in Now : at' = [at EXCEPT ![r] = t] /\ \A q \in Sent : at[q] < t => q < r
    /\ UNCHANGED <<attempts, offset, wait, ledger, transcript, proc, pass, job, run,
                   envVars, chances, disturbed, exposed>>

BackoffElapses(r) ==
    /\ r \in wait /\ wait' = wait \ {r}
    /\ UNCHANGED <<state, to, at, attempts, offset, ledger, transcript, proc, pass, job, run,
                   envVars, chances, disturbed, exposed>>

(* The turn of a person registers (addSession), several awaits after its run *)
(* guard and without a second look: the guard may have passed as early as    *)
(* the boot, and the registration writes over whoever came in between.       *)
HumanStarts(p, s) ==
    /\ proc[p] # "off" /\ humans < MaxHumans
    /\ run' = [run EXCEPT ![p][s] = Human] /\ humans' = humans + 1
    /\ UNCHANGED <<rowVars, ledger, transcript, proc, pass, job, orphans, boots,
                   chances, disturbed, exposed>>

HumanEnds(p, s) ==
    /\ run[p][s] = Human
    /\ run' = [run EXCEPT ![p][s] = None]
    /\ UNCHANGED <<rowVars, ledger, transcript, proc, pass, job, envVars, chances, disturbed, exposed>>

---------------------------------------------------------------------------
(* ORDER BY created_at, id, among the rows of one target.                   *)
Before(q, r) == to[q] = to[r] /\ (at[q] < at[r] \/ (at[q] = at[r] /\ q < r))

\* Mutant: finished rows are listed again
OldestUnclaimed(r) == /\ state[r] \notin {"none", "delivering"}
                      /\ \A q \in Row : Before(q, r) => state[q] \notin Open

(* listDeliverable: the oldest open row of each target that has none in     *)
(* delivery, if its time has come.                                          *)
Oldest(r) == /\ state[r] \in Open
             /\ \A q \in Row : Before(q, r) => state[q] \notin Open
\* Mutant: a target with a row in delivery is listed
DeliverableBesideAnother == {r \in Row : Oldest(r) /\ r \notin wait}

Deliverable == {r \in Row : /\ Oldest(r) /\ r \notin wait
                            /\ \A d \in Row : to[d] = to[r] => state[d] # "delivering"}

(* ORDER BY created_at LIMIT: which of several rows of one millisecond fit   *)
(* is not said.                                                              *)
Listed == {l \in SUBSET Deliverable : /\ Cardinality(l) <= Batch
                                      /\ \A q \in Deliverable \ l :
                                            /\ Cardinality(l) = Batch
                                            /\ \A r \in l : at[r] <= at[q]}

(* tick/pass: one handler per listed row whose target is idle; the others   *)
(* leave at the first gate without an await.                                *)
Tick(p) ==
    /\ proc[p] = "up" /\ pass[p] = {}
    /\ \E l \in Listed :
       LET calls == {<<p, r>> : r \in {q \in l : run[p][to[q]] = None}}
       IN /\ calls # {} /\ \A h \in calls : job[h].pc = "free"
          /\ job' = [h \in Handler |-> IF h \in calls
                        THEN [Free EXCEPT !.pc = "gate", !.from = state[R(h)]] ELSE job[h]]
          /\ pass' = [pass EXCEPT ![p] = calls]
    /\ UNCHANGED <<rowVars, ledger, transcript, proc, run, envVars, chances, disturbed, exposed>>

(* gate() says no: version unreadable; unverified CLI, mode changed; no      *)
(* transcript; quota.  The state it moves from is the one that was listed.  *)
GateStops(h) ==
    /\ job[h].pc = "gate"
    /\ \/ UNCHANGED rowVars
       \/ \E verdict \in {"refused", "failed"} : Moves(R(h), job[h].from, verdict, FALSE, FALSE)
       \/ Moves(R(h), job[h].from, "deferred", TRUE, FALSE)
    /\ Finishes(h)
    /\ UNCHANGED <<ledger, transcript, proc, run, envVars, chances, disturbed, exposed>>

(* peerMessagesDb.claim, once it has won. *)
Takes(h) ==
    /\ state' = [state EXCEPT ![R(h)] = "delivering"]
    /\ attempts' = [attempts EXCEPT ![R(h)] = @ + 1]
    /\ offset' = [offset EXCEPT ![R(h)] = Len(transcript[To(h)])]
    /\ job' = [job EXCEPT ![h].pc = "dispatch", ![h].tries = attempts'[R(h)],
                          ![h].off = offset'[R(h)]]
    /\ exposed' = IF proc[P(h)] = "paused" THEN exposed \cup {R(h)} ELSE exposed
    /\ UNCHANGED <<to, at, wait, pass>>

Idle(h) == run[P(h)][To(h)] = None

\* Mutant: a claim without its compare-and-set
CanTakeUnchecked(h) == Idle(h)

CanTake(h) == Idle(h) /\ state[R(h)] \in Open

(* gate() says yes and the cost baseline is read: after those awaits a       *)
(* second look at the target, then the claim, whose compare-and-set one      *)
(* handler wins.                                                             *)
Claim(h) ==
    /\ job[h].pc = "gate"
    /\ IF CanTake(h) THEN Takes(h) ELSE Finishes(h) /\ UNCHANGED <<rowVars, exposed>>
    /\ UNCHANGED <<ledger, transcript, proc, run, envVars, chances, disturbed>>

---------------------------------------------------------------------------
(* isProven: the message's line, past the offset of the claim. *)
Proven(r, off) == \E i \in DOMAIN transcript[to[r]] : i > off /\ transcript[to[r]][i] = r

(* settle() follows the end of the turn without another await, up to the     *)
(* ledger; an unproven message goes back to the queue or is given up.        *)
Commits(h) ==
    /\ Proven(R(h), job[h].off)
    /\ \/ ledger' = ledger \cup {R(h)} /\ Goes(h, "charge")
          /\ UNCHANGED exposed
       \/ "ledger" \in Faults /\ UNCHANGED ledger /\ Throws(h)
          /\ exposed' = exposed \cup {R(h)}
    /\ UNCHANGED rowVars

GivesBack(h, outcome) ==
    /\ IF outcome = "busy" THEN Moves(R(h), "delivering", "queued", TRUE, TRUE)
       ELSE IF outcome = "permanent" \/ job[h].tries >= MaxAttempts
            THEN Moves(R(h), "delivering", "failed", FALSE, FALSE)
            ELSE Moves(R(h), "delivering", "queued", TRUE, FALSE)
    /\ Finishes(h) /\ UNCHANGED <<ledger, exposed>>

Settle(h, outcome) ==
    \/ Commits(h)
    \/ ~Proven(R(h), job[h].off) /\ GivesBack(h, outcome)

(* runTurn up to the registration of its run, before and after the run       *)
(* guard: it may fail, for good or not.                                      *)
TurnFails(h) ==
    /\ job[h].pc \in {"dispatch", "starting"}
    /\ \E outcome \in {"permanent", "ended"} : Settle(h, outcome)
    /\ chances' = [chances EXCEPT ![R(h)] = @ + 1]
    /\ UNCHANGED <<transcript, proc, run, envVars, disturbed>>

(* The guard answers session_busy when somebody runs the session.            *)
TurnIsBusy(h) ==
    /\ job[h].pc = "dispatch" /\ ~Idle(h) /\ Settle(h, "busy")
    /\ UNCHANGED <<transcript, proc, run, envVars, chances, disturbed>>

(* It lets the turn pass when nobody does, or a person whom nobody watches.  *)
TurnPasses(h) ==
    /\ job[h].pc = "dispatch" /\ run[P(h)][To(h)] \in {None, Human} /\ Goes(h, "starting")
    /\ UNCHANGED <<rowVars, ledger, transcript, proc, run, envVars, chances, disturbed, exposed>>

(* The delivery is consumed and its run registered, over any other.          *)
TurnStarts(h) ==
    /\ job[h].pc = "starting" /\ Goes(h, "turn")
    /\ run' = [run EXCEPT ![P(h)][To(h)] = h]
    /\ chances' = [chances EXCEPT ![R(h)] = @ + 1]
    /\ UNCHANGED <<rowVars, ledger, transcript, proc, envVars, disturbed, exposed>>

(* The CLI takes the message and writes its line. *)
CliReads(h) ==
    /\ job[h].pc = "turn" /\ Goes(h, "read")
    /\ transcript' = [transcript EXCEPT ![To(h)] = Append(@, R(h))]
    /\ UNCHANGED <<rowVars, ledger, proc, run, envVars, chances, disturbed, exposed>>

(* The turn is over, by itself, at its cap, or stopped by a person; it takes *)
(* back only its own registration (removeSession with its token).            *)
TurnEnds(h) ==
    /\ job[h].pc \in {"turn", "read"} /\ Settle(h, "ended")
    /\ run' = [run EXCEPT ![P(h)][To(h)] = IF @ = h THEN None ELSE @]
    /\ UNCHANGED <<transcript, proc, envVars, chances, disturbed>>

(* The charge is measured after the ledger and before the row. *)
Charge(h) ==
    /\ job[h].pc = "charge"
    /\ Moves(R(h), "delivering", "delivered", FALSE, FALSE) /\ Finishes(h)
    /\ UNCHANGED <<ledger, transcript, proc, run, envVars, chances, disturbed, exposed>>

---------------------------------------------------------------------------
(* A drain stops the passes, not the handlers already past their start. *)
Pause(p) ==
    /\ proc[p] = "up" /\ boots < MaxBoots
    /\ proc' = [proc EXCEPT ![p] = "paused"]
    /\ UNCHANGED <<rowVars, ledger, transcript, pass, job, run, envVars, chances, disturbed, exposed>>

Drained(p) == \A s \in Session : run[p][s] = None
Mine(p) == {h \in Handler : P(h) = p /\ job[h].pc # "free"}

(* A process goes, by its drain or at any point; the CLI of a turn in       *)
(* progress may outlive it and still take the message it was given.         *)
Dies(p) ==
    /\ proc' = [proc EXCEPT ![p] = "off"]
    /\ pass' = [pass EXCEPT ![p] = {}]
    /\ job' = [h \in Handler |-> IF P(h) = p THEN Free ELSE job[h]]
    /\ run' = [run EXCEPT ![p] = [s \in Session |-> None]]
    /\ LET held == {R(h) : h \in {g \in Mine(p) : job[g].pc = "turn"}}
       IN \E o \in SUBSET held : (o # {} => "orphan" \in Faults) /\ orphans' = orphans \cup o
    /\ chances' = [r \in Row |-> chances[r] + Cardinality({h \in Mine(p) :
                     R(h) = r /\ job[h].pc \in {"dispatch", "starting"}})]
    /\ UNCHANGED <<rowVars, ledger, transcript, boots, humans, disturbed, exposed>>

Exit(p)  == proc[p] = "paused" /\ Drained(p) /\ Dies(p)
Crash(p) == /\ proc[p] # "off" /\ Dies(p)
            /\ boots < MaxBoots \/ \E q \in Proc \ {p} : proc[q] = "up"

OrphanReads(r) ==
    /\ r \in orphans /\ orphans' = orphans \ {r}
    /\ transcript' = [transcript EXCEPT ![to[r]] = Append(@, r)]
    /\ UNCHANGED <<rowVars, ledger, proc, pass, job, run, boots, humans, chances, disturbed, exposed>>

(* repairAll at start(), before the first pass and before the port is bound: *)
(* a row left `delivering` is settled from the ledger or its proof, or       *)
(* returned to the queue without its attempt back.                           *)
\* Mutant: a turn that started is taken for a delivery
RepairedIfStarted(r) == chances[r] > 0

Repaired(r) == r \in ledger \/ Proven(r, offset[r])
HeldElsewhere(r) == r \in orphans \/ \E h \in Handler :
                        R(h) = r /\ job[h].pc \in {"dispatch", "starting", "turn", "read"}

Boot(p) ==
    LET left == {r \in Row : state[r] = "delivering"} IN
    /\ \A q \in Proc : proc[q] # "up"
    /\ proc[p] = "off" /\ boots < MaxBoots /\ boots' = boots + 1
    /\ proc' = [proc EXCEPT ![p] = "up"]
    /\ state' = [r \in Row |-> IF r \notin left THEN state[r]
                                ELSE IF Repaired(r) THEN "delivered" ELSE "queued"]
    /\ ledger' = ledger \cup {r \in left : Repaired(r)}
    /\ wait' = wait \ left
    /\ disturbed' = disturbed \cup {r \in left : ~Repaired(r) /\ HeldElsewhere(r)}
    /\ exposed' = {}
    /\ UNCHANGED <<to, at, attempts, offset, transcript, pass, job, run, orphans, humans, chances>>

---------------------------------------------------------------------------
Next ==
    \/ \E r \in Row : \/ \E s \in Session : Send(r, s)
                     \/ BackoffElapses(r) \/ OrphanReads(r)
    \/ \E p \in Proc : \/ Tick(p) \/ Pause(p) \/ Exit(p) \/ Crash(p) \/ Boot(p)
                      \/ \E s \in Session : HumanStarts(p, s) \/ HumanEnds(p, s)
    \/ \E h \in Handler : \/ GateStops(h) \/ Claim(h) \/ TurnFails(h) \/ TurnIsBusy(h)
                         \/ TurnPasses(h) \/ TurnStarts(h) \/ CliReads(h) \/ TurnEnds(h) \/ Charge(h)

(* A claimed delivery goes on to its end: each of these leads to the next. *)
Proceeds(h) == TurnIsBusy(h) \/ TurnPasses(h) \/ TurnStarts(h) \/ TurnEnds(h) \/ Charge(h)

(* The timer fires, turns end (the wall-clock cap), people leave, a drained  *)
(* process exits and pm2 starts the next; the quota and the version of the   *)
(* CLI are good again and again.                                             *)
Fairness == /\ \A r \in Row : WF_vars(BackoffElapses(r))
            /\ \A p \in Proc : /\ WF_vars(Tick(p)) /\ WF_vars(Exit(p))
                               /\ \A s \in Session : WF_vars(HumanEnds(p, s))
            /\ WF_vars(\E p \in Proc : Boot(p))
            /\ \A h \in Handler : WF_vars(Proceeds(h))
            /\ \A r \in Row : SF_vars(\E p \in Proc : Claim(<<p, r>>))

Spec == Init /\ [][Next]_vars
FairSpec == Spec /\ Fairness

---------------------------------------------------------------------------
Handlers == [pc: {"free", "gate", "dispatch", "starting", "turn", "read", "charge"},
             from: Open, off: Nat, tries: Nat]

(* The ranges of the rows, the processes and the handlers. *)
TypeOK == /\ state \in [Row -> {"none", "delivering"} \cup Open \cup Finished]
          /\ to \in [Row -> Session \cup {None}] /\ at \in [Row -> Nat] /\ attempts \in [Row -> Nat]
          /\ offset \in [Row -> Nat] /\ wait \subseteq Row /\ ledger \subseteq Row
          /\ transcript \in [Session -> Seq(Row)]
          /\ proc \in [Proc -> {"off", "up", "paused"}]
          /\ pass \in [Proc -> SUBSET Handler] /\ job \in [Handler -> Handlers]
          /\ run \in [Proc -> [Session -> {None, Human} \cup Handler]]
          /\ orphans \subseteq Row /\ boots \in 0..MaxBoots /\ humans \in 0..MaxHumans
          /\ chances \in [Row -> Nat] /\ disturbed \subseteq Row /\ exposed \subseteq Row

Reads(r) == {i \in DOMAIN transcript[to[r]] : transcript[to[r]][i] = r}

(* Exactly-once: through crashes, repairs, retries and a ledger that cannot *)
(* be written, a target reads a message once at most, unless a boot took    *)
(* the row back while another process or an orphan still held it.           *)
ReadAtMostOnce == \A r \in Sent \ disturbed : Cardinality(Reads(r)) <= 1

(* A message the sender is told was delivered has its line in the target's  *)
(* transcript, whatever the turn reported and whoever repaired the row; one *)
(* still in the queue, or given up, was not read, and may be sent again.    *)
VerdictIsTrue ==
    /\ \A r \in Sent : state[r] = "delivered" => Reads(r) # {}
    /\ \A r \in Sent \ disturbed : state[r] \in Open \cup {"failed", "refused"} => Reads(r) = {}

(* Messages of one target are delivered in the order they were sent, to the *)
(* millisecond: none is claimed or read while one sent in an earlier        *)
(* millisecond is open or in delivery.  Those of one millisecond have the   *)
(* order of their random ids, which says nothing of their sending.          *)
InOrder == \A q, r \in Sent :
              at[q] < at[r] /\ to[q] = to[r] /\ state[r] \in {"delivering", "delivered"}
              => state[q] \in Finished

(* A message whose turn ran without reading it is given up only after       *)
(* MAX_ATTEMPTS claims whose turn could have delivered it or whose process  *)
(* died: being refused because a person runs the session spends nothing.    *)
GivenUpAfterTries ==
    [][\A h \in Handler :
          /\ job[h].pc \in {"turn", "read"} /\ job'[h].pc = "free"
          /\ state[R(h)] = "delivering" /\ state'[R(h)] = "failed"
          => chances[R(h)] >= MaxAttempts \/ R(h) \in disturbed']_vars

(* Again and again every message sent so far is delivered, refused or given  *)
(* up, through drains, crashes and people at work, but for a target closed   *)
(* behind a delivery no restart has repaired: its ledger entry could not be  *)
(* written, or a draining process claimed it after its successor's boot, and *)
(* died.                                                                     *)
Closed(s) == \E d \in exposed : to[d] = s /\ state[d] = "delivering"
Resolved == []<>(\A r \in Sent : state[r] \in Finished \/ Closed(to[r]))
===============================================================================
