---------------------------- MODULE SessionSteer ----------------------------
(***************************************************************************)
(* Steering a running turn.  A member's text is admitted to the run's own  *)
(* queue; the generator that feeds the CLI takes it from there; a `result` *)
(* of the CLI, or the end of the input, settles what was taken, and a look *)
(* at the transcript decides between delivered and unconfirmed.  Text of a *)
(* member who did not start the run taints it: from then on its tools need *)
(* the starter's word.  Admission is one synchronous handler, so a refused *)
(* request changes nothing but the audit log and is not an action here;    *)
(* an accepted one may come late (its images are stored first) and again.  *)
(* Source: server/modules/session-steer/, the run of server/claude-sdk.js. *)
(***************************************************************************)
EXTENDS Integers, FiniteSets, Sequences, SequencesExt

CONSTANTS Msg,          \* client message ids
          User, Starter, \* members who may write the session; who starts its runs
          None,
          MaxTurns,     \* bound on runs of the session
          QueueMax,     \* STEER_QUEUE_MAX
          PerTurnMax,   \* STEER_PER_TURN_MAX
          MaxOut        \* bound on CLI messages the loop has not read yet

ASSUME SteerAssumption ==
    /\ Starter \in User /\ None \notin Msg /\ None \notin User
    /\ MaxTurns \in Nat /\ QueueMax \in Nat \ {0} /\ PerTurnMax \in Nat \ {0}
    /\ MaxOut \in Nat \ {0}

VARIABLES ask,        \* what each message asks: its sender and the turn it names
          row,        \* delivery_status of its ingress row
          told,       \* the last steer event members saw of it
          transcript, \* steer lines of the transcript, each with the run that wrote it
          turn, running, listed, \* the current run, its loop, its entry in activeSessions
          closed, hook, accepted, tainted, queue, inFlight, \* the steer run
          gen,        \* the prompt generator: ready, parked or done
          stdin,      \* items taken for the CLI that it has not read
          confirming, \* items whose transcript is being looked at
          cli, out,   \* the CLI and the messages it has sent
          handling, timer, \* the message loop and its input-close timer
          lost        \* what a crash of the server forgot

durable == <<ask, row, told, transcript>>
steer == <<closed, hook, accepted, tainted, queue, inFlight>>
loop == <<handling, timer>>
program == <<cli, out>>
entry == <<turn, running, listed>>
vars == <<durable, entry, steer, gen, stdin, confirming, program, loop, lost>>

NoAsk   == [by |-> None, turn |-> 0]
Final   == {"delivered", "unconfirmed", "rejected"}
Pending == queue # <<>> \/ inFlight # {}

Init == /\ ask = [m \in Msg |-> NoAsk] /\ row = [m \in Msg |-> "none"]
        /\ told = [m \in Msg |-> "none"] /\ transcript = <<>>
        /\ turn = 0 /\ running = FALSE /\ listed = FALSE
        /\ closed = "input_closed" /\ hook = FALSE /\ accepted = 0 /\ tainted = FALSE
        /\ queue = <<>> /\ inFlight = {} /\ gen = "done" /\ stdin = <<>> /\ confirming = {}
        /\ cli = "off" /\ out = <<>>
        /\ handling = "none" /\ timer = "none" /\ lost = {}

---------------------------------------------------------------------------
Fresh == /\ queue' = <<>> /\ inFlight' = {} /\ stdin' = <<>> /\ out' = <<>>
         /\ handling' = "none" /\ timer' = "none"

Gone == /\ running' = FALSE /\ listed' = FALSE /\ gen' = "done" /\ cli' = "off" /\ Fresh
        /\ closed' = "input_closed" /\ hook' = FALSE /\ accepted' = 0 /\ tainted' = FALSE

(* The runner arms the steer run; the taint hook goes with it when the      *)
(* starter consents and the SDK takes hooks.                                *)
StartRun ==
    /\ ~running /\ turn < MaxTurns
    /\ turn' = turn + 1 /\ running' = TRUE /\ listed' = TRUE
    /\ closed' = "open" /\ hook' \in BOOLEAN /\ accepted' = 0 /\ tainted' = FALSE
    /\ gen' = "ready" /\ cli' = "working" /\ Fresh
    /\ UNCHANGED <<durable, confirming, lost>>

Ask(m, u) ==
    /\ ask[m] = NoAsk /\ listed
    /\ ask' = [ask EXCEPT ![m] = [by |-> u, turn |-> turn]]
    /\ UNCHANGED <<row, told, transcript, entry, steer, gen, stdin, confirming, program, loop, lost>>

\* Mutant: consent of the moment stands for the hook of the run's start
ArmedByConsent(m) == TRUE

Armed(m) == ask[m].by = Starter \/ hook

NamesThisRun(m) == listed /\ closed = "open" /\ ask[m].turn = turn

Capacity == accepted < PerTurnMax /\ Len(queue) < QueueMax

\* Mutant: only the run's memory knows the message
UnknownToTheRun(m) == m \notin inFlight \cup ToSet(queue)

Unknown(m) == row[m] = "none"

(* onQueued: a close that waits for a quiet run waits for the steer instead. *)
\* Mutant: the armed close stays
RearmedNever(t) == t

Rearmed(t) == IF t = "none" THEN "none" ELSE "hold"

Enqueue(m) ==
    /\ accepted' = accepted + 1 /\ tainted' = (tainted \/ ask[m].by # Starter)
    /\ told' = [told EXCEPT ![m] = "queued"]
    /\ IF gen = "parked"
       THEN /\ gen' = "ready" /\ inFlight' = inFlight \cup {m}
            /\ stdin' = Append(stdin, m) /\ UNCHANGED queue
       ELSE queue' = Append(queue, m) /\ UNCHANGED <<gen, inFlight, stdin>>
    /\ timer' = Rearmed(timer)
    /\ UNCHANGED <<closed, hook>>

(* handleSessionSteer and admit, for a request that passes; its audit record *)
(* may fail after its row is written.                                       *)
Admit(m) ==
    /\ ask[m] # NoAsk /\ NamesThisRun(m) /\ Armed(m) /\ Capacity /\ Unknown(m)
    /\ \/ row' = [row EXCEPT ![m] = "queued"] /\ Enqueue(m)
       \/ /\ row' = [row EXCEPT ![m] = "rejected"]
          /\ UNCHANGED <<told, steer, gen, stdin, timer>>
    /\ UNCHANGED <<ask, transcript, entry, confirming, program, handling, lost>>

---------------------------------------------------------------------------
(* take(): the SDK asks the generator for its next message.                 *)
Take ==
    /\ gen = "ready"
    /\ IF queue # <<>>
       THEN /\ inFlight' = inFlight \cup {Head(queue)} /\ queue' = Tail(queue)
            /\ stdin' = Append(stdin, Head(queue)) /\ UNCHANGED gen
       ELSE /\ gen' = IF closed # "open" THEN "done" ELSE "parked"
            /\ UNCHANGED <<inFlight, queue, stdin>>
    /\ UNCHANGED <<durable, entry, closed, hook, accepted, tainted, confirming,
                   program, loop, lost>>

(* The CLI takes a message between two tools of its work, or starts again.  *)
CliReads ==
    /\ cli # "off" /\ stdin # <<>> /\ stdin' = Tail(stdin) /\ cli' = "working"
    /\ transcript' = Append(transcript, [msg |-> Head(stdin), run |-> turn])
    /\ UNCHANGED <<ask, row, told, entry, steer, gen, confirming, out, loop, lost>>

CliSays(kind) ==
    /\ cli # "off" /\ Len(out) < MaxOut
    /\ IF kind = "result" THEN cli = "working" /\ cli' = "quiet" ELSE cli' = "working"
    /\ out' = Append(out, kind)
    /\ UNCHANGED <<durable, entry, steer, gen, stdin, confirming, loop, lost>>

(* The CLI ends after its input, or dies.                                   *)
CliExits ==
    /\ cli # "off" /\ cli' = "off"
    /\ UNCHANGED <<durable, entry, steer, gen, stdin, confirming, out, loop, lost>>

(* A gated tool may start unasked: no hook sees it, or its hook finds the   *)
(* run untainted.  The hook cannot be reached after the input closed, and   *)
(* the CLI cancels the tool.                                                *)
Unasked == cli = "working" /\ (hook => closed = "open" /\ ~tainted)

---------------------------------------------------------------------------
(* close(): what is still queued is rejected, what was taken is settled: on *)
(* an abort as unconfirmed, the status of the row and of the event, which   *)
(* is sent as a steer-rejected one.                                         *)
\* Mutant: what was taken is rejected with the rest
VerdictsRejectAll(reason) ==
    [m \in Msg |-> IF m \in ToSet(queue) \cup inFlight THEN "rejected" ELSE "none"]

\* Mutant: what was taken is forgotten
VerdictsForgetTaken(reason) == [m \in Msg |-> IF m \in ToSet(queue) THEN "rejected" ELSE "none"]

Verdicts(reason) ==
    [m \in Msg |-> IF m \in ToSet(queue) THEN "rejected"
                   ELSE IF m \notin inFlight THEN "none"
                   ELSE IF reason = "turn_aborted" THEN "unconfirmed" ELSE "confirm"]

(* settle(): the row moves unless it is final; the event is sent.           *)
Moved(m, status) == IF row[m] \in {"delivered", "rejected"} THEN row[m] ELSE status

Settles(verdict) ==
    LET now == {m \in Msg : verdict[m] \in Final} IN
    /\ told' = [m \in Msg |-> IF m \in now THEN verdict[m] ELSE told[m]]
    /\ row' = [m \in Msg |-> IF m \in now THEN Moved(m, verdict[m]) ELSE row[m]]

SettlesAll(verdict) ==
    /\ Settles(verdict)
    /\ confirming' = confirming \cup {m \in Msg : verdict[m] = "confirm"}

Close(reason) ==
    IF closed # "open" THEN UNCHANGED <<row, told, steer, gen, confirming>>
    ELSE /\ closed' = reason /\ queue' = <<>> /\ inFlight' = {}
         /\ SettlesAll(Verdicts(reason))
         /\ gen' = IF gen = "parked" THEN "done" ELSE gen
         /\ UNCHANGED <<hook, accepted, tainted>>

(* confirmDelivery: found in the transcript, or not found in time.          *)
Found(m) == \E i \in DOMAIN transcript : transcript[i].msg = m

Confirm(m) ==
    /\ m \in confirming /\ confirming' = confirming \ {m}
    /\ \E status \in {"delivered", "unconfirmed"} :
          /\ status = "delivered" => Found(m)
          /\ Settles([k \in Msg |-> IF k = m THEN status ELSE "none"])
    /\ UNCHANGED <<ask, transcript, entry, steer, gen, stdin, program, loop, lost>>

---------------------------------------------------------------------------
(* The loop reads a message: the close timer is disarmed, and a result      *)
(* settles everything taken before the loop read it.                        *)
Handle ==
    /\ running /\ handling = "none" /\ out # <<>>
    /\ handling' = Head(out) /\ out' = Tail(out) /\ timer' = "none"
    /\ IF Head(out) = "result"
       THEN confirming' = confirming \cup inFlight /\ inFlight' = {}
       ELSE UNCHANGED <<confirming, inFlight>>
    /\ UNCHANGED <<durable, entry, closed, hook, accepted, tainted, queue, gen, stdin, cli, lost>>

\* Mutant: a steer holds the input without a limit
PlanUncapped == IF Pending THEN {"none"} ELSE {"grace"}

(* baseClosePlan: a steer in progress holds the input up to its cap; a run  *)
(* that was steered once waits out the grace; another may close at once.    *)
Plan == IF Pending THEN {"hold"}
        ELSE IF accepted > 0 THEN {"grace"} ELSE {"grace", "now"}

(* reconsiderInputClose, at the end of the message.                         *)
Reconsider ==
    /\ handling # "none" /\ handling' = "none"
    /\ IF closed # "open" \/ handling # "result"
       THEN timer' = "none" /\ UNCHANGED <<row, told, steer, gen, confirming>>
       ELSE \E plan \in Plan :
               IF plan = "now" THEN timer' = "none" /\ Close("input_closed")
               ELSE timer' = plan /\ UNCHANGED <<row, told, steer, gen, confirming>>
    /\ UNCHANGED <<ask, transcript, entry, stdin, program, lost>>

TimerFires ==
    /\ timer # "none" /\ timer' = "none" /\ Close("input_closed")
    /\ UNCHANGED <<ask, transcript, entry, stdin, program, handling, lost>>

(* The end of abortClaudeSDKSession: the input closes and the run leaves.   *)
Abort ==
    /\ listed /\ listed' = FALSE /\ Close("turn_aborted")
    /\ UNCHANGED <<ask, transcript, turn, running, stdin, program, loop, lost>>

(* The CLI is gone and read out: the entry is removed, the input closed.    *)
RunEnds ==
    /\ running /\ cli = "off" /\ out = <<>> /\ handling = "none" /\ Gone
    /\ IF closed = "open" THEN SettlesAll(Verdicts("input_closed"))
       ELSE UNCHANGED <<row, told, confirming>>
    /\ UNCHANGED <<ask, transcript, turn, lost>>

(* The server dies and with it everything but the rows and the transcript.  *)
Crash ==
    /\ running \/ confirming # {}
    /\ lost' = lost \cup {m \in Msg : told[m] = "queued"}
    /\ Gone /\ confirming' = {}
    /\ UNCHANGED <<durable, turn>>

---------------------------------------------------------------------------
Next == \/ StartRun \/ Take \/ CliReads \/ CliExits \/ Handle \/ Reconsider
         \/ TimerFires \/ Abort \/ RunEnds \/ Crash
        \/ \E m \in Msg : Admit(m) \/ Confirm(m) \/ \E u \in User : Ask(m, u)
        \/ \E kind \in {"result", "text"} : CliSays(kind)

(* The loop reads what comes, timers fire, looks end, the SDK pulls, and a  *)
(* turn of the CLI ends; that the CLI reads what it is given is not assumed. *)
Fairness == /\ WF_vars(Take) /\ WF_vars(Handle) /\ WF_vars(Reconsider)
            /\ WF_vars(TimerFires) /\ WF_vars(RunEnds)
            /\ SF_vars(CliSays("result")) /\ \A m \in Msg : WF_vars(Confirm(m))

Spec == Init /\ [][Next]_vars
FairSpec == Spec /\ Fairness

---------------------------------------------------------------------------
TypeOK ==
    /\ ask \in [Msg -> [by: User \cup {None}, turn: 0..MaxTurns]]
    /\ row \in [Msg -> {"none", "queued"} \cup Final]
    /\ told \in [Msg -> {"none", "queued"} \cup Final]
    /\ transcript \in Seq([msg: Msg, run: 1..MaxTurns])
    /\ turn \in 0..MaxTurns /\ running \in BOOLEAN /\ listed \in BOOLEAN
    /\ closed \in {"open", "turn_aborted", "input_closed"} /\ hook \in BOOLEAN
    /\ accepted \in 0..PerTurnMax /\ tainted \in BOOLEAN
    /\ queue \in Seq(Msg) /\ Len(queue) <= QueueMax /\ inFlight \subseteq Msg
    /\ gen \in {"ready", "parked", "done"} /\ stdin \in Seq(Msg)
    /\ confirming \subseteq Msg /\ cli \in {"off", "working", "quiet"}
    /\ out \in Seq({"result", "text"}) /\ handling \in {"none", "result", "text"}
    /\ timer \in {"none", "grace", "hold"}
    /\ lost \subseteq Msg

ReadBy(m) == {i \in DOMAIN transcript : transcript[i].msg = m}

(* A sender who is told that the text was rejected may send it again: it is *)
(* not in the transcript, nor on its way there.  What members are told was  *)
(* delivered, by a result, a closing input or a late look, is there.        *)
VerdictIsTrue ==
    \A m \in Msg :
        /\ "rejected" \in {row[m], told[m]} => ReadBy(m) = {} /\ m \notin ToSet(stdin)
        /\ "delivered" \in {row[m], told[m]} => ReadBy(m) # {}

(* However often the browser sends it again, over runs and restarts, the    *)
(* model is given a message once; and by the run it was written for, not a  *)
(* later one of the same session, however long its images took.             *)
ReadOnceByItsRun ==
    /\ \A m \in Msg : Cardinality(ReadBy(m)) <= 1
    /\ \A i \in DOMAIN transcript : ask[transcript[i].msg].turn = transcript[i].run

(* An accepted text is in one place at any time: queued, taken, looked at,  *)
(* or settled by one event; results, closes, aborts and looks neither drop  *)
(* it nor settle it twice.  And everything has its type.                    *)
InOnePlace == TypeOK /\
    \A m \in Msg \ lost : told[m] # "none" =>
        Cardinality({p \in 1..4 : \/ p = 1 /\ m \in ToSet(queue)
                                  \/ p = 2 /\ m \in inFlight
                                  \/ p = 3 /\ m \in confirming
                                  \/ p = 4 /\ told[m] \in Final}) = 1

(* No gated tool can start without the starter's word once the run has read *)
(* text that another member steered into it; what an earlier run of the     *)
(* session left in its context is not part of this gate.                    *)
OthersNeedTheStarter ==
    Unasked => \A i \in DOMAIN transcript :
                  transcript[i].run = turn => ask[transcript[i].msg].by = Starter

(* A run that went quiet does not close its input under a text it accepted; *)
(* only the cap of the steer's own hold, a stop or the CLI's end may.  (A   *)
(* change of the relay mode releases a held run too, claude-sdk.js:3731; it *)
(* is left out.)                                                            *)
GraceSparesSteers ==
    [][closed = "open" /\ closed' = "input_closed" /\ cli' # "off"
         => timer = "hold" \/ ~Pending]_vars

(* Every accepted text gets its final event, unless the server crashed.     *)
Settled == \A m \in Msg : told[m] = "queued" ~> (told[m] \in Final \/ m \in lost)
===============================================================================
