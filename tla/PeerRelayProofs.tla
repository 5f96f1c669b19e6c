--------------------------- MODULE PeerRelayProofs ---------------------------
(***************************************************************************)
(* Proofs about the relay of messages between sessions, for any number of  *)
(* messages, targets, processes, attempts and boots, and with every fault. *)
(* The proof of a delivery is a line of the transcript; the invariant says *)
(* of every message nobody disturbed who may still write that line: one    *)
(* handler at most, or an orphan, and only while the row is `delivering`.  *)
(***************************************************************************)
EXTENDS PeerRelay, TLAPS, FiniteSetTheorems

HoldingPcs == {"dispatch", "starting", "turn", "read", "charge"}
Launching == {"dispatch", "starting"}   \* claimed, the turn not registered
USE DEF Launching
Holds(h, r) == R(h) = r /\ job[h].pc \in HoldingPcs
AtGate(h, r) == R(h) = r /\ job[h].pc = "gate"

(* Whatever the relay keeps is kept of messages that were sent, and a       *)
(* transcript has lines of its own messages only.                           *)
SentInv ==
    /\ \A r \in Sent : to[r] \in Session /\ offset[r] <= Len(transcript[to[r]])
    /\ \A r \in Row \ Sent : attempts[r] = 0
    /\ \A r \in Row \ Sent : offset[r] = 0
    /\ \A h \in Handler : job[h].pc # "free" => R(h) \in Sent
    /\ orphans \subseteq Sent /\ ledger \subseteq Sent
    /\ \A s \in Session : \A i \in DOMAIN transcript[s] :
          transcript[s][i] \in Sent /\ to[transcript[s][i]] = s

(* Who is looked at, claimed or delivered has nothing open of an earlier    *)
(* millisecond before it.                                                   *)
OrderInv ==
    \A q, r \in Sent :
        at[q] < at[r] /\ to[q] = to[r]
        /\ (state[r] \in {"delivering", "delivered"} \/ \E h \in Handler : AtGate(h, r))
        => state[q] \in Finished

(* The ledger and the verdict `delivered` rest on a line.                   *)
ProofInv ==
    /\ \A r \in ledger : Reads(r) # {}
    /\ \A r \in Sent : state[r] = "delivered" => Reads(r) # {}
    /\ \A h \in Handler : job[h].pc = "charge" => R(h) \in ledger

(* A message is read once, past the offset of the claim, and only by its    *)
(* one holder or orphan.                                                    *)
OneReader(r) ==
    /\ \A i, k \in Reads(r) : i = k
    /\ state[r] \in Open \cup {"failed", "refused"} => Reads(r) = {}
    /\ state[r] = "delivering" => \A i \in Reads(r) : i > offset[r]
    /\ r \in orphans => /\ state[r] = "delivering" /\ Reads(r) = {}
                        /\ \A h \in Handler : ~Holds(h, r)
    /\ \A g, h \in Handler : Holds(g, r) /\ Holds(h, r) => g = h

(* What a holder remembers of its claim is what the row says.               *)
HolderAgrees(h, r) ==
    /\ state[r] \in {"delivering", "delivered"}
    /\ job[h].off = offset[r] /\ job[h].tries = attempts[r]
    /\ job[h].pc \in Launching \cup {"turn"} => state[r] = "delivering" /\ Reads(r) = {}
    /\ job[h].pc = "read" => Reads(r) # {} /\ \A i \in Reads(r) : i > offset[r]

(* An attempt is spent on a turn, except that of a claim whose turn has not *)
(* registered yet.                                                          *)
AttemptsSpent(r) ==
    /\ attempts[r] <= chances[r] + 1
    /\ (\A h \in Handler : Holds(h, r) => job[h].pc \notin Launching) => attempts[r] <= chances[r]

Intact(r) == /\ OneReader(r)
             /\ \A h \in Handler : Holds(h, r) => HolderAgrees(h, r)
             /\ AttemptsSpent(r)

IInv == /\ TypeOK /\ SentInv /\ OrderInv /\ ProofInv
        /\ \A r \in Sent \ disturbed : Intact(r)

-----------------------------------------------------------------------------
LEMMA HandlerOf == \A h \in Handler : P(h) \in Proc /\ R(h) \in Row /\ h = <<P(h), R(h)>>
BY DEF Handler, P, R

LEMMA LineProves ==
    ASSUME NEW r \in Row, NEW off \in Nat
    PROVE  Proven(r, off) <=> \E i \in Reads(r) : i > off
BY DEF Proven, Reads

(* Lines and verdicts are where they were while transcripts and targets are.*)
LEMMA SameReads ==
    ASSUME transcript' = transcript, NEW r \in Row, to'[r] = to[r]
    PROVE  Reads(r)' = Reads(r)
BY DEF Reads

(* A line is appended: it is one more read of its message and of no other.  *)
LEMMA NewLine ==
    ASSUME TypeOK, SentInv, NEW r \in Sent, to' = to,
           transcript' = [transcript EXCEPT ![to[r]] = Append(@, r)]
    PROVE  /\ transcript' \in [Session -> Seq(Row)]
           /\ \A s \in Session : Len(transcript'[s]) >= Len(transcript[s]) /\ Len(transcript[s]) \in Nat
           /\ \A q \in Sent \ {r} : Reads(q)' = Reads(q)
           /\ Reads(r)' = Reads(r) \cup {Len(transcript[to[r]]) + 1}
           /\ \A s \in Session : \A i \in DOMAIN transcript'[s] :
                 \/ i \in DOMAIN transcript[s] /\ transcript'[s][i] = transcript[s][i]
                 \/ s = to[r] /\ transcript'[s][i] = r
<1> DEFINE s0 == to[r]
<1>1. s0 \in Session /\ r \in Row /\ transcript \in [Session -> Seq(Row)]
  BY DEF TypeOK, SentInv, Sent
<1>2. \A s \in Session \ {s0} : transcript'[s] = transcript[s]
  BY <1>1
<1>3. transcript'[s0] = Append(transcript[s0], r) /\ transcript[s0] \in Seq(Row)
  BY <1>1
<1>4. transcript' \in [Session -> Seq(Row)]
  BY <1>1, <1>3
<1> HIDE DEF s0
<1>5. /\ Len(transcript'[s0]) = Len(transcript[s0]) + 1 /\ Len(transcript[s0]) \in Nat
      /\ DOMAIN transcript[s0] = 1..Len(transcript[s0])
      /\ DOMAIN transcript'[s0] = 1..(Len(transcript[s0]) + 1)
      /\ \A i \in 1..Len(transcript[s0]) : transcript'[s0][i] = transcript[s0][i]
      /\ transcript'[s0][Len(transcript[s0]) + 1] = r
  BY <1>1, <1>3
<1>6. \A s \in Session : Len(transcript'[s]) >= Len(transcript[s]) /\ Len(transcript[s]) \in Nat
  BY <1>1, <1>2, <1>5
<1>7. ASSUME NEW q \in Sent \ {r} PROVE Reads(q)' = Reads(q)
  <2>1. CASE to[q] = s0
    BY <1>5, <1>7, <2>1 DEF Reads
  <2>2. CASE to[q] # s0
    <3>1. transcript'[to[q]] = transcript[to[q]]
      BY <1>1, <1>2, <2>2 DEF SentInv
    <3>2. QED
      BY <3>1 DEF Reads
  <2>3. QED
    BY <2>1, <2>2
<1>8. Reads(r)' = Reads(r) \cup {Len(transcript[s0]) + 1}
  BY <1>5 DEF Reads, s0
<1>9. ASSUME NEW s \in Session, NEW i \in DOMAIN transcript'[s]
      PROVE  \/ i \in DOMAIN transcript[s] /\ transcript'[s][i] = transcript[s][i]
             \/ s = s0 /\ transcript'[s][i] = r
  BY <1>2, <1>5, <1>9
<1>10. QED
  BY <1>4, <1>6, <1>7, <1>8, <1>9 DEF s0

-----------------------------------------------------------------------------
(* What most steps do to the rows: one in the queue or in delivery moves,   *)
(* none is sent and a finished one stays.                                   *)
RowMoves ==
    /\ to' = to /\ at' = at
    /\ \A r \in Row :
          \/ state'[r] = state[r]
          \/ /\ state[r] \in Open \cup {"delivering"}
             /\ state'[r] \in Open \cup {"delivering"} \cup Finished

LEMMA SentStay == RowMoves => Sent' = Sent
BY DEF RowMoves, Sent, Open, Finished

LEMMA SentKept ==
    ASSUME TypeOK, SentInv, RowMoves, transcript' = transcript,
           \A r \in Row : \/ offset'[r] = offset[r]
                          \/ r \in Sent /\ offset'[r] = Len(transcript[to[r]]),
           \A r \in Row \ Sent : attempts'[r] = attempts[r],
           \A h \in Handler : job'[h].pc # "free" => job[h].pc # "free" \/ R(h) \in Sent,
           orphans' \subseteq Sent, ledger' \subseteq Sent
    PROVE  SentInv'
<1>1. Sent' = Sent /\ to' = to
  BY SentStay DEF RowMoves
<1>2. \A r \in Sent : r \in Row /\ to[r] \in Session
  BY DEF Sent, SentInv
<1>3. \A s \in Session : Len(transcript[s]) \in Nat
  BY DEF TypeOK
<1>4. \A r \in Sent : to'[r] \in Session /\ offset'[r] <= Len(transcript'[to'[r]])
  BY <1>1, <1>2, <1>3 DEF SentInv
<1>5. \A r \in Row \ Sent : attempts'[r] = 0 /\ offset'[r] = 0
  BY DEF SentInv
<1>6. \A h \in Handler : job'[h].pc # "free" => R(h) \in Sent
  BY DEF SentInv
<1>7. \A s \in Session : \A i \in DOMAIN transcript'[s] :
          transcript'[s][i] \in Sent /\ to'[transcript'[s][i]] = s
  BY <1>1 DEF SentInv
<1>8. QED
  BY <1>1, <1>4, <1>5, <1>6, <1>7 DEF SentInv

LEMMA OrderKept ==
    ASSUME OrderInv, RowMoves,
           \A r \in Row : state'[r] \in {"delivering", "delivered"} =>
              state[r] \in {"delivering", "delivered"} \/ \E h \in Handler : AtGate(h, r),
           \A h \in Handler : job'[h].pc = "gate" => job[h].pc = "gate"
    PROVE  OrderInv'
<1>1. Sent' = Sent /\ to' = to /\ at' = at
  BY SentStay DEF RowMoves
<1>2. SUFFICES ASSUME NEW q \in Sent, NEW r \in Sent, at[q] < at[r], to[q] = to[r],
                      \/ state'[r] \in {"delivering", "delivered"}
                      \/ \E h \in Handler : AtGate(h, r)'
               PROVE  state'[q] \in Finished
  BY <1>1 DEF OrderInv
<1>3. q \in Row /\ r \in Row
  BY DEF Sent
<1>4. (\E h \in Handler : AtGate(h, r)') => \E h \in Handler : AtGate(h, r)
  BY DEF AtGate
<1>5. state[r] \in {"delivering", "delivered"} \/ \E h \in Handler : AtGate(h, r)
  BY <1>2, <1>3, <1>4
<1>6. state[q] \in Finished
  BY <1>2, <1>5 DEF OrderInv
<1>7. QED
  BY <1>3, <1>6 DEF RowMoves, Finished, Open

LEMMA ProofKept ==
    ASSUME TypeOK, ProofInv, RowMoves, transcript' = transcript, ledger' \subseteq Row,
           \A r \in ledger' : r \in ledger \/ Reads(r) # {},
           \A r \in Row : state'[r] = "delivered" => state[r] = "delivered" \/ Reads(r) # {},
           \A h \in Handler : job'[h].pc = "charge" => job[h].pc = "charge" \/ R(h) \in ledger',
           ledger \subseteq ledger'
    PROVE  ProofInv'
<1>1. Sent' = Sent
  BY SentStay
<1>2. \A r \in Row : Reads(r)' = Reads(r)
  BY SameReads DEF RowMoves
<1>3. \A r \in Row : state[r] = "delivered" => Reads(r) # {}
  BY DEF ProofInv, Sent
<1>4. \A r \in ledger' : Reads(r)' # {}
  BY <1>2 DEF ProofInv
<1>5. \A r \in Sent : state'[r] = "delivered" => Reads(r)' # {}
  BY <1>2, <1>3 DEF Sent
<1>6. \A h \in Handler : job'[h].pc = "charge" => R(h) \in ledger'
  BY DEF ProofInv
<1>7. QED
  BY <1>1, <1>4, <1>5, <1>6 DEF ProofInv

-----------------------------------------------------------------------------
(* A message stays intact while its row, its reads and who holds it do, or  *)
(* when its one reader hands it over.                                       *)
LEMMA IntactKept ==
    ASSUME TypeOK, NEW r \in Row, Intact(r),
           state'[r] = state[r], attempts'[r] = attempts[r], offset'[r] = offset[r],
           Reads(r)' = Reads(r), r \in orphans' => r \in orphans,
           chances'[r] \in Nat, chances'[r] >= chances[r],
           \A h \in Handler : R(h) = r =>
              \/ job'[h] = job[h]
              \/ job[h].pc \notin HoldingPcs /\ job'[h].pc \notin HoldingPcs
    PROVE  Intact(r)'
<1>1. \A h \in Handler : Holds(h, r)' => Holds(h, r) /\ job'[h] = job[h]
  BY DEF Holds
<1>2. \A h \in Handler : Holds(h, r) => Holds(h, r)' /\ job'[h] = job[h]
  BY DEF Holds
<1>3. OneReader(r)'
  BY <1>1, <1>2 DEF Intact, OneReader
<1>4. \A h \in Handler : Holds(h, r)' => HolderAgrees(h, r)'
  BY <1>1 DEF Intact, HolderAgrees
<1>5. AttemptsSpent(r)'
  <2>1. attempts[r] \in Nat /\ chances[r] \in Nat
    BY DEF TypeOK
  <2>2. (\A h \in Handler : Holds(h, r)' => job'[h].pc \notin Launching)
        => (\A h \in Handler : Holds(h, r) => job[h].pc \notin Launching)
    BY <1>2
  <2>3. QED
    BY <2>1, <2>2 DEF Intact, AttemptsSpent
<1>6. QED
  BY <1>3, <1>4, <1>5 DEF Intact

(* The holder gives the row back unread.                                    *)
LEMMA GivenBack ==
    ASSUME TypeOK, NEW r \in Row, Intact(r), NEW h \in Handler, Holds(h, r),
           Reads(r) = {}, Reads(r)' = Reads(r), job' = [job EXCEPT ![h] = Free],
           state'[r] \in {"queued", "failed"}, orphans' = orphans,
           attempts'[r] \in Nat, chances'[r] \in Nat, attempts'[r] <= chances'[r]
    PROVE  Intact(r)'
<1>1. \A g \in Handler : ~Holds(g, r)'
  BY DEF TypeOK, Holds, Intact, OneReader, Free, HoldingPcs
<1>2. r \notin orphans'
  BY DEF Intact, OneReader
<1>3. QED
  BY <1>1, <1>2 DEF Intact, OneReader, AttemptsSpent

(* The holder of a row it has read goes on to the charge, or throws.        *)
LEMMA GoneOn ==
    ASSUME TypeOK, NEW r \in Row, Intact(r), NEW h \in Handler, Holds(h, r), job[h].pc = "read",
           state'[r] = state[r], attempts'[r] = attempts[r], offset'[r] = offset[r],
           Reads(r)' = Reads(r), orphans' = orphans,
           chances'[r] \in Nat, chances'[r] >= chances[r],
           job' = [job EXCEPT ![h] = Free] \/ job' = [job EXCEPT ![h].pc = "charge"]
    PROVE  Intact(r)'
<1>1. \A g \in Handler : Holds(g, r) => g = h
  BY DEF Intact, OneReader
<1>2. \A g \in Handler : Holds(g, r)' => g = h
  BY <1>1 DEF Holds, TypeOK
<1>3. Holds(h, r)' => /\ job'[h].pc = "charge"
                      /\ job'[h].off = job[h].off /\ job'[h].tries = job[h].tries
  BY DEF Holds, TypeOK, Handlers, Free, HoldingPcs
<1>4. OneReader(r)'
  BY <1>2 DEF Intact, OneReader
<1>5. \A g \in Handler : Holds(g, r)' => HolderAgrees(g, r)'
  BY <1>2, <1>3 DEF Intact, HolderAgrees
<1>6. AttemptsSpent(r)'
  <2>1. attempts[r] \in Nat /\ chances[r] \in Nat
    BY DEF TypeOK
  <2>2. attempts[r] <= chances[r]
    BY <1>1 DEF Intact, AttemptsSpent
  <2>3. QED
    BY <2>1, <2>2 DEF AttemptsSpent
<1>7. QED
  BY <1>4, <1>5, <1>6 DEF Intact

-----------------------------------------------------------------------------
(* A compare-and-set of the state moves its row or nothing; without a refund *)
(* the attempts stay.                                                       *)
PlainMove(r, from, target) ==
    \/ state[r] # from /\ UNCHANGED rowVars
    \/ /\ state[r] = from /\ state' = [state EXCEPT ![r] = target]
       /\ wait' \in {wait \cup {r}, wait \ {r}} /\ UNCHANGED <<to, at, offset, attempts>>

LEMMA WithoutRefund ==
    ASSUME TypeOK, NEW r \in Row, NEW from, NEW target
    PROVE  /\ Moves(r, from, target, TRUE, FALSE) => PlainMove(r, from, target)
           /\ Moves(r, from, target, FALSE, FALSE) => PlainMove(r, from, target)
BY DEF TypeOK, Moves, PlainMove

LEMMA PlainMoveEffect ==
    ASSUME TypeOK, NEW r \in Row, NEW from \in Open \cup {"delivering"},
           NEW target \in Open \cup Finished, PlainMove(r, from, target)
    PROVE  /\ state' \in [Row -> {"none", "delivering"} \cup Open \cup Finished]
           /\ wait' \subseteq Row /\ RowMoves /\ offset' = offset /\ attempts' = attempts
           /\ \A q \in Row \ {r} : state'[q] = state[q]
           /\ \/ state[r] # from /\ state' = state
              \/ state[r] = from /\ state'[r] = target
<1>1. CASE state[r] # from
  BY <1>1 DEF PlainMove, rowVars, TypeOK, RowMoves
<1>2. CASE state[r] = from
  <2>1. /\ state' = [state EXCEPT ![r] = target] /\ to' = to /\ at' = at /\ offset' = offset
        /\ attempts' = attempts /\ wait' \in {wait \cup {r}, wait \ {r}}
    BY <1>2 DEF PlainMove
  <2>2. state \in [Row -> {"none", "delivering"} \cup Open \cup Finished] /\ wait \subseteq Row
    BY DEF TypeOK
  <2>3. state'[r] = target /\ \A q \in Row \ {r} : state'[q] = state[q]
    BY <2>1, <2>2
  <2>4. RowMoves
    BY <1>2, <2>1, <2>3 DEF RowMoves
  <2>5. QED
    BY <1>2, <2>1, <2>2, <2>3, <2>4
<1>3. QED
  BY <1>1, <1>2

(* What a handler does to itself.                                           *)
LEMMA HandlerGoes ==
    ASSUME TypeOK, NEW h \in Handler, NEW x \in {"starting", "turn", "read", "charge"}, Goes(h, x)
    PROVE  /\ job' \in [Handler -> Handlers] /\ pass' \in [Proc -> SUBSET Handler]
           /\ \A g \in Handler \ {h} : job'[g] = job[g]
           /\ job'[h].pc = x /\ job'[h].off = job[h].off /\ job'[h].tries = job[h].tries
BY DEF TypeOK, Goes, Handlers

LEMMA HandlerLeaves ==
    ASSUME TypeOK, NEW h \in Handler, Finishes(h) \/ Throws(h)
    PROVE  /\ job' \in [Handler -> Handlers] /\ pass' \in [Proc -> SUBSET Handler]
           /\ job' = [job EXCEPT ![h] = Free]
           /\ \A g \in Handler \ {h} : job'[g] = job[g]
           /\ job'[h].pc = "free"
<1>1. Free \in Handlers /\ Free.pc = "free"
  BY DEF Free, Handlers, Open
<1>2. job \in [Handler -> Handlers] /\ pass \in [Proc -> SUBSET Handler] /\ P(h) \in Proc
  BY HandlerOf DEF TypeOK
<1>3. job' = [job EXCEPT ![h] = Free]
  BY DEF Finishes, Throws
<1>4. pass' \in [Proc -> SUBSET Handler]
  BY <1>2 DEF Finishes, Throws
<1>5. QED
  BY <1>1, <1>2, <1>3, <1>4

-----------------------------------------------------------------------------
(* A step that leaves the rows, their proofs and their handlers alone.      *)
LEMMA Elsewhere ==
    ASSUME IInv, TypeOK', UNCHANGED <<state, to, at, attempts, offset, ledger, transcript, job,
                                      orphans, chances, disturbed>>
    PROVE  IInv'
<1>1. RowMoves
  BY DEF RowMoves
<1>2. SentInv'
  <2>1. orphans' \subseteq Sent /\ ledger' \subseteq Sent
    BY DEF IInv, SentInv
  <2>2. QED
    BY <1>1, <2>1, SentKept DEF IInv
<1>3. OrderInv'
  BY <1>1, OrderKept DEF IInv
<1>4. ProofInv'
  <2>1. ledger \subseteq Row
    BY DEF IInv, TypeOK
  <2>2. QED
    BY <1>1, <2>1, ProofKept DEF IInv
<1>5. ASSUME NEW r \in Sent \ disturbed PROVE Intact(r)'
  <2>1. r \in Row /\ Intact(r) /\ TypeOK /\ chances[r] \in Nat /\ to'[r] = to[r]
    BY <1>5 DEF Sent, IInv, TypeOK
  <2>2. Reads(r)' = Reads(r)
    BY <2>1, SameReads
  <2>3. QED
    BY <2>1, <2>2, IntactKept
<1>6. (Sent \ disturbed)' = Sent \ disturbed
  BY DEF Sent
<1>7. QED
  BY <1>2, <1>3, <1>4, <1>5, <1>6 DEF IInv

LEMMA BackoffElapsesKeeps == ASSUME IInv, NEW r \in Row, BackoffElapses(r) PROVE IInv'
<1>1. TypeOK'
  BY DEF IInv, TypeOK, BackoffElapses, envVars
<1>2. QED
  BY <1>1, Elsewhere DEF BackoffElapses, envVars

LEMMA HumanStartsKeeps ==
    ASSUME IInv, NEW p \in Proc, NEW s \in Session, HumanStarts(p, s) PROVE IInv'
<1>1. humans' \in 0..MaxHumans
  BY RelayAssumption DEF IInv, TypeOK, HumanStarts
<1>2. run' \in [Proc -> [Session -> {None, Human} \cup Handler]]
  BY DEF IInv, TypeOK, HumanStarts
<1>3. TypeOK'
  BY <1>1, <1>2 DEF IInv, TypeOK, HumanStarts, rowVars
<1>4. QED
  BY <1>3, Elsewhere DEF HumanStarts, rowVars

LEMMA HumanEndsKeeps ==
    ASSUME IInv, NEW p \in Proc, NEW s \in Session, HumanEnds(p, s) PROVE IInv'
<1>1. run' \in [Proc -> [Session -> {None, Human} \cup Handler]]
  BY DEF IInv, TypeOK, HumanEnds
<1>2. TypeOK'
  BY <1>1 DEF IInv, TypeOK, HumanEnds, rowVars, envVars
<1>3. QED
  BY <1>2, Elsewhere DEF HumanEnds, rowVars, envVars

LEMMA PauseKeeps == ASSUME IInv, NEW p \in Proc, Pause(p) PROVE IInv'
<1>1. TypeOK'
  BY DEF IInv, TypeOK, Pause, rowVars, envVars
<1>2. QED
  BY <1>1, Elsewhere DEF Pause, rowVars, envVars

-----------------------------------------------------------------------------
(* An open row of an intact message is nobody's.                            *)
LEMMA OpenIsFree ==
    ASSUME NEW r \in Row, Intact(r), state[r] \in Open
    PROVE  Reads(r) = {} /\ r \notin orphans /\ \A h \in Handler : ~Holds(h, r)
BY DEF Intact, OneReader, HolderAgrees, Open

(* A handler leaves at the gate, and its row may move.                      *)
LEMMA GateLeft ==
    ASSUME IInv, NEW h \in Handler, job[h].pc = "gate", Finishes(h), RowMoves,
           state' \in [Row -> {"none", "delivering"} \cup Open \cup Finished], wait' \subseteq Row,
           attempts' = attempts, offset' = offset,
           \A q \in Row \ {R(h)} : state'[q] = state[q],
           \/ state'[R(h)] = state[R(h)]
           \/ state[R(h)] \in Open /\ state'[R(h)] \in {"deferred", "refused", "failed"},
           UNCHANGED <<ledger, transcript, proc, run, envVars, chances, disturbed, exposed>>
    PROVE  IInv'
<1>1. TypeOK /\ SentInv /\ OrderInv /\ ProofInv /\ R(h) \in Row /\ to' = to /\ at' = at
  BY HandlerOf DEF IInv, RowMoves
<1>2. /\ job' \in [Handler -> Handlers] /\ pass' \in [Proc -> SUBSET Handler]
      /\ job'[h].pc = "free" /\ \A g \in Handler \ {h} : job'[g] = job[g]
  BY <1>1, HandlerLeaves
<1>3. TypeOK'
  BY <1>1, <1>2 DEF TypeOK, envVars
<1>4. SentInv'
  <2>1. orphans' \subseteq Sent /\ ledger' \subseteq Sent
    BY <1>1 DEF SentInv, envVars
  <2>2. QED
    BY <1>1, <1>2, <2>1, SentKept
<1>5. OrderInv'
  BY <1>1, <1>2, OrderKept
<1>6. ProofInv'
  <2>1. ledger \subseteq Row
    BY <1>1 DEF TypeOK
  <2>2. QED
    BY <1>1, <1>2, <2>1, ProofKept
<1>7. ASSUME NEW r \in Sent \ disturbed PROVE Intact(r)'
  <2>1. r \in Row /\ Intact(r) /\ chances[r] \in Nat /\ to'[r] = to[r]
    BY <1>1, <1>7 DEF Sent, IInv, TypeOK
  <2>2. Reads(r)' = Reads(r)
    BY <2>1, SameReads
  <2>3. CASE state'[r] = state[r]
    <3>1. \A g \in Handler : \/ job'[g] = job[g]
                             \/ job[g].pc \notin HoldingPcs /\ job'[g].pc \notin HoldingPcs
      BY <1>2 DEF HoldingPcs
    <3>2. r \in orphans' => r \in orphans
      BY DEF envVars
    <3>3. QED
      BY <1>1, <2>1, <2>2, <2>3, <3>1, <3>2, IntactKept
  <2>4. CASE state'[r] # state[r]
    <3>1. state[r] \in Open /\ state'[r] \in {"deferred", "refused", "failed"}
      BY <2>1, <2>4
    <3>2. Reads(r) = {} /\ r \notin orphans /\ \A g \in Handler : ~Holds(g, r)
      BY <2>1, <3>1, OpenIsFree
    <3>3. r \notin orphans' /\ \A g \in Handler : ~Holds(g, r)'
      BY <1>2, <3>2 DEF Holds, HoldingPcs, envVars
    <3>4. AttemptsSpent(r)'
      BY <2>1, <3>2 DEF Intact, AttemptsSpent
    <3>5. QED
      BY <2>2, <3>1, <3>2, <3>3, <3>4 DEF Intact, OneReader
  <2>5. QED
    BY <2>3, <2>4
<1>8. (Sent \ disturbed)' = Sent \ disturbed
  BY SentStay
<1>9. QED
  BY <1>3, <1>4, <1>5, <1>6, <1>7, <1>8 DEF IInv

LEMMA GateStopsKeeps == ASSUME IInv, NEW h \in Handler, GateStops(h) PROVE IInv'
<1>1. /\ TypeOK /\ R(h) \in Row /\ job[h].from \in Open /\ job[h].pc = "gate" /\ Finishes(h)
      /\ UNCHANGED <<ledger, transcript, proc, run, envVars, chances, disturbed, exposed>>
  BY HandlerOf DEF IInv, TypeOK, Handlers, GateStops
<1> DEFINE r == R(h)
<1>2. \/ UNCHANGED rowVars
      \/ \E verdict \in {"refused", "failed"} : Moves(r, job[h].from, verdict, FALSE, FALSE)
      \/ Moves(r, job[h].from, "deferred", TRUE, FALSE)
  BY DEF GateStops
<1> HIDE DEF r
<1>3. CASE UNCHANGED rowVars
  <2>1. RowMoves
    BY <1>3 DEF rowVars, RowMoves
  <2>2. /\ state' \in [Row -> {"none", "delivering"} \cup Open \cup Finished] /\ wait' \subseteq Row
        /\ attempts' = attempts /\ offset' = offset /\ state' = state
    BY <1>1, <1>3 DEF rowVars, TypeOK
  <2>3. QED
    BY <1>1, <2>1, <2>2, GateLeft
<1>4. ASSUME NEW target \in {"refused", "failed", "deferred"}, PlainMove(r, job[h].from, target)
      PROVE  IInv'
  <2>1. target \in Open \cup Finished /\ job[h].from \in Open \cup {"delivering"} /\ r \in Row
    BY <1>1 DEF Open, Finished, r
  <2>2. /\ state' \in [Row -> {"none", "delivering"} \cup Open \cup Finished]
        /\ wait' \subseteq Row /\ RowMoves /\ offset' = offset /\ attempts' = attempts
        /\ \A q \in Row \ {r} : state'[q] = state[q]
        /\ \/ state[r] # job[h].from /\ state' = state
           \/ state[r] = job[h].from /\ state'[r] = target
    BY <1>1, <1>4, <2>1, PlainMoveEffect
  <2>3. QED
    BY <1>1, <2>2, GateLeft DEF r
<1>5. r \in Row
  BY <1>1 DEF r
<1>6. QED
  BY <1>1, <1>2, <1>3, <1>4, <1>5, WithoutRefund

(* The claim takes an open row, which nobody holds and nobody has read: the *)
(* offset it records lies before every line there will be.                  *)
LEMMA ClaimKeeps == ASSUME IInv, NEW h \in Handler, Claim(h) PROVE IInv'
<1> DEFINE r == R(h)
<1>1. /\ TypeOK /\ SentInv /\ OrderInv /\ ProofInv /\ r \in Row /\ job[h].pc = "gate"
      /\ r \in Sent /\ to[r] \in Session /\ Len(transcript[to[r]]) \in Nat
      /\ attempts[r] \in Nat
      /\ UNCHANGED <<ledger, transcript, proc, run, envVars, chances, disturbed>>
  <2>1. /\ TypeOK /\ SentInv /\ OrderInv /\ ProofInv /\ r \in Row /\ job[h].pc = "gate"
        /\ UNCHANGED <<ledger, transcript, proc, run, envVars, chances, disturbed>>
    BY HandlerOf DEF IInv, Claim
  <2>2. r \in Sent /\ to[r] \in Session
    BY <2>1 DEF SentInv
  <2>3. Len(transcript[to[r]]) \in Nat /\ attempts[r] \in Nat
    BY <2>1, <2>2 DEF TypeOK
  <2>4. QED
    BY <2>1, <2>2, <2>3
<1>2. CASE ~CanTake(h)
  <2>1. Finishes(h) /\ UNCHANGED <<rowVars, exposed>>
    BY <1>2 DEF Claim
  <2>2. RowMoves
    BY <2>1 DEF rowVars, RowMoves
  <2>3. /\ state' \in [Row -> {"none", "delivering"} \cup Open \cup Finished] /\ wait' \subseteq Row
        /\ attempts' = attempts /\ offset' = offset /\ state' = state
    BY <1>1, <2>1 DEF rowVars, TypeOK
  <2>4. QED
    BY <1>1, <2>1, <2>2, <2>3, GateLeft
<1>3. CASE CanTake(h)
  <2>1. /\ state[r] \in Open
        /\ state' = [state EXCEPT ![r] = "delivering"]
        /\ attempts' = [attempts EXCEPT ![r] = @ + 1]
        /\ offset' = [offset EXCEPT ![r] = Len(transcript[to[r]])]
        /\ job' = [job EXCEPT ![h].pc = "dispatch", ![h].tries = attempts'[r], ![h].off = offset'[r]]
        /\ exposed' \in {exposed, exposed \cup {r}}
        /\ UNCHANGED <<to, at, wait, pass>>
    BY <1>3 DEF Claim, Takes, CanTake, To
  <2> HIDE DEF r
  <2>2. /\ state' \in [Row -> {"none", "delivering"} \cup Open \cup Finished]
        /\ attempts' \in [Row -> Nat] /\ offset' \in [Row -> Nat]
        /\ state'[r] = "delivering" /\ attempts'[r] = attempts[r] + 1
        /\ offset'[r] = Len(transcript[to[r]])
        /\ \A q \in Row \ {r} : state'[q] = state[q] /\ attempts'[q] = attempts[q] /\ offset'[q] = offset[q]
    BY <1>1, <2>1 DEF TypeOK
  <2>3. /\ job' \in [Handler -> Handlers] /\ \A g \in Handler \ {h} : job'[g] = job[g]
        /\ job'[h].pc = "dispatch" /\ job'[h].tries = attempts'[r] /\ job'[h].off = offset'[r]
    <3>1. job \in [Handler -> Handlers] /\ attempts'[r] \in Nat /\ offset'[r] \in Nat
      BY <1>1, <2>2 DEF TypeOK
    <3>2. job'[h] = [job[h] EXCEPT !.pc = "dispatch", !.tries = attempts'[r], !.off = offset'[r]]
      BY <2>1, <3>1
    <3>3. \A g \in Handler \ {h} : job'[g] = job[g]
      BY <2>1, <3>1
    <3>4. /\ job'[h] \in Handlers /\ job'[h].pc = "dispatch"
          /\ job'[h].tries = attempts'[r] /\ job'[h].off = offset'[r]
      BY <3>1, <3>2 DEF Handlers
    <3>5. job' \in [Handler -> Handlers]
      BY <2>1, <3>1, <3>3, <3>4
    <3>6. QED
      BY <3>3, <3>4, <3>5
  <2>4. TypeOK'
    BY <1>1, <2>1, <2>2, <2>3 DEF TypeOK, envVars
  <2>5. RowMoves
    BY <2>1, <2>2 DEF RowMoves
  <2>6. SentInv'
    <3>1. orphans' \subseteq Sent /\ ledger' \subseteq Sent
      BY <1>1 DEF SentInv, envVars
    <3>2. \A g \in Handler : job'[g].pc # "free" => job[g].pc # "free" \/ R(g) \in Sent
      BY <1>1, <2>3
    <3>3. \A q \in Row : offset'[q] = offset[q] \/ (q \in Sent /\ offset'[q] = Len(transcript[to[q]]))
      BY <1>1, <2>2
    <3>4. QED
      BY <1>1, <2>2, <2>5, <3>1, <3>2, <3>3, SentKept
  <2>7. OrderInv'
    <3>1. AtGate(h, r)
      BY <1>1 DEF AtGate, r
    <3>2. QED
      BY <1>1, <2>2, <2>3, <2>5, <3>1, OrderKept
  <2>8. ProofInv'
    <3>1. ledger \subseteq Row
      BY <1>1 DEF TypeOK
    <3>2. QED
      BY <1>1, <2>2, <2>3, <2>5, <3>1, ProofKept
  <2>9. ASSUME NEW q \in Sent \ disturbed PROVE Intact(q)'
    <3>1. q \in Row /\ Intact(q) /\ chances[q] \in Nat /\ to'[q] = to[q]
      BY <1>1, <2>9, <2>1 DEF Sent, IInv, TypeOK
    <3>2. Reads(q)' = Reads(q)
      BY <1>1, <3>1, SameReads
    <3>3. CASE q # r
      <4>1. \A g \in Handler : R(g) = q => job'[g] = job[g]
        BY <2>3, <3>3 DEF r
      <4>2. r \in Row /\ orphans' = orphans /\ chances' = chances
        BY <1>1 DEF envVars
      <4>3. QED
        BY <1>1, <2>2, <3>1, <3>2, <3>3, <4>1, <4>2, IntactKept
    <3>4. CASE q = r
      <4>1. Reads(r) = {} /\ r \notin orphans /\ \A g \in Handler : ~Holds(g, r)
        BY <2>1, <3>1, <3>4, OpenIsFree
      <4>2. \A g \in Handler : Holds(g, r)' => g = h
        BY <2>3, <4>1 DEF Holds
      <4>3. r \notin orphans' /\ Reads(r)' = {} /\ chances' = chances
        BY <1>1, <3>2, <3>4, <4>1 DEF envVars
      <4>4. OneReader(r)'
        BY <2>2, <4>2, <4>3 DEF OneReader
      <4>5. \A g \in Handler : Holds(g, r)' => HolderAgrees(g, r)'
        BY <2>2, <2>3, <4>2, <4>3 DEF HolderAgrees
      <4>6. AttemptsSpent(r)'
        <5>1. attempts[r] <= chances[r]
          BY <3>1, <3>4, <4>1 DEF Intact, AttemptsSpent
        <5>2. Holds(h, r)' /\ job'[h].pc = "dispatch"
          BY <2>3 DEF Holds, HoldingPcs, r
        <5>3. attempts'[r] <= chances'[r] + 1
          BY <1>1, <2>2, <3>1, <3>4, <4>3, <5>1
        <5>4. QED
          BY <5>2, <5>3 DEF AttemptsSpent
      <4>7. QED
        BY <3>4, <4>4, <4>5, <4>6 DEF Intact
    <3>5. QED
      BY <3>3, <3>4
  <2>10. (Sent \ disturbed)' = Sent \ disturbed
    BY <1>1, <2>5, SentStay
  <2>11. QED
    BY <2>4, <2>6, <2>7, <2>8, <2>9, <2>10 DEF IInv
<1>4. QED
  BY <1>2, <1>3

-----------------------------------------------------------------------------
(* A message no turn has read goes back to the queue or is given up; only a *)
(* busy refusal gives its attempt back.                                     *)
LEMMA GivesBackEffect ==
    ASSUME TypeOK, NEW h \in Handler, NEW outcome \in {"busy", "permanent", "ended"},
           GivesBack(h, outcome)
    PROVE  /\ state' \in [Row -> {"none", "delivering"} \cup Open \cup Finished]
           /\ attempts' \in [Row -> Nat] /\ wait' \subseteq Row
           /\ RowMoves /\ offset' = offset
           /\ \A q \in Row \ {R(h)} : state'[q] = state[q] /\ attempts'[q] = attempts[q]
           /\ \/ state' = state /\ attempts' = attempts /\ state[R(h)] # "delivering"
              \/ /\ state[R(h)] = "delivering" /\ state'[R(h)] \in {"queued", "failed"}
                 /\ state'[R(h)] = "failed" => outcome = "permanent" \/ job[h].tries >= MaxAttempts
                 /\ \/ outcome # "busy" /\ attempts' = attempts
                    \/ /\ outcome = "busy"
                       /\ attempts'[R(h)] = IF attempts[R(h)] > 0 THEN attempts[R(h)] - 1 ELSE attempts[R(h)]
<1> DEFINE r == R(h)
<1>1. r \in Row
  BY HandlerOf
<1>2. "queued" \in Open \cup Finished /\ "failed" \in Open \cup Finished
  BY DEF Open, Finished
<1>3. CASE outcome = "busy"
  <2>1. Moves(r, "delivering", "queued", TRUE, TRUE)
    BY <1>3 DEF GivesBack
  <2>2. CASE state[r] # "delivering"
    BY <2>1, <2>2 DEF Moves, rowVars, TypeOK, RowMoves
  <2>3. CASE state[r] = "delivering"
    <3>1. /\ state' = [state EXCEPT ![r] = "queued"] /\ to' = to /\ at' = at /\ offset' = offset
          /\ attempts' = [attempts EXCEPT ![r] = IF @ > 0 THEN @ - 1 ELSE @]
          /\ wait' = wait \cup {r}
      BY <2>1, <2>3 DEF Moves
    <3> HIDE DEF r
    <3>2. /\ state \in [Row -> {"none", "delivering"} \cup Open \cup Finished] /\ wait \subseteq Row
          /\ attempts \in [Row -> Nat] /\ attempts[r] \in Nat
      BY <1>1 DEF TypeOK
    <3>3. (IF attempts[r] > 0 THEN attempts[r] - 1 ELSE attempts[r]) \in Nat
      BY <3>2
    <3>4. attempts' \in [Row -> Nat]
      BY <3>1, <3>2, <3>3
    <3>5. state' \in [Row -> {"none", "delivering"} \cup Open \cup Finished] /\ wait' \subseteq Row
      BY <1>1, <3>1, <3>2 DEF Open
    <3>6. /\ \A q \in Row \ {r} : state'[q] = state[q] /\ attempts'[q] = attempts[q]
          /\ attempts'[r] = IF attempts[r] > 0 THEN attempts[r] - 1 ELSE attempts[r]
          /\ state'[r] = "queued"
      BY <1>1, <3>1, <3>2
    <3>7. RowMoves
      BY <2>3, <3>1, <3>6 DEF RowMoves, Open
    <3>8. QED
      BY <1>3, <2>3, <3>1, <3>4, <3>5, <3>6, <3>7 DEF r
  <2>4. QED
    BY <2>2, <2>3
<1>4. ASSUME outcome # "busy", NEW target \in {"queued", "failed"},
             target = "failed" => outcome = "permanent" \/ job[h].tries >= MaxAttempts,
             PlainMove(r, "delivering", target)
      PROVE  /\ state' \in [Row -> {"none", "delivering"} \cup Open \cup Finished]
             /\ attempts' = attempts /\ wait' \subseteq Row
             /\ RowMoves /\ offset' = offset
             /\ \A q \in Row \ {r} : state'[q] = state[q]
             /\ \/ state' = state /\ state[r] # "delivering"
                \/ /\ state[r] = "delivering" /\ state'[r] \in {"queued", "failed"}
                   /\ state'[r] = "failed" => outcome = "permanent" \/ job[h].tries >= MaxAttempts
  <2> HIDE DEF r
  <2>1. target \in Open \cup Finished /\ "delivering" \in Open \cup {"delivering"}
    BY <1>2
  <2>2. QED
    BY <1>1, <1>4, <2>1, PlainMoveEffect
<1>5. CASE outcome # "busy" /\ (outcome = "permanent" \/ job[h].tries >= MaxAttempts)
  <2>1. PlainMove(r, "delivering", "failed")
    <3>1. Moves(r, "delivering", "failed", FALSE, FALSE)
      BY <1>5 DEF GivesBack
    <3>2. QED
      BY <1>1, <3>1, WithoutRefund
  <2>2. QED
    BY <1>4, <1>5, <2>1 DEF TypeOK
<1>6. CASE outcome # "busy" /\ ~(outcome = "permanent" \/ job[h].tries >= MaxAttempts)
  <2>1. PlainMove(r, "delivering", "queued")
    <3>1. Moves(r, "delivering", "queued", TRUE, FALSE)
      BY <1>6 DEF GivesBack
    <3>2. QED
      BY <1>1, <3>1, WithoutRefund
  <2>2. QED
    BY <1>4, <1>6, <2>1 DEF TypeOK
<1>7. QED
  BY <1>3, <1>5, <1>6

-----------------------------------------------------------------------------
(* The end of a turn: commit if the line is there, and give back if not.    *)
(* Whoever commits an intact message has read it; whoever gives one back    *)
(* has not.                                                                 *)
LEMMA SettlesTruly ==
    ASSUME TypeOK, NEW h \in Handler, Intact(R(h)), job[h].pc \in Launching \cup {"turn", "read"}
    PROVE  /\ Holds(h, R(h)) /\ job[h].off = offset[R(h)] /\ job[h].tries = attempts[R(h)]
           /\ Proven(R(h), job[h].off) <=> job[h].pc = "read"
           /\ job[h].pc # "read" => Reads(R(h)) = {} /\ state[R(h)] = "delivering"
<1> DEFINE r == R(h)
<1>1. r \in Row /\ offset[r] \in Nat
  BY HandlerOf DEF TypeOK
<1>2. Holds(h, r)
  BY DEF Holds, HoldingPcs
<1>3. HolderAgrees(h, r)
  BY <1>2 DEF Intact
<1>4. Proven(r, offset[r]) <=> \E i \in Reads(r) : i > offset[r]
  BY <1>1, LineProves
<1>5. QED
  BY <1>2, <1>3, <1>4 DEF HolderAgrees

LEMMA CommitsKeeps ==
    ASSUME IInv, NEW h \in Handler, job[h].pc \in Launching \cup {"turn", "read"}, Commits(h),
           UNCHANGED <<transcript, proc, envVars, disturbed>>,
           run' \in [Proc -> [Session -> {None, Human} \cup Handler]],
           chances' \in [Row -> Nat], \A q \in Row : chances'[q] >= chances[q]
    PROVE  IInv'
<1> DEFINE r == R(h)
<1>1. /\ TypeOK /\ SentInv /\ OrderInv /\ ProofInv /\ r \in Row /\ r \in Sent
      /\ job \in [Handler -> Handlers] /\ job[h].off \in Nat
  BY HandlerOf DEF IInv, TypeOK, SentInv, Handlers
<1>2. Proven(r, job[h].off) /\ UNCHANGED rowVars
  BY DEF Commits
<1>3. Reads(r) # {}
  BY <1>1, <1>2, LineProves
<1>4. \/ ledger' = ledger \cup {r} /\ Goes(h, "charge") /\ exposed' = exposed
      \/ ledger' = ledger /\ Throws(h) /\ exposed' = exposed \cup {r}
  BY DEF Commits
<1> HIDE DEF r
<1>5. /\ job' \in [Handler -> Handlers] /\ pass' \in [Proc -> SUBSET Handler]
      /\ \A g \in Handler \ {h} : job'[g] = job[g]
      /\ \/ job'[h].pc = "charge" /\ ledger' = ledger \cup {r}
         \/ job'[h].pc = "free" /\ ledger' = ledger
      /\ job' = [job EXCEPT ![h] = Free] \/ job' = [job EXCEPT ![h].pc = "charge"]
  <2>1. CASE Throws(h) /\ ledger' = ledger
    BY <1>1, <2>1, HandlerLeaves
  <2>2. CASE Goes(h, "charge") /\ ledger' = ledger \cup {r}
    BY <1>1, <2>2, HandlerGoes DEF Goes
  <2>3. QED
    BY <1>4, <2>1, <2>2
<1>6. TypeOK'
  BY <1>1, <1>2, <1>4, <1>5 DEF TypeOK, rowVars, envVars
<1>7. RowMoves
  BY <1>2 DEF rowVars, RowMoves
<1>8. SentInv'
  <2>1. orphans' \subseteq Sent /\ ledger' \subseteq Sent
    BY <1>1, <1>4 DEF SentInv, envVars
  <2>2. \A g \in Handler : job'[g].pc # "free" => job[g].pc # "free" \/ R(g) \in Sent
    BY <1>1, <1>5
  <2>3. QED
    BY <1>1, <1>2, <1>7, <2>1, <2>2, SentKept DEF rowVars
<1>9. OrderInv'
  BY <1>1, <1>2, <1>5, <1>7, OrderKept DEF rowVars
<1>10. ProofInv'
  <2>1. ledger \subseteq Row /\ ledger' \subseteq Row /\ ledger \subseteq ledger'
    BY <1>1, <1>4 DEF TypeOK
  <2>2. \A q \in ledger' : q \in ledger \/ Reads(q) # {}
    BY <1>3, <1>4
  <2>3. \A g \in Handler : job'[g].pc = "charge" => job[g].pc = "charge" \/ R(g) \in ledger'
    BY <1>5 DEF r
  <2>4. QED
    BY <1>1, <1>2, <1>7, <2>1, <2>2, <2>3, ProofKept DEF rowVars
<1>11. ASSUME NEW q \in Sent \ disturbed PROVE Intact(q)'
  <2>1. /\ q \in Row /\ Intact(q) /\ to'[q] = to[q] /\ chances'[q] \in Nat
        /\ state'[q] = state[q] /\ attempts'[q] = attempts[q] /\ offset'[q] = offset[q]
        /\ chances'[q] >= chances[q] /\ orphans' = orphans
    BY <1>1, <1>2, <1>11 DEF Sent, IInv, rowVars, envVars
  <2>2. Reads(q)' = Reads(q)
    BY <2>1, SameReads
  <2>3. CASE q # r
    <3>1. \A g \in Handler : R(g) = q => job'[g] = job[g]
      BY <1>5, <2>3 DEF r
    <3>2. QED
      BY <1>1, <2>1, <2>2, <3>1, IntactKept
  <2>4. CASE q = r
    <3>1. Holds(h, r) /\ job[h].pc = "read"
      BY <1>1, <1>2, <2>1, <2>4, SettlesTruly DEF r
    <3>2. QED
      BY <1>1, <1>5, <2>1, <2>2, <2>4, <3>1, GoneOn
  <2>5. QED
    BY <2>3, <2>4
<1>12. (Sent \ disturbed)' = Sent \ disturbed
  BY <1>7, SentStay
<1>13. QED
  BY <1>6, <1>8, <1>9, <1>10, <1>11, <1>12 DEF IInv

LEMMA GivesBackKeeps ==
    ASSUME IInv, NEW h \in Handler, job[h].pc \in Launching \cup {"turn", "read"},
           NEW outcome \in {"busy", "permanent", "ended"},
           ~Proven(R(h), job[h].off), GivesBack(h, outcome),
           UNCHANGED <<transcript, proc, envVars, disturbed>>,
           run' \in [Proc -> [Session -> {None, Human} \cup Handler]],
           chances' \in [Row -> Nat], \A q \in Row : chances'[q] >= chances[q],
           job[h].pc \in Launching => outcome = "busy" \/ chances'[R(h)] = chances[R(h)] + 1
    PROVE  IInv'
<1> DEFINE r == R(h)
<1>1. /\ TypeOK /\ SentInv /\ OrderInv /\ ProofInv /\ r \in Row
      /\ job \in [Handler -> Handlers] /\ Finishes(h) /\ UNCHANGED <<ledger, exposed>>
  BY HandlerOf DEF IInv, TypeOK, GivesBack
<1>2. /\ state' \in [Row -> {"none", "delivering"} \cup Open \cup Finished]
      /\ attempts' \in [Row -> Nat] /\ wait' \subseteq Row
      /\ RowMoves /\ offset' = offset
      /\ \A q \in Row \ {r} : state'[q] = state[q] /\ attempts'[q] = attempts[q]
      /\ \/ state' = state /\ attempts' = attempts /\ state[r] # "delivering"
         \/ /\ state[r] = "delivering" /\ state'[r] \in {"queued", "failed"}
            /\ \/ outcome # "busy" /\ attempts' = attempts
               \/ /\ outcome = "busy"
                  /\ attempts'[r] = IF attempts[r] > 0 THEN attempts[r] - 1 ELSE attempts[r]
  BY <1>1, GivesBackEffect
<1> HIDE DEF r
<1>3. /\ job' \in [Handler -> Handlers] /\ pass' \in [Proc -> SUBSET Handler]
      /\ job' = [job EXCEPT ![h] = Free]
      /\ \A g \in Handler \ {h} : job'[g] = job[g]
      /\ job'[h].pc = "free"
  BY <1>1, HandlerLeaves
<1>4. to' = to /\ at' = at
  BY <1>2 DEF RowMoves
<1>5. TypeOK'
  BY <1>1, <1>2, <1>3, <1>4 DEF TypeOK, envVars
<1>6. SentInv'
  <2>1. orphans' \subseteq Sent /\ ledger' \subseteq Sent
    BY <1>1 DEF SentInv, envVars
  <2>2. \A q \in Row \ Sent : attempts'[q] = attempts[q]
    BY <1>1, <1>2 DEF Sent
  <2>3. QED
    BY <1>1, <1>2, <1>3, <2>1, <2>2, SentKept
<1>7. OrderInv'
  <2>1. \A q \in Row : state'[q] \in {"delivering", "delivered"} => state[q] \in {"delivering", "delivered"}
    BY <1>1, <1>2
  <2>2. QED
    BY <1>1, <1>2, <1>3, <2>1, OrderKept
<1>8. ProofInv'
  <2>1. ledger \subseteq Row
    BY <1>1 DEF TypeOK
  <2>2. \A q \in Row : state'[q] = "delivered" => state[q] = "delivered"
    BY <1>1, <1>2
  <2>3. QED
    BY <1>1, <1>2, <1>3, <2>1, <2>2, ProofKept
<1>9. ASSUME NEW q \in Sent \ disturbed PROVE Intact(q)'
  <2>1. /\ q \in Row /\ Intact(q) /\ to'[q] = to[q] /\ chances'[q] \in Nat /\ chances[q] \in Nat
        /\ attempts[q] \in Nat /\ attempts'[q] \in Nat
        /\ offset'[q] = offset[q] /\ chances'[q] >= chances[q] /\ orphans' = orphans
    BY <1>1, <1>2, <1>4, <1>9 DEF Sent, IInv, envVars, TypeOK
  <2>2. Reads(q)' = Reads(q)
    BY <2>1, SameReads
  <2>3. CASE q # r
    <3>1. \A g \in Handler : R(g) = q => job'[g] = job[g]
      BY <1>3, <2>3 DEF r
    <3>2. state'[q] = state[q] /\ attempts'[q] = attempts[q]
      BY <1>2, <2>1, <2>3
    <3>3. QED
      BY <1>1, <2>1, <2>2, <3>1, <3>2, IntactKept
  <2>4. CASE q = r
    <3>1. Holds(h, r) /\ job[h].pc # "read" /\ Reads(r) = {} /\ state[r] = "delivering"
      BY <1>1, <2>1, <2>4, SettlesTruly DEF r
    <3>2. attempts'[r] <= chances'[r]
      <4>1. CASE job[h].pc \in Launching
        <5>1. attempts[r] <= chances[r] + 1
          BY <2>1, <2>4 DEF Intact, AttemptsSpent
        <5>2. CASE outcome = "busy"
          BY <1>2, <2>1, <2>4, <3>1, <5>1, <5>2
        <5>3. CASE outcome # "busy"
          <6>1. chances'[r] = chances[r] + 1 /\ attempts'[r] = attempts[r]
            BY <1>2, <3>1, <4>1, <5>3 DEF r
          <6>2. QED
            BY <2>1, <2>4, <5>1, <6>1
        <5>4. QED
          BY <5>2, <5>3
      <4>2. CASE job[h].pc \notin Launching
        <5>1. \A g \in Handler : Holds(g, r) => g = h
          BY <2>1, <2>4, <3>1 DEF Intact, OneReader
        <5>2. attempts[r] <= chances[r]
          BY <2>1, <2>4, <4>2, <5>1 DEF Intact, AttemptsSpent
        <5>3. attempts'[r] <= attempts[r]
          BY <1>2, <2>1, <2>4, <3>1
        <5>4. QED
          BY <2>1, <2>4, <5>2, <5>3
      <4>3. QED
        BY <4>1, <4>2
    <3>3. state'[r] \in {"queued", "failed"}
      BY <1>2, <3>1
    <3>4. QED
      BY <1>1, <1>3, <2>1, <2>2, <2>4, <3>1, <3>2, <3>3, GivenBack
  <2>5. QED
    BY <2>3, <2>4
<1>10. (Sent \ disturbed)' = Sent \ disturbed
  BY <1>2, SentStay
<1>11. QED
  BY <1>5, <1>6, <1>7, <1>8, <1>9, <1>10 DEF IInv

LEMMA TurnFailsKeeps == ASSUME IInv, NEW h \in Handler, TurnFails(h) PROVE IInv'
<1>1. /\ job[h].pc \in Launching /\ UNCHANGED <<transcript, proc, run, envVars, disturbed>>
      /\ chances' = [chances EXCEPT ![R(h)] = @ + 1]
      /\ R(h) \in Row /\ TypeOK
  BY HandlerOf DEF TurnFails, IInv, Launching
<1>2. PICK outcome \in {"permanent", "ended"} : Settle(h, outcome)
  BY DEF TurnFails
<1>3. /\ chances' \in [Row -> Nat] /\ \A q \in Row : chances'[q] >= chances[q]
      /\ chances'[R(h)] = chances[R(h)] + 1
      /\ run' \in [Proc -> [Session -> {None, Human} \cup Handler]]
  BY <1>1 DEF TypeOK
<1>4. CASE Commits(h)
  BY <1>1, <1>3, <1>4, CommitsKeeps
<1>5. CASE ~Proven(R(h), job[h].off) /\ GivesBack(h, outcome)
  BY <1>1, <1>3, <1>5, GivesBackKeeps
<1>6. QED
  BY <1>2, <1>4, <1>5 DEF Settle

LEMMA TurnIsBusyKeeps == ASSUME IInv, NEW h \in Handler, TurnIsBusy(h) PROVE IInv'
<1>1. /\ job[h].pc = "dispatch" /\ UNCHANGED <<transcript, proc, run, envVars, disturbed>>
      /\ chances' = chances /\ TypeOK /\ Settle(h, "busy") /\ job[h].pc \in Launching
  BY DEF TurnIsBusy, IInv, Launching
<1>2. /\ chances' \in [Row -> Nat] /\ \A q \in Row : chances'[q] >= chances[q]
      /\ run' \in [Proc -> [Session -> {None, Human} \cup Handler]]
  BY <1>1 DEF TypeOK
<1>3. CASE Commits(h)
  BY <1>1, <1>2, <1>3, CommitsKeeps
<1>4. CASE ~Proven(R(h), job[h].off) /\ GivesBack(h, "busy")
  BY <1>1, <1>2, <1>4, GivesBackKeeps
<1>5. QED
  BY <1>1, <1>3, <1>4 DEF Settle

LEMMA TurnEndsKeeps == ASSUME IInv, NEW h \in Handler, TurnEnds(h) PROVE IInv'
<1>1. /\ job[h].pc \in {"turn", "read"} /\ UNCHANGED <<transcript, proc, envVars, disturbed>>
      /\ chances' = chances /\ TypeOK /\ Settle(h, "ended")
      /\ run' = [run EXCEPT ![P(h)][To(h)] = IF @ = h THEN None ELSE @]
  BY DEF TurnEnds, IInv
<1>2. /\ chances' \in [Row -> Nat] /\ \A q \in Row : chances'[q] >= chances[q]
  BY <1>1 DEF TypeOK
<1>3. run' \in [Proc -> [Session -> {None, Human} \cup Handler]]
  BY <1>1 DEF TypeOK
<1>4. CASE Commits(h)
  BY <1>1, <1>2, <1>3, <1>4, CommitsKeeps
<1>5. CASE ~Proven(R(h), job[h].off) /\ GivesBack(h, "ended")
  BY <1>1, <1>2, <1>3, <1>5, GivesBackKeeps
<1>6. QED
  BY <1>1, <1>4, <1>5 DEF Settle

(* The run guard lets the turn pass: nothing but the handler knows.          *)
LEMMA TurnPassesKeeps == ASSUME IInv, NEW h \in Handler, TurnPasses(h) PROVE IInv'
<1> DEFINE r == R(h)
<1>1. /\ TypeOK /\ SentInv /\ OrderInv /\ ProofInv /\ r \in Row /\ job[h].pc = "dispatch"
      /\ Goes(h, "starting")
      /\ UNCHANGED <<rowVars, ledger, transcript, proc, run, envVars, chances, disturbed, exposed>>
  BY HandlerOf DEF IInv, TurnPasses
<1>2. /\ job' \in [Handler -> Handlers] /\ pass' \in [Proc -> SUBSET Handler]
      /\ \A g \in Handler \ {h} : job'[g] = job[g]
      /\ job'[h].pc = "starting" /\ job'[h].off = job[h].off /\ job'[h].tries = job[h].tries
  BY <1>1, HandlerGoes
<1>3. \A q \in Row : chances'[q] = chances[q] /\ chances[q] \in Nat
  BY <1>1 DEF TypeOK
<1> HIDE DEF r
<1>4. TypeOK'
  BY <1>1, <1>2 DEF TypeOK, rowVars, envVars
<1>5. RowMoves
  BY <1>1 DEF rowVars, RowMoves
<1>6. SentInv'
  <2>1. orphans' \subseteq Sent /\ ledger' \subseteq Sent
    BY <1>1 DEF SentInv, envVars
  <2>2. QED
    BY <1>1, <1>2, <1>5, <2>1, SentKept DEF rowVars
<1>7. OrderInv'
  BY <1>1, <1>2, <1>5, OrderKept DEF rowVars
<1>8. ProofInv'
  <2>1. ledger \subseteq Row
    BY <1>1 DEF TypeOK
  <2>2. QED
    BY <1>1, <1>2, <1>5, <2>1, ProofKept DEF rowVars
<1>9. ASSUME NEW q \in Sent \ disturbed PROVE Intact(q)'
  <2>1. /\ q \in Row /\ Intact(q) /\ to'[q] = to[q]
        /\ state'[q] = state[q] /\ attempts'[q] = attempts[q] /\ offset'[q] = offset[q]
        /\ orphans' = orphans /\ attempts[q] \in Nat
    BY <1>1, <1>9 DEF Sent, IInv, rowVars, envVars, TypeOK
  <2>2. Reads(q)' = Reads(q)
    BY <1>1, <2>1, SameReads
  <2>3. CASE q # r
    <3>1. \A g \in Handler : R(g) = q => job'[g] = job[g]
      BY <1>2, <2>3 DEF r
    <3>2. QED
      BY <1>1, <1>3, <2>1, <2>2, <3>1, IntactKept
  <2>4. CASE q = r
    <3>1. Holds(h, r)
      BY <1>1 DEF Holds, HoldingPcs, r
    <3>2. \A g \in Handler : Holds(g, r)' => g = h
      <4>1. \A g \in Handler : Holds(g, r)' => Holds(g, r)
        BY <1>2, <3>1 DEF Holds
      <4>2. QED
        BY <2>1, <2>4, <3>1, <4>1 DEF Intact, OneReader
    <3>3. OneReader(r)'
      BY <2>1, <2>2, <2>4, <3>1, <3>2 DEF Intact, OneReader
    <3>4. HolderAgrees(h, r)'
      BY <1>1, <1>2, <2>1, <2>2, <2>4, <3>1 DEF Intact, HolderAgrees, Launching
    <3>5. AttemptsSpent(r)'
      <4>1. Holds(h, r)' /\ job'[h].pc \in Launching
        BY <1>2, <3>1 DEF Holds, HoldingPcs, Launching
      <4>2. QED
        BY <1>3, <2>1, <2>4, <4>1 DEF Intact, AttemptsSpent
    <3>6. QED
      BY <2>4, <3>2, <3>3, <3>4, <3>5 DEF Intact
  <2>5. QED
    BY <2>3, <2>4
<1>10. (Sent \ disturbed)' = Sent \ disturbed
  BY <1>1, <1>5, SentStay
<1>11. QED
  BY <1>4, <1>6, <1>7, <1>8, <1>9, <1>10 DEF IInv

LEMMA TurnStartsKeeps == ASSUME IInv, NEW h \in Handler, TurnStarts(h) PROVE IInv'
<1> DEFINE r == R(h)
<1>1. /\ TypeOK /\ SentInv /\ OrderInv /\ ProofInv /\ r \in Row /\ job[h].pc = "starting"
      /\ Goes(h, "turn") /\ chances' = [chances EXCEPT ![r] = @ + 1]
      /\ run' = [run EXCEPT ![P(h)][To(h)] = h]
      /\ UNCHANGED <<rowVars, ledger, transcript, proc, envVars, disturbed, exposed>>
  BY HandlerOf DEF IInv, TurnStarts
<1>2. /\ job' \in [Handler -> Handlers] /\ pass' \in [Proc -> SUBSET Handler]
      /\ \A g \in Handler \ {h} : job'[g] = job[g]
      /\ job'[h].pc = "turn" /\ job'[h].off = job[h].off /\ job'[h].tries = job[h].tries
  BY <1>1, HandlerGoes
<1>3. run' \in [Proc -> [Session -> {None, Human} \cup Handler]]
  BY <1>1 DEF TypeOK
<1>4. /\ chances' \in [Row -> Nat] /\ \A q \in Row : chances'[q] >= chances[q] /\ chances[q] \in Nat
      /\ chances'[r] = chances[r] + 1
  BY <1>1 DEF TypeOK
<1> HIDE DEF r
<1>5. TypeOK'
  BY <1>1, <1>2, <1>3, <1>4 DEF TypeOK, rowVars, envVars
<1>6. RowMoves
  BY <1>1 DEF rowVars, RowMoves
<1>7. SentInv'
  <2>1. orphans' \subseteq Sent /\ ledger' \subseteq Sent
    BY <1>1 DEF SentInv, envVars
  <2>2. QED
    BY <1>1, <1>2, <1>6, <2>1, SentKept DEF rowVars
<1>8. OrderInv'
  BY <1>1, <1>2, <1>6, OrderKept DEF rowVars
<1>9. ProofInv'
  <2>1. ledger \subseteq Row
    BY <1>1 DEF TypeOK
  <2>2. QED
    BY <1>1, <1>2, <1>6, <2>1, ProofKept DEF rowVars
<1>10. ASSUME NEW q \in Sent \ disturbed PROVE Intact(q)'
  <2>1. /\ q \in Row /\ Intact(q) /\ to'[q] = to[q]
        /\ state'[q] = state[q] /\ attempts'[q] = attempts[q] /\ offset'[q] = offset[q]
        /\ orphans' = orphans /\ attempts[q] \in Nat
    BY <1>1, <1>10 DEF Sent, IInv, rowVars, envVars, TypeOK
  <2>2. Reads(q)' = Reads(q)
    BY <1>1, <2>1, SameReads
  <2>3. CASE q # r
    <3>1. \A g \in Handler : R(g) = q => job'[g] = job[g]
      BY <1>2, <2>3 DEF r
    <3>2. QED
      BY <1>1, <1>4, <2>1, <2>2, <3>1, IntactKept
  <2>4. CASE q = r
    <3>1. Holds(h, r)
      BY <1>1 DEF Holds, HoldingPcs, r
    <3>2. \A g \in Handler : Holds(g, r)' => g = h
      <4>1. \A g \in Handler : Holds(g, r)' => Holds(g, r)
        BY <1>2, <3>1 DEF Holds
      <4>2. QED
        BY <2>1, <2>4, <3>1, <4>1 DEF Intact, OneReader
    <3>3. OneReader(r)'
      BY <2>1, <2>2, <2>4, <3>1, <3>2 DEF Intact, OneReader
    <3>4. HolderAgrees(h, r)'
      BY <1>1, <1>2, <2>1, <2>2, <2>4, <3>1 DEF Intact, HolderAgrees, Launching
    <3>5. AttemptsSpent(r)'
      BY <1>4, <2>1, <2>4 DEF Intact, AttemptsSpent
    <3>6. QED
      BY <2>4, <3>2, <3>3, <3>4, <3>5 DEF Intact
  <2>5. QED
    BY <2>3, <2>4
<1>11. (Sent \ disturbed)' = Sent \ disturbed
  BY <1>1, <1>6, SentStay
<1>12. QED
  BY <1>5, <1>7, <1>8, <1>9, <1>10, <1>11 DEF IInv

(* The delivery is recorded: the line behind it is there since the ledger.  *)
LEMMA ChargeKeeps == ASSUME IInv, NEW h \in Handler, Charge(h) PROVE IInv'
<1> DEFINE r == R(h)
<1>1. /\ TypeOK /\ SentInv /\ OrderInv /\ ProofInv /\ r \in Row /\ job[h].pc = "charge"
      /\ Moves(r, "delivering", "delivered", FALSE, FALSE) /\ Finishes(h)
      /\ UNCHANGED <<ledger, transcript, proc, run, envVars, chances, disturbed, exposed>>
  BY HandlerOf DEF IInv, Charge
<1>2. PlainMove(r, "delivering", "delivered")
  BY <1>1, WithoutRefund
<1>3. Reads(r) # {}
  BY <1>1 DEF ProofInv
<1> HIDE DEF r
<1>4. /\ state' \in [Row -> {"none", "delivering"} \cup Open \cup Finished]
      /\ wait' \subseteq Row /\ RowMoves /\ offset' = offset /\ attempts' = attempts
      /\ \A q \in Row \ {r} : state'[q] = state[q]
      /\ \/ state[r] # "delivering" /\ state' = state
         \/ state[r] = "delivering" /\ state'[r] = "delivered"
  <2>1. "delivered" \in Open \cup Finished /\ "delivering" \in Open \cup {"delivering"}
    BY DEF Finished
  <2>2. QED
    BY <1>1, <1>2, <2>1, PlainMoveEffect
<1>5. /\ job' \in [Handler -> Handlers] /\ pass' \in [Proc -> SUBSET Handler]
      /\ \A g \in Handler \ {h} : job'[g] = job[g]
      /\ job'[h].pc = "free"
  BY <1>1, HandlerLeaves
<1>6. to' = to /\ at' = at
  BY <1>4 DEF RowMoves
<1>7. TypeOK'
  BY <1>1, <1>4, <1>5, <1>6 DEF TypeOK, envVars
<1>8. SentInv'
  <2>1. orphans' \subseteq Sent /\ ledger' \subseteq Sent
    BY <1>1 DEF SentInv, envVars
  <2>2. QED
    BY <1>1, <1>4, <1>5, <2>1, SentKept
<1>9. OrderInv'
  <2>1. \A q \in Row : state'[q] \in {"delivering", "delivered"} => state[q] \in {"delivering", "delivered"}
    BY <1>1, <1>4
  <2>2. QED
    BY <1>1, <1>4, <1>5, <2>1, OrderKept
<1>10. ProofInv'
  <2>1. ledger \subseteq Row
    BY <1>1 DEF TypeOK
  <2>2. \A q \in Row : state'[q] = "delivered" => state[q] = "delivered" \/ Reads(q) # {}
    BY <1>1, <1>3, <1>4
  <2>3. QED
    BY <1>1, <1>4, <1>5, <2>1, <2>2, ProofKept
<1>11. ASSUME NEW q \in Sent \ disturbed PROVE Intact(q)'
  <2>1. /\ q \in Row /\ Intact(q) /\ to'[q] = to[q] /\ chances'[q] \in Nat /\ chances[q] \in Nat
        /\ attempts'[q] = attempts[q] /\ offset'[q] = offset[q] /\ chances' = chances
        /\ attempts[q] \in Nat /\ orphans' = orphans
    BY <1>1, <1>4, <1>6, <1>11 DEF Sent, IInv, envVars, TypeOK
  <2>2. Reads(q)' = Reads(q)
    BY <1>1, <2>1, SameReads
  <2>3. CASE q # r
    <3>1. \A g \in Handler : R(g) = q => job'[g] = job[g]
      BY <1>5, <2>3 DEF r
    <3>2. state'[q] = state[q]
      BY <1>4, <2>1, <2>3
    <3>3. QED
      BY <1>1, <2>1, <2>2, <3>1, <3>2, IntactKept
  <2>4. CASE q = r
    <3>1. Holds(h, r) /\ r \notin orphans
      BY <1>1, <2>1, <2>4 DEF Holds, HoldingPcs, r, Intact, OneReader
    <3>2. state'[r] = "delivered"
      BY <1>4, <2>1, <2>4, <3>1 DEF Intact, HolderAgrees
    <3>3. \A g \in Handler : ~Holds(g, r)'
      BY <1>5, <2>1, <2>4, <3>1 DEF Intact, OneReader, Holds, HoldingPcs
    <3>4. OneReader(r)'
      BY <2>1, <2>2, <2>4, <3>1, <3>2, <3>3 DEF Intact, OneReader, Open
    <3>5. attempts[r] <= chances[r]
      <4>1. \A g \in Handler : Holds(g, r) => g = h
        BY <2>1, <2>4, <3>1 DEF Intact, OneReader
      <4>2. QED
        BY <1>1, <2>1, <2>4, <4>1 DEF Intact, AttemptsSpent
    <3>6. AttemptsSpent(r)'
      BY <2>1, <2>4, <3>5 DEF AttemptsSpent
    <3>7. QED
      BY <2>4, <3>3, <3>4, <3>6 DEF Intact
  <2>5. QED
    BY <2>3, <2>4
<1>12. (Sent \ disturbed)' = Sent \ disturbed
  BY <1>1, <1>4, SentStay
<1>13. QED
  BY <1>7, <1>8, <1>9, <1>10, <1>11, <1>12 DEF IInv

-----------------------------------------------------------------------------
(* A line is written by the holder or the orphan of its message.            *)
LEMMA LineWritten ==
    ASSUME IInv, TypeOK', NEW r \in Sent,
           transcript' = [transcript EXCEPT ![to[r]] = Append(@, r)],
           UNCHANGED <<rowVars, ledger, chances, disturbed>>,
           \A g \in Handler : R(g) # r => job'[g] = job[g],
           \A g \in Handler : /\ job'[g].pc # "free" => job[g].pc # "free"
                              /\ job'[g].pc \in {"gate", "charge"} => job[g].pc = job'[g].pc,
           orphans' \subseteq orphans,
           r \notin disturbed => Intact(r)'
    PROVE  IInv'
<1>1. TypeOK /\ SentInv /\ OrderInv /\ ProofInv /\ to' = to /\ r \in Row
  BY DEF IInv, rowVars, Sent
<1>2. /\ \A s \in Session : Len(transcript'[s]) >= Len(transcript[s]) /\ Len(transcript[s]) \in Nat
      /\ \A q \in Sent \ {r} : Reads(q)' = Reads(q)
      /\ Reads(r)' = Reads(r) \cup {Len(transcript[to[r]]) + 1}
      /\ \A s \in Session : \A i \in DOMAIN transcript'[s] :
            \/ i \in DOMAIN transcript[s] /\ transcript'[s][i] = transcript[s][i]
            \/ s = to[r] /\ transcript'[s][i] = r
  BY <1>1, NewLine
<1>3. RowMoves /\ Sent' = Sent
  BY SentStay DEF rowVars, RowMoves
<1>4. SentInv'
  <2>1. \A q \in Sent : to'[q] \in Session /\ offset'[q] <= Len(transcript'[to'[q]])
    <3>1. SUFFICES ASSUME NEW q \in Sent
                   PROVE  to[q] \in Session /\ offset[q] <= Len(transcript'[to[q]])
      BY <1>1 DEF rowVars
    <3>2. to[q] \in Session /\ offset[q] <= Len(transcript[to[q]]) /\ offset[q] \in Nat
      BY <1>1 DEF SentInv, TypeOK, Sent
    <3>3. Len(transcript'[to[q]]) >= Len(transcript[to[q]]) /\ Len(transcript[to[q]]) \in Nat
      BY <1>2, <3>2
    <3>4. Len(transcript'[to[q]]) \in Nat
      BY <1>2, <3>2 DEF TypeOK
    <3>5. QED
      BY <3>2, <3>3, <3>4
  <2>2. \A s \in Session : \A i \in DOMAIN transcript'[s] :
           transcript'[s][i] \in Sent /\ to[transcript'[s][i]] = s
    BY <1>1, <1>2 DEF SentInv
  <2>3. \A g \in Handler : job'[g].pc # "free" => R(g) \in Sent
    BY <1>1 DEF SentInv
  <2>4. orphans' \subseteq Sent /\ ledger' \subseteq Sent
    BY <1>1 DEF SentInv
  <2>5. \A q \in Row \ Sent : attempts'[q] = 0 /\ offset'[q] = 0
    BY <1>1 DEF SentInv, rowVars
  <2>6. QED
    BY <1>1, <1>3, <2>1, <2>2, <2>3, <2>4, <2>5 DEF SentInv
<1>5. OrderInv'
  BY <1>1, <1>3, OrderKept DEF rowVars
<1>6. ProofInv'
  <2>1. \A q \in Sent : Reads(q) # {} => Reads(q)' # {}
    BY <1>2
  <2>2. ledger \subseteq Sent
    BY <1>1 DEF SentInv
  <2>3. QED
    BY <1>1, <1>3, <2>1, <2>2 DEF ProofInv, rowVars
<1>7. ASSUME NEW q \in Sent \ disturbed PROVE Intact(q)'
  <2>1. CASE q = r
    BY <1>7, <2>1
  <2>2. CASE q # r
    <3>1. /\ q \in Row /\ Intact(q) /\ chances'[q] \in Nat /\ chances'[q] >= chances[q]
          /\ state'[q] = state[q] /\ attempts'[q] = attempts[q] /\ offset'[q] = offset[q]
      BY <1>1, <1>7 DEF Sent, IInv, rowVars, TypeOK
    <3>2. Reads(q)' = Reads(q)
      BY <1>2, <1>7, <2>2
    <3>3. \A g \in Handler : R(g) = q => job'[g] = job[g]
      BY <2>2
    <3>4. QED
      BY <1>1, <3>1, <3>2, <3>3, IntactKept
  <2>3. QED
    BY <2>1, <2>2
<1>8. QED
  BY <1>3, <1>4, <1>5, <1>6, <1>7 DEF IInv

LEMMA CliReadsKeeps == ASSUME IInv, NEW h \in Handler, CliReads(h) PROVE IInv'
<1> DEFINE r == R(h)
<1>1. /\ TypeOK /\ SentInv /\ r \in Row /\ r \in Sent /\ job[h].pc = "turn"
      /\ Goes(h, "read")
      /\ transcript' = [transcript EXCEPT ![to[r]] = Append(@, r)]
      /\ UNCHANGED <<rowVars, ledger, proc, run, envVars, chances, disturbed, exposed>>
  BY HandlerOf DEF IInv, SentInv, CliReads, To
<1>2. /\ job' \in [Handler -> Handlers] /\ pass' \in [Proc -> SUBSET Handler]
      /\ \A g \in Handler \ {h} : job'[g] = job[g]
      /\ job'[h].pc = "read" /\ job'[h].off = job[h].off /\ job'[h].tries = job[h].tries
  BY <1>1, HandlerGoes
<1> HIDE DEF r
<1>3. /\ transcript' \in [Session -> Seq(Row)]
      /\ Len(transcript[to[r]]) \in Nat /\ offset[r] <= Len(transcript[to[r]])
      /\ Reads(r)' = Reads(r) \cup {Len(transcript[to[r]]) + 1}
  <2>1. to' = to /\ to[r] \in Session /\ offset[r] <= Len(transcript[to[r]])
    BY <1>1 DEF rowVars, SentInv
  <2>2. QED
    BY <1>1, <2>1, NewLine
<1>4. TypeOK'
  BY <1>1, <1>2, <1>3 DEF TypeOK, rowVars, envVars
<1>5. ASSUME r \notin disturbed PROVE Intact(r)'
  <2>1. /\ Intact(r) /\ offset[r] \in Nat /\ attempts[r] \in Nat
        /\ state'[r] = state[r] /\ attempts'[r] = attempts[r] /\ offset'[r] = offset[r]
        /\ orphans' = orphans /\ chances' = chances
    BY <1>1, <1>5 DEF IInv, rowVars, envVars, TypeOK
  <2>2. Holds(h, r)
    BY <1>1 DEF Holds, HoldingPcs, r
  <2>3. /\ state[r] = "delivering" /\ Reads(r) = {} /\ r \notin orphans
        /\ \A g \in Handler : Holds(g, r) => g = h
    BY <1>1, <2>1, <2>2 DEF Intact, OneReader, HolderAgrees
  <2>4. \A g \in Handler : Holds(g, r)' => g = h
    BY <1>2, <2>3 DEF Holds
  <2>5. Reads(r)' = {Len(transcript[to[r]]) + 1} /\ Len(transcript[to[r]]) + 1 > offset[r]
    BY <1>3, <2>1, <2>3
  <2>6. OneReader(r)'
    BY <2>1, <2>3, <2>4, <2>5 DEF OneReader, Open
  <2>7. HolderAgrees(h, r)'
    BY <1>2, <2>1, <2>2, <2>3, <2>5 DEF Intact, HolderAgrees
  <2>8. AttemptsSpent(r)'
    BY <1>1, <2>1, <2>3 DEF Intact, AttemptsSpent
  <2>9. QED
    BY <2>4, <2>6, <2>7, <2>8 DEF Intact
<1>6. \A g \in Handler : R(g) # r => job'[g] = job[g]
  BY <1>2 DEF r
<1>7. \A g \in Handler : /\ job'[g].pc # "free" => job[g].pc # "free"
                         /\ job'[g].pc \in {"gate", "charge"} => job[g].pc = job'[g].pc
  BY <1>1, <1>2
<1>8. QED
  BY <1>1, <1>4, <1>5, <1>6, <1>7, LineWritten DEF envVars

LEMMA OrphanReadsKeeps == ASSUME IInv, NEW r \in Row, OrphanReads(r) PROVE IInv'
<1>1. /\ TypeOK /\ SentInv /\ r \in Sent /\ r \in orphans /\ orphans' = orphans \ {r}
      /\ transcript' = [transcript EXCEPT ![to[r]] = Append(@, r)]
      /\ UNCHANGED <<rowVars, ledger, proc, pass, job, run, boots, humans, chances, disturbed, exposed>>
  BY DEF IInv, SentInv, OrphanReads
<1>2. /\ transcript' \in [Session -> Seq(Row)]
      /\ Len(transcript[to[r]]) \in Nat /\ offset[r] <= Len(transcript[to[r]])
      /\ Reads(r)' = Reads(r) \cup {Len(transcript[to[r]]) + 1}
  <2>1. to' = to /\ to[r] \in Session /\ offset[r] <= Len(transcript[to[r]])
    BY <1>1 DEF rowVars, SentInv
  <2>2. QED
    BY <1>1, <2>1, NewLine
<1>3. TypeOK'
  BY <1>1, <1>2 DEF TypeOK, rowVars
<1>4. ASSUME r \notin disturbed PROVE Intact(r)'
  <2>1. /\ Intact(r) /\ offset[r] \in Nat /\ attempts[r] \in Nat
        /\ state'[r] = state[r] /\ attempts'[r] = attempts[r] /\ offset'[r] = offset[r]
        /\ chances' = chances /\ job' = job /\ r \notin orphans'
    BY <1>1, <1>4 DEF IInv, rowVars, TypeOK
  <2>2. state[r] = "delivering" /\ Reads(r) = {} /\ \A g \in Handler : ~Holds(g, r)
    BY <1>1, <2>1 DEF Intact, OneReader
  <2>3. Reads(r)' = {Len(transcript[to[r]]) + 1} /\ Len(transcript[to[r]]) + 1 > offset[r]
    BY <1>2, <2>1, <2>2
  <2>4. \A g \in Handler : ~Holds(g, r)'
    BY <2>1, <2>2 DEF Holds
  <2>5. OneReader(r)'
    BY <2>1, <2>2, <2>3, <2>4 DEF OneReader, Open
  <2>6. AttemptsSpent(r)'
    BY <2>1, <2>2, <2>4 DEF Intact, AttemptsSpent
  <2>7. QED
    BY <2>4, <2>5, <2>6 DEF Intact
<1>5. QED
  BY <1>1, <1>3, <1>4, LineWritten

-----------------------------------------------------------------------------
(* A process dies: what it had dispatched counts as a chance, and a turn    *)
(* under way may leave its orphan behind as the one reader.                 *)
LEMMA DiesKeeps ==
    ASSUME IInv, NEW p \in Proc, Dies(p) PROVE IInv'
<1> DEFINE Lost(r) == {h \in Mine(p) : R(h) = r /\ job[h].pc \in Launching}
<1>1. /\ TypeOK /\ SentInv /\ OrderInv /\ ProofInv
      /\ proc' = [proc EXCEPT ![p] = "off"] /\ pass' = [pass EXCEPT ![p] = {}]
      /\ job' = [h \in Handler |-> IF P(h) = p THEN Free ELSE job[h]]
      /\ run' = [run EXCEPT ![p] = [s \in Session |-> None]]
      /\ chances' = [r \in Row |-> chances[r] + Cardinality(Lost(r))]
      /\ UNCHANGED <<rowVars, ledger, transcript, boots, humans, disturbed, exposed>>
  BY DEF IInv, Dies
<1>2. PICK o \in SUBSET {R(h) : h \in {g \in Mine(p) : job[g].pc = "turn"}} : orphans' = orphans \cup o
  BY DEF Dies
<1>3. ASSUME NEW r \in Row
      PROVE  /\ Cardinality(Lost(r)) \in Nat
             /\ Lost(r) # {} => Cardinality(Lost(r)) >= 1
  <2>1. Lost(r) \in SUBSET {<<p, r>>}
    BY HandlerOf DEF Mine
  <2>2. IsFiniteSet(Lost(r))
    BY <2>1, FS_Singleton, FS_Subset
  <2>3. QED
    BY <2>2, FS_CardinalityType, FS_EmptySet
<1>4. /\ chances' \in [Row -> Nat]
      /\ \A r \in Row : /\ chances'[r] \in Nat /\ chances[r] \in Nat /\ chances'[r] >= chances[r]
                        /\ Lost(r) # {} => chances'[r] >= chances[r] + 1
  <2>1. \A r \in Row : chances[r] \in Nat /\ chances'[r] = chances[r] + Cardinality(Lost(r))
    BY <1>1 DEF TypeOK
  <2> DEFINE N(r) == Cardinality(Lost(r))
  <2>2. \A r \in Row : N(r) \in Nat /\ (Lost(r) # {} => N(r) >= 1) /\ chances'[r] = chances[r] + N(r)
    BY <1>3, <2>1
  <2> HIDE DEF N, Lost
  <2>3. \A r \in Row : chances'[r] \in Nat /\ chances'[r] >= chances[r]
                       /\ (Lost(r) # {} => chances'[r] >= chances[r] + 1)
    BY <2>1, <2>2
  <2>4. chances' = [r \in Row |-> chances'[r]]
    BY <1>1
  <2>5. QED
    BY <2>1, <2>3, <2>4
<1>5. \A h \in Handler : /\ P(h) # p => job'[h] = job[h]
                         /\ P(h) = p => job'[h] = Free
  BY <1>1
<1>6. Free \in Handlers /\ Free.pc = "free"
  BY DEF Free, Handlers, Open
<1>7. job' \in [Handler -> Handlers]
  BY <1>1, <1>6 DEF TypeOK
<1>8. o \subseteq Sent
  BY <1>1 DEF Mine, SentInv
<1>9. TypeOK'
  <2>1. proc' \in [Proc -> {"off", "up", "paused"}] /\ pass' \in [Proc -> SUBSET Handler]
    BY <1>1 DEF TypeOK
  <2>2. run' \in [Proc -> [Session -> {None, Human} \cup Handler]]
    BY <1>1 DEF TypeOK
  <2>3. orphans' \subseteq Row
    BY <1>1, <1>2, <1>8 DEF TypeOK, Sent
  <2>4. QED
    BY <1>1, <1>4, <1>7, <2>1, <2>2, <2>3 DEF TypeOK, rowVars
<1> HIDE DEF Lost
<1>10. RowMoves
  BY <1>1 DEF rowVars, RowMoves
<1>11. SentInv'
  <2>1. orphans' \subseteq Sent /\ ledger' \subseteq Sent
    BY <1>1, <1>2, <1>8 DEF SentInv
  <2>2. \A h \in Handler : job'[h].pc # "free" => job[h].pc # "free"
    BY <1>5, <1>6
  <2>3. QED
    BY <1>1, <1>10, <2>1, <2>2, SentKept DEF rowVars
<1>12. OrderInv'
  <2>1. \A h \in Handler : job'[h].pc = "gate" => job[h].pc = "gate"
    BY <1>5, <1>6
  <2>2. QED
    BY <1>1, <1>10, <2>1, OrderKept DEF rowVars
<1>13. ProofInv'
  <2>1. ledger \subseteq Row
    BY <1>1 DEF TypeOK
  <2>2. \A h \in Handler : job'[h].pc = "charge" => job[h].pc = "charge"
    BY <1>5, <1>6
  <2>3. QED
    BY <1>1, <1>10, <2>1, <2>2, ProofKept DEF rowVars
<1>14. ASSUME NEW q \in Sent \ disturbed PROVE Intact(q)'
  <2>1. /\ q \in Row /\ Intact(q) /\ to'[q] = to[q] /\ attempts[q] \in Nat
        /\ state'[q] = state[q] /\ attempts'[q] = attempts[q] /\ offset'[q] = offset[q]
        /\ chances[q] \in Nat /\ chances'[q] \in Nat /\ chances'[q] >= chances[q]
    BY <1>1, <1>4, <1>14 DEF Sent, IInv, rowVars, TypeOK
  <2>2. Reads(q)' = Reads(q)
    BY <1>1, <2>1, SameReads
  <2>3. CASE \E h \in Handler : Holds(h, q) /\ P(h) = p
    <3>1. PICK h \in Handler : Holds(h, q) /\ P(h) = p
      BY <2>3
    <3>2. q \notin orphans /\ \A g \in Handler : Holds(g, q) => g = h
      BY <2>1, <3>1 DEF Intact, OneReader
    <3>3. \A g \in Handler : ~Holds(g, q)'
      BY <1>5, <1>6, <3>1, <3>2 DEF Holds, HoldingPcs
    <3>4. q \in orphans' => state[q] = "delivering" /\ Reads(q) = {}
      <4>1. SUFFICES ASSUME q \in o PROVE state[q] = "delivering" /\ Reads(q) = {}
        BY <1>2, <3>2
      <4>2. PICK g \in Handler : job[g].pc = "turn" /\ R(g) = q
        BY <4>1 DEF Mine
      <4>3. Holds(g, q)
        BY <4>2 DEF Holds, HoldingPcs
      <4>4. QED
        BY <2>1, <4>2, <4>3 DEF Intact, HolderAgrees
    <3>5. OneReader(q)'
      BY <2>1, <2>2, <3>3, <3>4 DEF Intact, OneReader
    <3>6. attempts[q] <= chances'[q]
      <4>1. CASE job[h].pc \in Launching
        <5>1. h \in Lost(q)
          BY <3>1, <4>1 DEF Lost, Mine, Holds
        <5>2. attempts[q] <= chances[q] + 1 /\ chances'[q] >= chances[q] + 1
          BY <1>4, <2>1, <5>1 DEF Intact, AttemptsSpent
        <5>3. QED
          BY <2>1, <5>2
      <4>2. CASE job[h].pc \notin Launching
        <5>1. attempts[q] <= chances[q]
          BY <2>1, <3>2, <4>2 DEF Intact, AttemptsSpent
        <5>2. QED
          BY <2>1, <5>1
      <4>3. QED
        BY <4>1, <4>2
    <3>7. AttemptsSpent(q)'
      BY <2>1, <3>6 DEF AttemptsSpent
    <3>8. QED
      BY <3>3, <3>5, <3>7 DEF Intact
  <2>4. CASE \A h \in Handler : Holds(h, q) => P(h) # p
    <3>1. q \notin o
      BY <2>4 DEF Mine, Holds, HoldingPcs
    <3>2. q \in orphans' => q \in orphans
      BY <1>2, <3>1
    <3>3. \A h \in Handler : R(h) = q =>
             \/ job'[h] = job[h]
             \/ job[h].pc \notin HoldingPcs /\ job'[h].pc \notin HoldingPcs
      BY <1>5, <1>6, <2>4 DEF Holds, HoldingPcs
    <3>4. QED
      BY <1>1, <2>1, <2>2, <3>2, <3>3, IntactKept
  <2>5. QED
    BY <2>3, <2>4
<1>15. (Sent \ disturbed)' = Sent \ disturbed
  BY <1>1, <1>10, SentStay
<1>16. QED
  BY <1>9, <1>11, <1>12, <1>13, <1>14, <1>15 DEF IInv

LEMMA ExitKeeps == ASSUME IInv, NEW p \in Proc, Exit(p) PROVE IInv'
BY DiesKeeps DEF Exit

LEMMA CrashKeeps == ASSUME IInv, NEW p \in Proc, Crash(p) PROVE IInv'
BY DiesKeeps DEF Crash

(* The repair of a boot: an intact row with a line is delivered, and one    *)
(* that goes back to the queue without one is nobody's any more.            *)
LEMMA BootKeeps == ASSUME IInv, NEW p \in Proc, Boot(p) PROVE IInv'
<1> DEFINE left == {r \in Row : state[r] = "delivering"}
<1>1. /\ TypeOK /\ SentInv /\ OrderInv /\ ProofInv
      /\ boots < MaxBoots /\ boots' = boots + 1 /\ proc' = [proc EXCEPT ![p] = "up"]
      /\ state' = [r \in Row |-> IF r \notin left THEN state[r]
                                 ELSE IF Repaired(r) THEN "delivered" ELSE "queued"]
      /\ ledger' = ledger \cup {r \in left : Repaired(r)}
      /\ wait' = wait \ left
      /\ disturbed' = disturbed \cup {r \in left : ~Repaired(r) /\ HeldElsewhere(r)}
      /\ exposed' = {}
      /\ UNCHANGED <<to, at, attempts, offset, transcript, pass, job, run, orphans, humans, chances>>
  BY DEF IInv, Boot
<1>2. \A r \in Row : /\ state[r] # "delivering" => state'[r] = state[r]
                     /\ state[r] = "delivering" /\ Repaired(r) => state'[r] = "delivered"
                     /\ state[r] = "delivering" /\ ~Repaired(r) => state'[r] = "queued"
  BY <1>1
<1>3. \A r \in Row : /\ r \in ledger' <=> r \in ledger \/ (state[r] = "delivering" /\ Repaired(r))
                     /\ r \in disturbed' <=> \/ r \in disturbed
                                             \/ state[r] = "delivering" /\ ~Repaired(r) /\ HeldElsewhere(r)
  BY <1>1
<1>4. TypeOK'
  <2>1. boots' \in 0..MaxBoots
    BY <1>1, RelayAssumption DEF TypeOK
  <2>2. state' \in [Row -> {"none", "delivering"} \cup Open \cup Finished]
    BY <1>1 DEF TypeOK, Open, Finished
  <2>3. proc' \in [Proc -> {"off", "up", "paused"}]
    BY <1>1 DEF TypeOK
  <2>4. ledger' \subseteq Row /\ disturbed' \subseteq Row /\ wait' \subseteq Row /\ exposed' \subseteq Row
    BY <1>1 DEF TypeOK
  <2>5. QED
    BY <1>1, <2>1, <2>2, <2>3, <2>4 DEF TypeOK
<1>5. \A r \in Row : Repaired(r) => Reads(r) # {}
  <2>1. SUFFICES ASSUME NEW r \in Row, Proven(r, offset[r]) PROVE Reads(r) # {}
    BY <1>1 DEF Repaired, ProofInv
  <2>2. QED
    BY <2>1 DEF Proven, Reads
<1>6. ledger \subseteq ledger' /\ ledger' \subseteq Row /\ transcript' = transcript /\ job' = job
  BY <1>1, <1>4 DEF TypeOK
<1> HIDE DEF left
<1>7. RowMoves
  BY <1>1, <1>2 DEF RowMoves, Open, Finished
<1>8. SentInv'
  <2>1. \A r \in Row : state[r] = "delivering" => r \in Sent
    BY DEF Sent
  <2>2. orphans' \subseteq Sent /\ ledger' \subseteq Sent
    BY <1>1, <1>3, <1>6, <2>1 DEF SentInv
  <2>3. QED
    BY <1>1, <1>7, <2>2, SentKept
<1>9. OrderInv'
  <2>1. \A r \in Row : state'[r] \in {"delivering", "delivered"} => state[r] \in {"delivering", "delivered"}
    BY <1>2
  <2>2. QED
    BY <1>1, <1>7, <2>1, OrderKept
<1>10. ProofInv'
  <2>1. \A r \in ledger' : r \in ledger \/ Reads(r) # {}
    BY <1>3, <1>5, <1>6
  <2>2. \A r \in Row : state'[r] = "delivered" => state[r] = "delivered" \/ Reads(r) # {}
    BY <1>2, <1>5
  <2>3. QED
    BY <1>1, <1>6, <1>7, <2>1, <2>2, ProofKept
<1>11. ASSUME NEW q \in Sent \ disturbed' PROVE Intact(q)'
  <2>1. /\ q \in Row /\ q \notin disturbed /\ Intact(q) /\ to'[q] = to[q]
        /\ attempts'[q] = attempts[q] /\ offset'[q] = offset[q] /\ chances'[q] = chances[q]
        /\ orphans' = orphans /\ chances[q] \in Nat /\ attempts[q] \in Nat /\ offset[q] \in Nat
    BY <1>1, <1>3, <1>11 DEF Sent, IInv, TypeOK
  <2>2. Reads(q)' = Reads(q)
    BY <1>1, <2>1, SameReads
  <2>3. CASE state[q] # "delivering"
    <3>1. state'[q] = state[q]
      BY <1>2, <2>1, <2>3
    <3>2. QED
      BY <1>1, <1>6, <2>1, <2>2, <3>1, IntactKept
  <2>4. CASE state[q] = "delivering" /\ Repaired(q)
    <3>1. state'[q] = "delivered" /\ Reads(q) # {}
      BY <1>2, <1>5, <2>1, <2>4
    <3>2. \A g \in Handler : Holds(g, q)' <=> Holds(g, q)
      BY <1>6 DEF Holds
    <3>3. OneReader(q)'
      BY <2>1, <2>2, <3>1, <3>2 DEF Intact, OneReader, Open
    <3>4. \A g \in Handler : Holds(g, q)' => HolderAgrees(g, q)'
      BY <1>6, <2>1, <2>2, <3>1, <3>2 DEF Intact, HolderAgrees
    <3>5. AttemptsSpent(q)'
      BY <1>6, <2>1, <3>2 DEF Intact, AttemptsSpent
    <3>6. QED
      BY <3>3, <3>4, <3>5 DEF Intact
  <2>5. CASE state[q] = "delivering" /\ ~Repaired(q)
    <3>1. state'[q] = "queued" /\ ~HeldElsewhere(q) /\ q \notin ledger
      BY <1>2, <1>3, <1>11, <2>1, <2>5 DEF Repaired
    <3>2. q \notin orphans /\ \A g \in Handler : ~Holds(g, q)
      BY <1>1, <3>1 DEF HeldElsewhere, Holds, HoldingPcs, ProofInv
    <3>3. Reads(q) = {}
      <4>1. ~\E i \in Reads(q) : i > offset[q]
        BY <2>1, <2>5, LineProves DEF Repaired
      <4>2. QED
        BY <2>1, <2>5, <4>1 DEF Intact, OneReader
    <3>4. \A g \in Handler : ~Holds(g, q)'
      BY <1>6, <3>2 DEF Holds
    <3>5. OneReader(q)'
      BY <2>1, <2>2, <3>1, <3>2, <3>3, <3>4 DEF OneReader
    <3>6. AttemptsSpent(q)'
      BY <2>1, <3>2 DEF Intact, AttemptsSpent
    <3>7. QED
      BY <3>4, <3>5, <3>6 DEF Intact
  <2>6. QED
    BY <2>3, <2>4, <2>5
<1>12. (Sent \ disturbed)' = Sent \ disturbed'
  BY <1>7, SentStay
<1>13. QED
  BY <1>4, <1>8, <1>9, <1>10, <1>11, <1>12 DEF IInv

(* A pass begins with the oldest open message of each idle target.          *)
LEMMA TickKeeps == ASSUME IInv, NEW p \in Proc, Tick(p) PROVE IInv'
<1>0. PICK l \in Listed :
         LET calls == {<<p, r>> : r \in {q \in l : run[p][to[q]] = None}}
         IN /\ \A h \in calls : job[h].pc = "free"
            /\ job' = [h \in Handler |-> IF h \in calls
                          THEN [Free EXCEPT !.pc = "gate", !.from = state[R(h)]] ELSE job[h]]
            /\ pass' = [pass EXCEPT ![p] = calls]
  BY DEF Tick
<1> DEFINE calls == {<<p, r>> : r \in {q \in l : run[p][to[q]] = None}}
<1>1. /\ TypeOK /\ SentInv /\ OrderInv /\ ProofInv
      /\ \A h \in calls : job[h].pc = "free"
      /\ job' = [h \in Handler |-> IF h \in calls
                    THEN [Free EXCEPT !.pc = "gate", !.from = state[R(h)]] ELSE job[h]]
      /\ pass' = [pass EXCEPT ![p] = calls]
      /\ UNCHANGED <<rowVars, ledger, transcript, proc, run, envVars, chances, disturbed, exposed>>
  BY <1>0 DEF IInv, Tick
<1>2. \A r \in l : /\ r \in Row /\ Oldest(r)
                   /\ \A d \in Row : to[d] = to[r] => state[d] # "delivering"
  BY DEF Listed, Deliverable
<1>3. \A h \in calls : h \in Handler /\ R(h) \in l /\ R(h) \in Row /\ state[R(h)] \in Open
  BY <1>2 DEF Oldest, Handler, R
<1>4. \A h \in Handler : /\ h \in calls => job'[h] = [Free EXCEPT !.pc = "gate", !.from = state[R(h)]]
                         /\ h \notin calls => job'[h] = job[h]
  BY <1>1
<1>5. \A h \in calls : /\ job[h].pc = "free" /\ job'[h].pc = "gate" /\ R(h) \in l
                       /\ R(h) \in Sent /\ job'[h] \in Handlers
  BY <1>1, <1>3, <1>4 DEF Free, Handlers, Open, Sent
<1>6. calls \in SUBSET Handler
  BY <1>3
<1> HIDE DEF calls
<1>7. job' \in [Handler -> Handlers]
  <2>1. \A h \in Handler : job'[h] \in Handlers
    BY <1>1, <1>4, <1>5 DEF TypeOK
  <2>2. job' = [h \in Handler |-> job'[h]]
    BY <1>1
  <2>3. QED
    BY <2>1, <2>2
<1>8. pass' \in [Proc -> SUBSET Handler]
  BY <1>1, <1>6 DEF TypeOK
<1>9. TypeOK'
  BY <1>1, <1>7, <1>8 DEF TypeOK, rowVars, envVars
<1>10. RowMoves /\ Sent' = Sent /\ to' = to /\ at' = at /\ state' = state
  BY <1>1, SentStay DEF rowVars, RowMoves
<1>11. SentInv'
  <2>1. orphans' \subseteq Sent /\ ledger' \subseteq Sent
    BY <1>1 DEF SentInv, envVars
  <2>2. \A h \in Handler : job'[h].pc # "free" => job[h].pc # "free" \/ R(h) \in Sent
    BY <1>4, <1>5
  <2>3. QED
    BY <1>1, <1>10, <2>1, <2>2, SentKept DEF rowVars
<1>12. OrderInv'
  <2>1. SUFFICES ASSUME NEW q \in Sent, NEW r \in Sent, at[q] < at[r], to[q] = to[r],
                        \/ state[r] \in {"delivering", "delivered"}
                        \/ \E h \in Handler : AtGate(h, r)'
                 PROVE  state[q] \in Finished
    BY <1>10 DEF OrderInv
  <2>2. CASE state[r] \in {"delivering", "delivered"} \/ \E h \in Handler : AtGate(h, r)
    BY <1>1, <2>1, <2>2 DEF OrderInv
  <2>3. CASE \E h \in calls : R(h) = r
    <3>1. r \in l /\ q \in Row /\ state[q] # "none"
      BY <1>5, <2>3 DEF Sent
    <3>2. state[q] \notin Open /\ state[q] # "delivering"
      BY <1>2, <2>1, <3>1 DEF Oldest, Before
    <3>3. QED
      BY <1>1, <3>1, <3>2 DEF TypeOK
  <2>4. (\E h \in Handler : AtGate(h, r)') => (\E h \in Handler : AtGate(h, r)) \/ \E h \in calls : R(h) = r
    BY <1>4 DEF AtGate
  <2>5. QED
    BY <2>1, <2>2, <2>3, <2>4
<1>13. ProofInv'
  <2>1. ledger \subseteq Row
    BY <1>1 DEF TypeOK
  <2>2. \A h \in Handler : job'[h].pc = "charge" => job[h].pc = "charge"
    BY <1>4, <1>5
  <2>3. QED
    BY <1>1, <1>10, <2>1, <2>2, ProofKept
<1>14. ASSUME NEW q \in Sent \ disturbed PROVE Intact(q)'
  <2>1. /\ q \in Row /\ Intact(q) /\ to'[q] = to[q] /\ chances'[q] \in Nat /\ chances'[q] >= chances[q]
        /\ state'[q] = state[q] /\ attempts'[q] = attempts[q] /\ offset'[q] = offset[q]
        /\ orphans' = orphans
    <3>1. q \in Row /\ Intact(q)
      BY <1>14 DEF Sent, IInv
    <3>2. chances[q] \in Nat /\ chances' = chances
      BY <1>1, <3>1 DEF TypeOK
    <3>3. state' = state /\ to' = to /\ attempts' = attempts /\ offset' = offset /\ orphans' = orphans
      BY <1>1 DEF rowVars, envVars
    <3>4. QED
      BY <3>1, <3>2, <3>3
  <2>2. Reads(q)' = Reads(q)
    BY <1>1, <2>1, SameReads
  <2>3. \A h \in Handler : \/ job'[h] = job[h]
                           \/ job[h].pc \notin HoldingPcs /\ job'[h].pc \notin HoldingPcs
    BY <1>4, <1>5 DEF HoldingPcs
  <2>4. QED
    BY <1>1, <2>1, <2>2, <2>3, IntactKept
<1>15. (Sent \ disturbed)' = Sent \ disturbed
  BY <1>1, <1>10
<1>16. QED
  BY <1>9, <1>11, <1>12, <1>13, <1>14, <1>15 DEF IInv

(* A message is sent no earlier than those before it: nothing speaks of it. *)
LEMMA SendKeeps == ASSUME IInv, NEW r \in Row, NEW s \in Session, Send(r, s) PROVE IInv'
<1>0. PICK t \in Now : at' = [at EXCEPT ![r] = t]
  BY DEF Send
<1>1. /\ TypeOK /\ SentInv /\ OrderInv /\ ProofInv
      /\ r \notin Sent
      /\ state' = [state EXCEPT ![r] = "queued"] /\ to' = [to EXCEPT ![r] = s]
      /\ UNCHANGED <<attempts, offset, wait, ledger, transcript, proc, pass, job, run,
                     envVars, chances, disturbed, exposed>>
  BY DEF IInv, Send
<1>2. /\ state'[r] = "queued" /\ to'[r] = s /\ r \notin Sent
      /\ \A q \in Row \ {r} : state'[q] = state[q] /\ to'[q] = to[q]
  BY <1>1 DEF TypeOK, Sent
<1>3. Sent' = Sent \cup {r}
  BY <1>2 DEF Sent
<1>4. TypeOK'
  <2>1. state' \in [Row -> {"none", "delivering"} \cup Open \cup Finished]
    BY <1>1 DEF TypeOK, Open
  <2>2. to' \in [Row -> Session \cup {None}]
    BY <1>1 DEF TypeOK
  <2>3. t \in Nat
    BY <1>1, <1>0 DEF Now, TypeOK, Sent
  <2>4. at' \in [Row -> Nat]
    BY <1>0, <1>1, <2>3 DEF TypeOK
  <2>5. QED
    BY <1>1, <2>1, <2>2, <2>4 DEF TypeOK, envVars
<1>5. \A q \in Sent : q \in Row \ {r} /\ state'[q] = state[q] /\ to'[q] = to[q] /\ Reads(q)' = Reads(q)
  <2>1. \A q \in Sent : q \in Row \ {r}
    BY <1>2 DEF Sent
  <2>2. QED
    BY <1>1, <1>2, <2>1, SameReads
<1>6. Reads(r)' = {}
  <2>1. \A i \in DOMAIN transcript[s] : transcript[s][i] # r
    BY <1>1, <1>2 DEF SentInv
  <2>2. QED
    BY <1>1, <1>2, <2>1 DEF Reads
<1>7. \A h \in Handler : R(h) # r \/ job[h].pc = "free"
  BY <1>1, <1>2 DEF SentInv
<1>8. attempts[r] = 0 /\ offset[r] = 0 /\ r \notin orphans /\ r \notin ledger /\ chances[r] \in Nat
  BY <1>1, <1>2 DEF SentInv, TypeOK
<1>9. SentInv'
  <2>1. \A q \in Sent' : to'[q] \in Session /\ offset'[q] <= Len(transcript'[to'[q]])
    <3>1. ASSUME NEW q \in Sent PROVE to'[q] \in Session /\ offset'[q] <= Len(transcript'[to'[q]])
      BY <1>1, <1>5 DEF SentInv
    <3>2. Len(transcript[s]) \in Nat
      BY <1>1 DEF TypeOK
    <3>3. to'[r] \in Session /\ offset'[r] <= Len(transcript'[to'[r]])
      BY <1>1, <1>2, <1>8, <3>2
    <3>4. QED
      BY <1>3, <3>1, <3>3
  <2>2. \A q \in Row \ Sent' : attempts'[q] = 0 /\ offset'[q] = 0
    BY <1>1, <1>3 DEF SentInv
  <2>3. \A h \in Handler : job'[h].pc # "free" => R(h) \in Sent'
    BY <1>1, <1>3 DEF SentInv
  <2>4. orphans' \subseteq Sent' /\ ledger' \subseteq Sent'
    BY <1>1, <1>3 DEF SentInv, envVars
  <2>5. \A u \in Session : \A i \in DOMAIN transcript'[u] :
           transcript'[u][i] \in Sent' /\ to'[transcript'[u][i]] = u
    BY <1>1, <1>3, <1>5 DEF SentInv
  <2>6. QED
    BY <2>1, <2>2, <2>3, <2>4, <2>5 DEF SentInv
<1>10. OrderInv'
  <2>1. SUFFICES ASSUME NEW q \in Sent', NEW k \in Sent', at'[q] < at'[k], to'[q] = to'[k],
                        \/ state'[k] \in {"delivering", "delivered"}
                        \/ \E h \in Handler : AtGate(h, k)'
                 PROVE  state'[q] \in Finished
    BY DEF OrderInv
  <2>2. k # r
    BY <1>1, <1>2, <1>7, <2>1 DEF AtGate
  <2>3. k \in Sent /\ k \in Row
    BY <1>3, <1>5, <2>1, <2>2
  <2>4. q # r
    <3>1. at[k] <= t /\ at'[k] = at[k] /\ at'[r] = t
      BY <1>0, <1>1, <1>2, <2>2, <2>3 DEF Now, TypeOK
    <3>2. at[k] \in Nat /\ t \in Nat
      BY <1>0, <1>1, <2>3 DEF Now, TypeOK, Sent
    <3>3. QED
      BY <2>1, <3>1, <3>2
  <2>5. q \in Sent
    BY <1>3, <2>1, <2>4
  <2>6. state[k] \in {"delivering", "delivered"} \/ \E h \in Handler : AtGate(h, k)
    BY <1>1, <1>5, <2>1, <2>3 DEF AtGate
  <2>7. at'[q] = at[q] /\ at'[k] = at[k]
    BY <1>0, <1>1, <1>5, <2>2, <2>3, <2>5 DEF TypeOK
  <2>8. QED
    BY <1>1, <1>5, <2>1, <2>3, <2>5, <2>6, <2>7 DEF OrderInv
<1>11. ProofInv'
  <2>1. \A q \in ledger' : Reads(q)' # {}
    BY <1>1, <1>5 DEF ProofInv, SentInv
  <2>2. \A q \in Sent' : state'[q] = "delivered" => Reads(q)' # {}
    BY <1>1, <1>2, <1>3, <1>5 DEF ProofInv
  <2>3. QED
    BY <1>1, <2>1, <2>2 DEF ProofInv
<1>12. ASSUME NEW q \in (Sent \ disturbed)' PROVE Intact(q)'
  <2>1. CASE q = r
    <3>1. \A h \in Handler : ~Holds(h, r)'
      BY <1>1, <1>7 DEF Holds, HoldingPcs
    <3>2. OneReader(r)'
      BY <1>1, <1>2, <1>6, <1>8, <3>1 DEF OneReader, envVars
    <3>3. AttemptsSpent(r)'
      BY <1>1, <1>8 DEF AttemptsSpent
    <3>4. QED
      BY <2>1, <3>1, <3>2, <3>3 DEF Intact
  <2>2. CASE q # r
    <3>1. q \in Sent \ disturbed
      BY <1>1, <1>3, <1>12, <2>2
    <3>2. /\ q \in Row /\ Intact(q) /\ chances'[q] \in Nat /\ chances'[q] >= chances[q]
          /\ state'[q] = state[q] /\ attempts'[q] = attempts[q] /\ offset'[q] = offset[q]
          /\ orphans' = orphans /\ job' = job /\ Reads(q)' = Reads(q)
      BY <1>1, <1>5, <3>1 DEF Sent, IInv, envVars, TypeOK
    <3>3. QED
      BY <1>1, <3>2, IntactKept
  <2>3. QED
    BY <2>1, <2>2
<1>13. QED
  BY <1>4, <1>9, <1>10, <1>11, <1>12 DEF IInv

-----------------------------------------------------------------------------
LEMMA InitHolds == Init => IInv
<1> SUFFICES ASSUME Init PROVE IInv
  OBVIOUS
<1>1. /\ \A r \in Row : state[r] = "none" /\ attempts[r] = 0 /\ offset[r] = 0
      /\ \A h \in Handler : job[h] = Free
      /\ orphans = {} /\ ledger = {} /\ \A s \in Session : transcript[s] = <<>>
  BY DEF Init
<1>2. Sent = {}
  BY <1>1 DEF Sent
<1>3. TypeOK
  <2>1. Free \in Handlers
    BY DEF Free, Handlers, Open
  <2>2. boots \in 0..MaxBoots /\ humans \in 0..MaxHumans
    BY RelayAssumption DEF Init
  <2>3. proc \in [Proc -> {"off", "up", "paused"}]
    BY DEF Init
  <2>4. transcript \in [Session -> Seq(Row)]
    BY DEF Init
  <2>5. job \in [Handler -> Handlers] /\ pass \in [Proc -> SUBSET Handler]
    BY <2>1 DEF Init
  <2>6. run \in [Proc -> [Session -> {None, Human} \cup Handler]]
    BY DEF Init
  <2>7. /\ at \in [Row -> Nat] /\ state \in [Row -> {"none", "delivering"} \cup Open \cup Finished]
        /\ to \in [Row -> Session \cup {None}] /\ attempts \in [Row -> Nat]
        /\ offset \in [Row -> Nat] /\ chances \in [Row -> Nat]
    BY DEF Init
  <2>8. wait \subseteq Row /\ ledger \subseteq Row /\ orphans \subseteq Row
        /\ disturbed \subseteq Row /\ exposed \subseteq Row
    BY DEF Init
  <2>9. QED
    BY <2>2, <2>3, <2>4, <2>5, <2>6, <2>7, <2>8 DEF TypeOK
<1>4. SentInv
  BY <1>1, <1>2 DEF SentInv, Free
<1>5. OrderInv /\ ProofInv
  BY <1>1, <1>2 DEF OrderInv, ProofInv, Free
<1>6. QED
  BY <1>2, <1>3, <1>4, <1>5 DEF IInv

LEMMA StepHolds == IInv /\ [Next]_vars => IInv'
<1> SUFFICES ASSUME IInv, [Next]_vars PROVE IInv'
  OBVIOUS
<1>1. ASSUME NEW r \in Row, (\E s \in Session : Send(r, s)) \/ BackoffElapses(r) \/ OrphanReads(r)
      PROVE  IInv'
  BY <1>1, SendKeeps, BackoffElapsesKeeps, OrphanReadsKeeps
<1>2. ASSUME NEW p \in Proc, Tick(p) \/ Pause(p) \/ Exit(p) \/ Crash(p) \/ Boot(p)
      PROVE  IInv'
  BY <1>2, TickKeeps, PauseKeeps, ExitKeeps, CrashKeeps, BootKeeps
<1>3. ASSUME NEW p \in Proc, NEW s \in Session, HumanStarts(p, s) \/ HumanEnds(p, s)
      PROVE  IInv'
  BY <1>3, HumanStartsKeeps, HumanEndsKeeps
<1>4. ASSUME NEW h \in Handler, \/ GateStops(h) \/ Claim(h) \/ TurnFails(h) \/ TurnIsBusy(h)
                                \/ TurnPasses(h) \/ TurnStarts(h) \/ CliReads(h) \/ TurnEnds(h) \/ Charge(h)
      PROVE  IInv'
  BY <1>4, GateStopsKeeps, ClaimKeeps, TurnFailsKeeps, TurnIsBusyKeeps,
     TurnPassesKeeps, TurnStartsKeeps, CliReadsKeeps, TurnEndsKeeps, ChargeKeeps
<1>5. CASE UNCHANGED vars
  <2>1. TypeOK'
    BY <1>5 DEF IInv, TypeOK, vars, rowVars, envVars
  <2>2. QED
    BY <1>5, <2>1, Elsewhere DEF vars, rowVars, envVars
<1>6. QED
  BY <1>1, <1>2, <1>3, <1>4, <1>5 DEF Next

LEMMA Invariance == Spec => []IInv
  BY InitHolds, StepHolds, PTL DEF Spec

(* The rows, the processes and the handlers stay in their ranges, and the   *)
(* relay speaks only of messages that were sent.                            *)
THEOREM RelayTyping == Spec => []TypeOK
<1>1. IInv => TypeOK
  BY DEF IInv
<1> QED BY <1>1, Invariance, PTL

(* Exactly-once as far as the code can: through crashes, repairs, retries,  *)
(* orphaned CLIs and a ledger that cannot be written, a target reads a      *)
(* message at most once, unless a boot took the row from somebody who still *)
(* held it.                                                                 *)
THEOREM ReadOnce == Spec => []ReadAtMostOnce
<1>1. IInv => ReadAtMostOnce
  <2>1. SUFFICES ASSUME IInv, NEW r \in Sent \ disturbed PROVE Cardinality(Reads(r)) <= 1
    BY DEF ReadAtMostOnce
  <2>2. \A i, k \in Reads(r) : i = k
    BY <2>1 DEF IInv, Intact, OneReader
  <2>3. CASE Reads(r) = {}
    <3>1. Cardinality(Reads(r)) = 0
      BY <2>3, FS_EmptySet
    <3>2. QED
      BY <3>1
  <2>4. CASE Reads(r) # {}
    <3>1. PICK i \in Reads(r) : Reads(r) = {i}
      BY <2>2, <2>4
    <3>2. Cardinality({i}) = 1
      BY FS_Singleton
    <3>3. Cardinality(Reads(r)) = 1
      BY <3>1, <3>2
    <3>4. QED
      BY <3>3
  <2>5. QED
    BY <2>3, <2>4
<1> QED BY <1>1, Invariance, PTL

(* What the sender is told is what the target's transcript says, whatever   *)
(* the turn reported and whoever repaired the row.                          *)
THEOREM TrueVerdicts == Spec => []VerdictIsTrue
<1>1. IInv => VerdictIsTrue
  BY DEF IInv, ProofInv, Intact, OneReader, VerdictIsTrue
<1> QED BY <1>1, Invariance, PTL

(* Messages of one target are delivered in the order of the milliseconds    *)
(* they were sent in, with any number of processes and takeovers and with   *)
(* whatever order of ids within a millisecond.                              *)
THEOREM DeliveredInOrder == Spec => []InOrder
<1>1. IInv => InOrder
  BY DEF IInv, OrderInv, InOrder
<1> QED BY <1>1, Invariance, PTL

(* A row in delivery is given up by the end of a turn that held it.         *)
LEMMA SettleGivesUp ==
    ASSUME IInv, NEW g \in Handler, job[g].pc \in Launching \cup {"turn", "read"},
           NEW outcome \in {"busy", "permanent", "ended"}, Settle(g, outcome),
           outcome = "ended" \/ job[g].pc \in Launching, disturbed' = disturbed,
           NEW h \in Handler, job[h].pc \in {"turn", "read"},
           state[R(h)] = "delivering", state'[R(h)] = "failed"
    PROVE  chances[R(h)] >= MaxAttempts \/ R(h) \in disturbed'
<1> DEFINE r == R(h)
<1>1. TypeOK /\ r \in Row /\ r \in Sent
  BY HandlerOf DEF IInv, Sent
<1>2. CASE Commits(g)
  BY <1>2 DEF Commits, rowVars
<1>3. CASE ~Proven(R(g), job[g].off) /\ GivesBack(g, outcome)
  <2>1. /\ \A q \in Row \ {R(g)} : state'[q] = state[q]
        /\ \/ state' = state /\ state[R(g)] # "delivering"
           \/ /\ state[R(g)] = "delivering"
              /\ state'[R(g)] = "failed" => outcome = "permanent" \/ job[g].tries >= MaxAttempts
    BY <1>1, <1>3, GivesBackEffect
  <2>2. R(g) = r
    BY <1>1, <2>1
  <2>3. SUFFICES ASSUME r \notin disturbed PROVE chances[r] >= MaxAttempts
    OBVIOUS
  <2>4. Intact(r)
    BY <1>1, <2>3 DEF IInv
  <2>5. Holds(g, r) /\ Holds(h, r)
    BY <2>2 DEF Holds, HoldingPcs
  <2>6. g = h /\ \A k \in Handler : Holds(k, r) => k = h
    BY <2>4, <2>5 DEF Intact, OneReader
  <2>7. outcome = "ended" /\ job[h].tries >= MaxAttempts
    BY <2>1, <2>2, <2>6
  <2>8. job[h].tries = attempts[r] /\ job[h].pc \notin Launching
    BY <2>4, <2>5 DEF Intact, HolderAgrees
  <2>9. attempts[r] <= chances[r]
    BY <2>4, <2>6, <2>8 DEF Intact, AttemptsSpent
  <2>10. attempts[r] \in Nat /\ chances[r] \in Nat /\ MaxAttempts \in Nat
    BY <1>1, RelayAssumption DEF TypeOK
  <2>11. QED
    BY <2>7, <2>8, <2>9, <2>10
<1>4. QED
  BY <1>2, <1>3 DEF Settle

LEMMA GivesUpHonestly ==
    ASSUME IInv, [Next]_vars, NEW h \in Handler, job[h].pc \in {"turn", "read"},
           state[R(h)] = "delivering", state'[R(h)] = "failed"
    PROVE  chances[R(h)] >= MaxAttempts \/ R(h) \in disturbed'
<1> DEFINE r == R(h)
<1>1. TypeOK /\ r \in Row
  BY HandlerOf DEF IInv
<1>2. state' # state
  OBVIOUS
<1>3. ASSUME NEW q \in Row, (\E s \in Session : Send(q, s)) \/ BackoffElapses(q) \/ OrphanReads(q)
      PROVE  FALSE
  BY <1>1, <1>3 DEF Send, BackoffElapses, OrphanReads, rowVars, TypeOK
<1>4. ASSUME NEW p \in Proc, Tick(p) \/ Pause(p) \/ Exit(p) \/ Crash(p) \/ Boot(p)
      PROVE  FALSE
  <2>1. CASE Tick(p) \/ Pause(p) \/ Exit(p) \/ Crash(p)
    BY <1>2, <2>1 DEF Tick, Pause, Exit, Crash, Dies, rowVars
  <2>2. CASE Boot(p)
    BY <1>1, <2>2 DEF Boot
  <2>3. QED
    BY <1>4, <2>1, <2>2
<1>5. ASSUME NEW p \in Proc, NEW s \in Session, HumanStarts(p, s) \/ HumanEnds(p, s)
      PROVE  FALSE
  BY <1>2, <1>5 DEF HumanStarts, HumanEnds, rowVars
<1>6. ASSUME NEW g \in Handler, GateStops(g) \/ Claim(g) \/ TurnPasses(g) \/ TurnStarts(g) \/ CliReads(g) \/ Charge(g)
      PROVE  FALSE
  <2>1. CASE TurnPasses(g) \/ TurnStarts(g) \/ CliReads(g)
    BY <1>2, <2>1 DEF TurnPasses, TurnStarts, CliReads, rowVars
  <2>2. CASE Claim(g)
    <3>1. state' = state \/ state' = [state EXCEPT ![R(g)] = "delivering"]
      BY <2>2 DEF Claim, Takes, rowVars
    <3>2. QED
      BY <1>1, <3>1 DEF TypeOK
  <2>3. CASE GateStops(g)
    <3>1. job[g].from \in Open /\ R(g) \in Row
      BY <1>1, HandlerOf DEF TypeOK, Handlers
    <3>2. \/ UNCHANGED rowVars
          \/ \E verdict \in {"refused", "failed", "deferred"} : PlainMove(R(g), job[g].from, verdict)
      BY <1>1, <2>3, <3>1, WithoutRefund DEF GateStops
    <3>3. state[r] # job[g].from
      BY <3>1 DEF Open
    <3>4. QED
      BY <1>1, <1>2, <3>1, <3>2, <3>3 DEF PlainMove, rowVars, TypeOK
  <2>4. CASE Charge(g)
    <3>1. PlainMove(R(g), "delivering", "delivered")
      BY <1>1, <2>4, HandlerOf, WithoutRefund DEF Charge
    <3>2. QED
      BY <1>1, <1>2, <3>1 DEF PlainMove, rowVars, TypeOK
  <2>5. QED
    BY <1>6, <2>1, <2>2, <2>3, <2>4
<1>7. ASSUME NEW g \in Handler, TurnFails(g) \/ TurnIsBusy(g) \/ TurnEnds(g)
      PROVE  chances[r] >= MaxAttempts \/ r \in disturbed'
  <2>1. /\ job[g].pc \in Launching \cup {"turn", "read"} /\ disturbed' = disturbed
        /\ \E outcome \in {"busy", "permanent", "ended"} :
              Settle(g, outcome) /\ (outcome = "ended" \/ job[g].pc \in Launching)
    BY <1>7 DEF TurnFails, TurnIsBusy, TurnEnds
  <2>2. QED
    BY <2>1, SettleGivesUp
<1>8. Next
  BY <1>2 DEF vars, rowVars
<1>9. QED
  BY <1>3, <1>4, <1>5, <1>6, <1>7, <1>8 DEF Next

(* A message whose turn ran unread is failed only after MAX_ATTEMPTS claims *)
(* that could have delivered it: a person at work in the session, who makes *)
(* the relay give way, never uses up a try.                                 *)
THEOREM GivenUpHonestly == Spec => GivenUpAfterTries
<1>1. IInv /\ [Next]_vars =>
         [\A h \in Handler :
            /\ job[h].pc \in {"turn", "read"} /\ job'[h].pc = "free"
            /\ state[R(h)] = "delivering" /\ state'[R(h)] = "failed"
            => chances[R(h)] >= MaxAttempts \/ R(h) \in disturbed']_vars
  BY GivesUpHonestly
<1>2. QED
  BY <1>1, Invariance, PTL DEF Spec, GivenUpAfterTries
=============================================================================
