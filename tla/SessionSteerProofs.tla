-------------------------- MODULE SessionSteerProofs --------------------------
(***************************************************************************)
(* Proofs about the steering of a running turn, for any messages, members, *)
(* runs and limits.  A text moves queue, stdin, transcript and is counted  *)
(* as taken beside that; the properties relate the two, so the invariant   *)
(* says of each place what members were told, and of the places that no    *)
(* text is in two of them or twice in one.                                 *)
(***************************************************************************)
EXTENDS SessionSteer, TLAPS, FiniteSetTheorems

NoRepeat(s) == \A i, k \in DOMAIN s : s[i] = s[k] => i = k

Queued == ToSet(queue)
Piped  == ToSet(stdin)

(* What a message is told, its row says; only a text whose audit failed has *)
(* a row that nobody was told of.                                           *)
RowInv ==
    \A m \in Msg :
        /\ told[m] = "none" => row[m] \in {"none", "rejected"}
        /\ told[m] # "none" => row[m] = told[m]
        /\ row[m] # "none" => ask[m] # NoAsk

(* Who is under way was told so and nothing else since.                     *)
PlaceInv ==
    /\ \A m \in Queued \cup inFlight \cup confirming : told[m] = "queued"
    /\ \A m \in Queued : m \notin inFlight /\ m \notin confirming /\ m \notin Piped /\ ~Found(m)
    /\ inFlight \cap confirming = {}
    /\ \A m \in Msg \ lost : told[m] = "queued" => m \in Queued \cup inFlight \cup confirming
    /\ \A m \in Piped : told[m] \in {"queued", "unconfirmed"} /\ ~Found(m)
    /\ \A m \in Msg : Found(m) => told[m] \in {"queued", "unconfirmed", "delivered"}
    /\ \A m \in Msg : told[m] = "delivered" => Found(m)

(* No text is twice in one place.                                           *)
OnceInv ==
    /\ NoRepeat(queue) /\ NoRepeat(stdin)
    /\ \A i, k \in DOMAIN transcript : transcript[i].msg = transcript[k].msg => i = k

(* The run owns what is under way to the model, and wrote what is there.    *)
RunInv ==
    /\ running => turn >= 1
    /\ listed \/ closed = "open" \/ cli # "off" => running
    /\ queue # <<>> \/ inFlight # {} => closed = "open"
    /\ ~running => stdin = <<>>
    /\ \A m \in Queued \cup Piped : ask[m].turn = turn
    /\ \A i \in DOMAIN transcript : /\ transcript[i].run <= turn
                                    /\ ask[transcript[i].msg].turn = transcript[i].run

(* Another member's text has tainted a run that has the hook.               *)
Covered(m) == ask[m].by = Starter \/ (hook /\ tainted)
TaintInv ==
    /\ \A m \in Queued \cup Piped : Covered(m)
    /\ running => \A i \in DOMAIN transcript : transcript[i].run = turn => Covered(transcript[i].msg)

(* A grace is armed only while nothing is under way.                        *)
TimerInv == timer = "grace" => ~Pending

IInv == TypeOK /\ RowInv /\ PlaceInv /\ OnceInv /\ RunInv /\ TaintInv /\ TimerInv

-----------------------------------------------------------------------------
(* Sequences as places: what is in them, and that nothing is twice.         *)
LEMMA EmptyPlace == ToSet(<<>>) = {} /\ NoRepeat(<<>>)
BY DEF ToSet, NoRepeat

LEMMA AppendPlace ==
    ASSUME NEW s \in Seq(Msg), NEW x \in Msg
    PROVE  /\ Append(s, x) \in Seq(Msg) /\ Len(Append(s, x)) = Len(s) + 1
           /\ ToSet(Append(s, x)) = ToSet(s) \cup {x}
           /\ NoRepeat(s) /\ x \notin ToSet(s) => NoRepeat(Append(s, x))
<1> DEFINE t == Append(s, x)
<1>1. /\ t \in Seq(Msg) /\ Len(t) = Len(s) + 1 /\ Len(s) \in Nat
      /\ \A i \in 1..Len(s) : t[i] = s[i]
      /\ t[Len(s) + 1] = x
  OBVIOUS
<1>2. DOMAIN s = 1..Len(s) /\ DOMAIN t = 1..(Len(s) + 1)
  BY <1>1
<1> HIDE DEF t
<1>3. DOMAIN t = DOMAIN s \cup {Len(s) + 1} /\ Len(s) + 1 \notin DOMAIN s
  BY <1>1, <1>2
<1>4. ToSet(t) = ToSet(s) \cup {x}
  BY <1>1, <1>2, <1>3 DEF ToSet
<1>5. ASSUME NoRepeat(s), x \notin ToSet(s) PROVE NoRepeat(t)
  <2>1. \A i \in DOMAIN s : s[i] # x
    BY <1>5 DEF ToSet
  <2>2. QED
    BY <1>1, <1>2, <1>3, <1>5, <2>1 DEF NoRepeat
<1>6. QED
  BY <1>1, <1>4, <1>5 DEF t

LEMMA TailPlace ==
    ASSUME NEW s \in Seq(Msg), s # <<>>
    PROVE  /\ Head(s) \in Msg /\ Head(s) \in ToSet(s) /\ Tail(s) \in Seq(Msg) /\ Len(Tail(s)) = Len(s) - 1
           /\ ToSet(s) = ToSet(Tail(s)) \cup {Head(s)}
           /\ NoRepeat(s) => NoRepeat(Tail(s)) /\ Head(s) \notin ToSet(Tail(s))
<1> DEFINE t == Tail(s)
<1>1. /\ t \in Seq(Msg) /\ Len(t) = Len(s) - 1 /\ Len(s) \in Nat \ {0} /\ Head(s) = s[1]
      /\ \A i \in 1..(Len(s) - 1) : t[i] = s[i + 1]
  OBVIOUS
<1>2. DOMAIN s = 1..Len(s) /\ DOMAIN t = 1..(Len(s) - 1)
  BY <1>1
<1>3. Head(s) \in Msg
  OBVIOUS
<1> HIDE DEF t
<1>4. ToSet(s) = ToSet(t) \cup {Head(s)}
  <2>1. ASSUME NEW i \in DOMAIN s PROVE s[i] \in ToSet(t) \cup {s[1]}
    <3>1. CASE i = 1
      BY <3>1
    <3>2. CASE i # 1
      <4>1. i - 1 \in DOMAIN t /\ t[i - 1] = s[i]
        BY <1>1, <1>2, <3>2
      <4>2. QED
        BY <4>1 DEF ToSet
    <3>3. QED
      BY <3>1, <3>2
  <2>2. ASSUME NEW i \in DOMAIN t PROVE t[i] \in ToSet(s)
    <3>1. i + 1 \in DOMAIN s /\ s[i + 1] = t[i]
      BY <1>1, <1>2
    <3>2. QED
      BY <3>1 DEF ToSet
  <2>3. 1 \in DOMAIN s
    BY <1>1, <1>2
  <2>4. QED
    BY <1>1, <2>1, <2>2, <2>3 DEF ToSet
<1>5. ASSUME NoRepeat(s) PROVE NoRepeat(t) /\ Head(s) \notin ToSet(t)
  <2>1. \A i \in DOMAIN t : i + 1 \in DOMAIN s /\ s[i + 1] = t[i] /\ i + 1 # 1 /\ i \in Nat
    BY <1>1, <1>2
  <2>2. 1 \in DOMAIN s
    BY <1>1, <1>2
  <2>3. \A i \in DOMAIN t : t[i] # s[1]
    BY <1>5, <2>1, <2>2 DEF NoRepeat
  <2>4. ASSUME NEW i \in DOMAIN t, NEW k \in DOMAIN t, t[i] = t[k] PROVE i = k
    <3>1. i + 1 = k + 1
      BY <1>5, <2>1, <2>4 DEF NoRepeat
    <3>2. QED
      BY <2>1, <3>1
  <2>5. QED
    BY <1>1, <2>3, <2>4 DEF NoRepeat, ToSet
<1>6. QED
  BY <1>1, <1>3, <1>4, <1>5 DEF t

-----------------------------------------------------------------------------
LEMMA InitIInv == Init => IInv
<1> SUFFICES ASSUME Init PROVE IInv
  OBVIOUS
<1>1. TypeOK
  <2>1. NoAsk \in [by: User \cup {None}, turn: 0..MaxTurns]
    BY SteerAssumption DEF NoAsk
  <2>2. 0 \in 0..PerTurnMax /\ 0 \in 0..MaxTurns /\ 0 <= QueueMax
    BY SteerAssumption
  <2>3. /\ queue \in Seq(Msg) /\ Len(queue) = 0 /\ stdin \in Seq(Msg) /\ out \in Seq({"result", "text"})
        /\ transcript \in Seq([msg: Msg, run: 1..MaxTurns])
    BY DEF Init
  <2>4. QED
    BY <2>1, <2>2, <2>3 DEF Init, TypeOK
<1>2. Queued = {} /\ Piped = {} /\ NoRepeat(queue) /\ NoRepeat(stdin)
  BY EmptyPlace DEF Init, Queued, Piped
<1>3. \A m \in Msg : ~Found(m)
  BY DEF Init, Found
<1>4. DOMAIN transcript = {}
  BY DEF Init
<1>5. RowInv /\ PlaceInv /\ OnceInv
  BY <1>2, <1>3, <1>4 DEF Init, RowInv, PlaceInv, OnceInv
<1>6. RunInv /\ TaintInv /\ TimerInv
  BY <1>2, <1>4 DEF Init, RunInv, TaintInv, TimerInv
<1>7. QED
  BY <1>1, <1>5, <1>6 DEF IInv

LEMMA Elements ==
    ASSUME NEW S, NEW s \in Seq(S)
    PROVE  \A i \in DOMAIN s : s[i] \in S
OBVIOUS

LEMMA Typed ==
    ASSUME IInv
    PROVE  /\ queue \in Seq(Msg) /\ stdin \in Seq(Msg) /\ inFlight \subseteq Msg /\ confirming \subseteq Msg
           /\ Queued \subseteq Msg /\ Piped \subseteq Msg
           /\ transcript \in Seq([msg: Msg, run: 1..MaxTurns]) /\ turn \in 0..MaxTurns
           /\ ask \in [Msg -> [by: User \cup {None}, turn: 0..MaxTurns]]
           /\ row \in [Msg -> {"none", "queued"} \cup Final] /\ told \in [Msg -> {"none", "queued"} \cup Final]
           /\ MaxTurns \in Nat /\ lost \subseteq Msg
           /\ \A i \in DOMAIN transcript : transcript[i].msg \in Msg /\ transcript[i].run \in 1..MaxTurns
<1>1. \A s \in Seq(Msg) : ToSet(s) \subseteq Msg
  BY DEF ToSet
<1>2. transcript \in Seq([msg: Msg, run: 1..MaxTurns])
  BY DEF IInv, TypeOK
<1>3. \A i \in DOMAIN transcript : transcript[i] \in [msg: Msg, run: 1..MaxTurns]
  BY <1>2, Elements
<1>4. \A i \in DOMAIN transcript : transcript[i].msg \in Msg /\ transcript[i].run \in 1..MaxTurns
  BY <1>3
<1>5. QED
  BY <1>1, <1>2, <1>4, SteerAssumption DEF IInv, TypeOK, Queued, Piped

-----------------------------------------------------------------------------
(* A text nobody has a row of is nowhere.                                   *)
LEMMA Nowhere ==
    ASSUME IInv, NEW m \in Msg, row[m] = "none"
    PROVE  /\ told[m] = "none" /\ m \notin Queued /\ m \notin Piped /\ m \notin inFlight
           /\ m \notin confirming /\ ~Found(m)
<1>1. told[m] = "none"
  BY DEF IInv, RowInv
<1>2. QED
  BY <1>1 DEF IInv, PlaceInv

LEMMA Unread ==
    ASSUME NEW m \in Msg, ~Found(m), NEW i \in DOMAIN transcript
    PROVE  transcript[i].msg # m
BY DEF Found

(* A step that moves no text.                                               *)
LEMMA PlacesKept ==
    ASSUME IInv, UNCHANGED <<told, queue, inFlight, confirming, lost, stdin, transcript>>
    PROVE  PlaceInv' /\ OnceInv'
<1>1. (Queued' = Queued) /\ (Piped' = Piped) /\ \A k : Found(k)' <=> Found(k)
  BY DEF Queued, Piped, Found
<1>2. PlaceInv'
  BY <1>1 DEF IInv, PlaceInv
<1>3. NoRepeat(queue)' /\ NoRepeat(stdin)'
  BY DEF IInv, OnceInv
<1>4. OnceInv'
  BY <1>3 DEF IInv, OnceInv
<1>5. QED
  BY <1>2, <1>4

LEMMA AskStep ==
    ASSUME IInv, NEW m \in Msg, NEW u \in User, Ask(m, u)
    PROVE  IInv'
<1>1. /\ ask[m] = NoAsk /\ listed /\ ask' = [ask EXCEPT ![m] = [by |-> u, turn |-> turn]]
      /\ UNCHANGED <<row, told, transcript, entry, steer, gen, stdin, confirming, program, loop, lost>>
  BY DEF Ask
<1>2. /\ ask' \in [Msg -> [by: User \cup {None}, turn: 0..MaxTurns]] /\ ask'[m] # NoAsk
      /\ \A k \in Msg \ {m} : ask'[k] = ask[k]
  <2>1. [by |-> u, turn |-> turn] \in [by: User \cup {None}, turn: 0..MaxTurns]
    BY Typed
  <2>2. [by |-> u, turn |-> turn] # NoAsk
    BY SteerAssumption DEF NoAsk
  <2>3. QED
    BY <1>1, <2>1, <2>2, Typed
<1>3. row[m] = "none" /\ m \notin Queued /\ m \notin Piped /\ ~Found(m)
  BY <1>1, Nowhere DEF IInv, RowInv
<1>4. TypeOK'
  BY <1>1, <1>2 DEF IInv, TypeOK, entry, steer, program, loop
<1>5. RowInv'
  BY <1>1, <1>2 DEF IInv, RowInv
<1>6. (Queued' = Queued) /\ (Piped' = Piped)
  BY <1>1 DEF Queued, Piped, steer
<1>7. PlaceInv' /\ OnceInv'
  BY <1>1, PlacesKept DEF steer
<1>8. \A i \in DOMAIN transcript : transcript[i].msg \in Msg \ {m}
  BY <1>3, Unread, Typed
<1>9. \A k \in Queued \cup Piped : k \in Msg \ {m}
  BY <1>3, Typed
<1>10. RunInv'
  BY <1>1, <1>2, <1>6, <1>8, <1>9 DEF IInv, RunInv, entry, steer, program
<1>11. \A k \in Msg \ {m} : Covered(k)' <=> Covered(k)
  BY <1>1, <1>2 DEF Covered, steer
<1>12. TaintInv'
  BY <1>1, <1>6, <1>8, <1>9, <1>11 DEF IInv, TaintInv, entry
<1>13. TimerInv'
  BY <1>1 DEF IInv, TimerInv, Pending, steer, loop
<1>14. QED
  BY <1>4, <1>5, <1>7, <1>10, <1>12, <1>13 DEF IInv

(* An admitted text: its row, what members are told, and its place.         *)
LEMMA AdmitStep ==
    ASSUME IInv, NEW m \in Msg, Admit(m)
    PROVE  IInv'
<1>1. /\ ask[m] # NoAsk /\ listed /\ closed = "open" /\ ask[m].turn = turn /\ Armed(m) /\ Capacity
      /\ row[m] = "none"
      /\ UNCHANGED <<ask, transcript, entry, confirming, program, handling, lost>>
  BY DEF Admit, NamesThisRun, Unknown
<1>2. /\ told[m] = "none" /\ m \notin Queued /\ m \notin Piped /\ m \notin inFlight
      /\ m \notin confirming /\ ~Found(m)
  BY <1>1, Nowhere
<1>3. \A k \in Msg : Found(k)' <=> Found(k)
  BY <1>1 DEF Found
<1>4. CASE row' = [row EXCEPT ![m] = "rejected"] /\ UNCHANGED <<told, steer, gen, stdin, timer>>
  <2>1. /\ row' \in [Msg -> {"none", "queued"} \cup Final] /\ row'[m] = "rejected"
        /\ \A k \in Msg \ {m} : row'[k] = row[k]
    BY <1>4, Typed DEF Final
  <2>2. TypeOK'
    BY <1>1, <1>4, <2>1 DEF IInv, TypeOK, entry, steer, program
  <2>3. (Queued' = Queued) /\ (Piped' = Piped) /\ \A k \in Msg : Covered(k)' <=> Covered(k)
    BY <1>1, <1>4 DEF Queued, Piped, Covered, steer
  <2>4. RowInv'
    BY <1>1, <1>2, <1>4, <2>1 DEF IInv, RowInv
  <2>5. PlaceInv' /\ OnceInv'
    BY <1>1, <1>4, PlacesKept DEF steer
  <2>6. RunInv' /\ TimerInv'
    BY <1>1, <1>4, <2>3 DEF IInv, RunInv, TimerInv, Pending, entry, steer, program
  <2>7. TaintInv'
    BY <1>1, <2>3, Typed DEF IInv, TaintInv, entry
  <2>8. QED
    BY <2>2, <2>4, <2>5, <2>6, <2>7 DEF IInv
<1>5. CASE row' = [row EXCEPT ![m] = "queued"] /\ Enqueue(m)
  <2>1. /\ row' \in [Msg -> {"none", "queued"} \cup Final] /\ row'[m] = "queued"
        /\ told' \in [Msg -> {"none", "queued"} \cup Final] /\ told'[m] = "queued"
        /\ \A k \in Msg \ {m} : row'[k] = row[k] /\ told'[k] = told[k]
    BY <1>5, Typed DEF Enqueue, Final
  <2>2. accepted' \in 0..PerTurnMax /\ tainted' \in BOOLEAN /\ UNCHANGED <<closed, hook>>
        /\ (tainted => tainted') /\ (ask[m].by # Starter => tainted')
    <3>1. accepted \in 0..PerTurnMax /\ accepted < PerTurnMax /\ accepted' = accepted + 1 /\ PerTurnMax \in Nat
      BY <1>1, <1>5, SteerAssumption DEF Enqueue, IInv, TypeOK, Capacity
    <3>2. accepted' \in 0..PerTurnMax
      BY <3>1
    <3>3. tainted \in BOOLEAN /\ tainted' = (tainted \/ ask[m].by # Starter) /\ UNCHANGED <<closed, hook>>
      BY <1>5 DEF Enqueue, IInv, TypeOK
    <3>4. QED
      BY <3>2, <3>3
  <2>3. timer' \in {"none", "hold"}
    BY <1>5 DEF Enqueue, Rearmed
  <2>4. \/ /\ gen' = "ready" /\ inFlight' = inFlight \cup {m} /\ stdin' = Append(stdin, m) /\ UNCHANGED queue
           /\ (Queued' = Queued) /\ (Piped' = Piped \cup {m})
        \/ /\ queue' = Append(queue, m) /\ UNCHANGED <<gen, inFlight, stdin>>
           /\ (Queued' = Queued \cup {m}) /\ (Piped' = Piped)
    BY <1>5, AppendPlace, Typed DEF Enqueue, Queued, Piped
  <2>5. TypeOK'
    <3>1. /\ queue' \in Seq(Msg) /\ Len(queue') <= QueueMax /\ stdin' \in Seq(Msg) /\ inFlight' \subseteq Msg
          /\ gen' \in {"ready", "parked", "done"}
      <4>1. Len(queue) \in Nat /\ Len(queue) < QueueMax
        BY <1>1, Typed DEF Capacity
      <4>2. QED
        <5>1. Append(queue, m) \in Seq(Msg) /\ Len(Append(queue, m)) = Len(queue) + 1 /\ Append(stdin, m) \in Seq(Msg)
          BY AppendPlace, Typed
        <5>2. /\ gen \in {"ready", "parked", "done"} /\ Len(queue) <= QueueMax /\ QueueMax \in Nat
              /\ Len(queue) + 1 <= QueueMax
          BY <4>1, SteerAssumption DEF IInv, TypeOK
        <5>3. QED
          BY <2>4, <5>1, <5>2, Typed
    <3>2. QED
      BY <1>1, <2>1, <2>2, <2>3, <3>1 DEF IInv, TypeOK, entry, program
  <2>6. RowInv'
    BY <1>1, <2>1 DEF IInv, RowInv
  <2>7. PlaceInv'
    <3>1. Queued \subseteq Msg /\ inFlight \subseteq Msg /\ confirming \subseteq Msg /\ Piped \subseteq Msg
      BY Typed
    <3>2. \A k \in Queued' \cup inFlight' \cup confirming' : told'[k] = "queued"
      BY <1>1, <2>1, <2>4, <3>1 DEF IInv, PlaceInv
    <3>3. \A k \in Queued' : k \notin inFlight' /\ k \notin confirming' /\ k \notin Piped' /\ ~Found(k)'
      BY <1>1, <1>2, <1>3, <2>4, <3>1 DEF IInv, PlaceInv
    <3>4. inFlight' \cap confirming' = {}
      BY <1>1, <1>2, <2>4 DEF IInv, PlaceInv
    <3>5. \A k \in Msg \ lost' : told'[k] = "queued" => k \in Queued' \cup inFlight' \cup confirming'
      BY <1>1, <2>1, <2>4 DEF IInv, PlaceInv
    <3>6. \A k \in Piped' : told'[k] \in {"queued", "unconfirmed"} /\ ~Found(k)'
      BY <1>2, <1>3, <2>1, <2>4, <3>1 DEF IInv, PlaceInv
    <3>7. \A k \in Msg : /\ Found(k)' => told'[k] \in {"queued", "unconfirmed", "delivered"}
                         /\ told'[k] = "delivered" => Found(k)'
      BY <1>2, <1>3, <2>1 DEF IInv, PlaceInv
    <3>8. QED
      BY <3>2, <3>3, <3>4, <3>5, <3>6, <3>7 DEF PlaceInv
  <2>8. OnceInv'
    <3>1. NoRepeat(queue)' /\ NoRepeat(stdin)'
      <4>1. NoRepeat(queue) /\ NoRepeat(stdin)
        BY DEF IInv, OnceInv
      <4>2. NoRepeat(Append(queue, m)) /\ NoRepeat(Append(stdin, m))
        BY <1>2, <4>1, AppendPlace, Typed DEF Queued, Piped
      <4>3. QED
        BY <2>4, <4>1, <4>2
    <3>2. QED
      BY <1>1, <3>1 DEF IInv, OnceInv
  <2>9. RunInv'
    <3>1. running' /\ running
      BY <1>1 DEF IInv, RunInv, entry
    <3>2. QED
      BY <1>1, <2>2, <2>4, <3>1 DEF IInv, RunInv, entry, program
  <2>10. TaintInv'
    <3>1. Covered(m)' /\ \A k \in Msg : Covered(k) => Covered(k)'
      BY <1>1, <2>2 DEF Covered, Armed
    <3>2. QED
      BY <1>1, <2>4, <3>1, Typed DEF IInv, TaintInv, entry
  <2>11. TimerInv'
    BY <2>3 DEF TimerInv
  <2>12. QED
    BY <2>5, <2>6, <2>7, <2>8, <2>9, <2>10, <2>11 DEF IInv
<1>6. QED
  BY <1>4, <1>5 DEF Admit

-----------------------------------------------------------------------------
(* The SDK takes the oldest text of the queue for the CLI.                  *)
LEMMA TakeStep ==
    ASSUME IInv, Take
    PROVE  IInv'
<1>1. /\ UNCHANGED <<durable, entry, closed, hook, accepted, tainted, confirming, program, loop, lost>>
      /\ gen' \in {"ready", "done", "parked"}
  BY DEF Take
<1>2. CASE queue = <<>>
  <2>1. UNCHANGED <<inFlight, queue, stdin>>
    BY <1>2 DEF Take
  <2>2. (Queued' = Queued) /\ (Piped' = Piped) /\ \A k \in Msg : Covered(k)' <=> Covered(k)
    BY <1>1, <2>1 DEF Queued, Piped, Covered, durable
  <2>3. TypeOK' /\ RowInv'
    BY <1>1, <2>1 DEF IInv, TypeOK, RowInv, durable, entry, program, loop
  <2>4. PlaceInv' /\ OnceInv'
    BY <1>1, <2>1, PlacesKept DEF durable
  <2>5. RunInv' /\ TimerInv'
    BY <1>1, <2>1, <2>2 DEF IInv, RunInv, TimerInv, Pending, durable, entry, program, loop
  <2>6. TaintInv'
    BY <1>1, <2>2, Typed DEF IInv, TaintInv, durable, entry
  <2>7. QED
    BY <2>3, <2>4, <2>5, <2>6 DEF IInv
<1>3. CASE queue # <<>>
  <2> DEFINE m == Head(queue)
  <2>1. /\ inFlight' = inFlight \cup {m} /\ queue' = Tail(queue) /\ stdin' = Append(stdin, m) /\ gen' = gen
    BY <1>3 DEF Take
  <2>2. /\ m \in Msg /\ m \in Queued /\ queue' \in Seq(Msg) /\ Len(queue') = Len(queue) - 1
        /\ Queued = Queued' \cup {m} /\ NoRepeat(queue)' /\ m \notin Queued'
    <3>1. NoRepeat(queue)
      BY DEF IInv, OnceInv
    <3>2. QED
      BY <1>3, <2>1, <3>1, TailPlace, Typed DEF Queued
  <2>3. told[m] = "queued" /\ m \notin inFlight /\ m \notin confirming /\ m \notin Piped /\ ~Found(m)
    BY <2>2 DEF IInv, PlaceInv
  <2>4. stdin' \in Seq(Msg) /\ (Piped' = Piped \cup {m}) /\ NoRepeat(stdin)'
    <3>1. NoRepeat(stdin)
      BY DEF IInv, OnceInv
    <3>2. /\ Append(stdin, m) \in Seq(Msg) /\ ToSet(Append(stdin, m)) = Piped \cup {m}
          /\ NoRepeat(Append(stdin, m))
      BY <2>2, <2>3, <3>1, AppendPlace, Typed DEF Piped
    <3>3. QED
      BY <2>1, <3>2 DEF Piped
  <2> HIDE DEF m
  <2>5. TypeOK'
    <3>1. Len(queue') <= QueueMax
      <4>1. Len(queue) \in Nat /\ Len(queue) <= QueueMax /\ QueueMax \in Nat
        BY Typed, SteerAssumption DEF IInv, TypeOK
      <4>2. QED
        BY <2>2, <4>1
    <3>2. QED
      BY <1>1, <2>1, <2>2, <2>4, <3>1 DEF IInv, TypeOK, durable, entry, program, loop
  <2>6. RowInv'
    BY <1>1 DEF IInv, RowInv, durable
  <2>7. PlaceInv'
    <3>1. UNCHANGED <<told, transcript, confirming, lost>> /\ \A k : Found(k)' <=> Found(k)
      BY <1>1 DEF durable, Found
    <3>2. QED
      BY <2>1, <2>2, <2>3, <2>4, <3>1 DEF IInv, PlaceInv
  <2>8. OnceInv'
    BY <1>1, <2>2, <2>4 DEF IInv, OnceInv, durable
  <2>9. RunInv'
    <3>1. closed = "open" /\ running /\ ask[m].turn = turn
      BY <1>3, <2>2 DEF IInv, RunInv
    <3>2. QED
      BY <1>1, <2>2, <2>4, <3>1 DEF IInv, RunInv, durable, entry, program
  <2>10. TaintInv'
    <3>1. \A k \in Msg : Covered(k)' <=> Covered(k)
      BY <1>1 DEF Covered, durable
    <3>2. QED
      BY <1>1, <2>2, <2>4, <3>1, Typed DEF IInv, TaintInv, durable, entry
  <2>11. TimerInv'
    BY <1>1, <1>3 DEF IInv, TimerInv, Pending, loop
  <2>12. QED
    BY <2>5, <2>6, <2>7, <2>8, <2>9, <2>10, <2>11 DEF IInv
<1>4. QED
  BY <1>2, <1>3

(* The CLI reads the oldest text it was given and writes its line.          *)
LEMMA Written ==
    ASSUME NEW s \in Seq([msg: Msg, run: 1..MaxTurns]), NEW x \in [msg: Msg, run: 1..MaxTurns]
    PROVE  /\ Append(s, x) \in Seq([msg: Msg, run: 1..MaxTurns]) /\ DOMAIN Append(s, x) = DOMAIN s \cup {Len(s) + 1}
           /\ Len(s) + 1 \notin DOMAIN s /\ Append(s, x)[Len(s) + 1] = x
           /\ \A i \in DOMAIN s : Append(s, x)[i] = s[i]
<1>1. Len(s) \in Nat /\ DOMAIN s = 1..Len(s) /\ DOMAIN Append(s, x) = 1..(Len(s) + 1)
  OBVIOUS
<1>2. QED
  BY <1>1

LEMMA ReadStep ==
    ASSUME IInv, CliReads
    PROVE  IInv'
<1> DEFINE m == Head(stdin)
           line == [msg |-> m, run |-> turn]
           here == Len(transcript) + 1
<1>1. /\ cli # "off" /\ stdin # <<>> /\ stdin' = Tail(stdin) /\ cli' = "working"
      /\ transcript' = Append(transcript, line)
      /\ UNCHANGED <<ask, row, told, entry, steer, gen, confirming, out, loop, lost>>
  BY DEF CliReads
<1>2. /\ m \in Msg /\ m \in Piped /\ stdin' \in Seq(Msg)
      /\ Piped = Piped' \cup {m} /\ m \notin Piped' /\ NoRepeat(stdin)'
  <2>1. NoRepeat(stdin)
    BY DEF IInv, OnceInv
  <2>2. QED
    BY <1>1, <2>1, TailPlace, Typed DEF Piped
<1>3. /\ told[m] \in {"queued", "unconfirmed"} /\ ~Found(m) /\ m \notin Queued
      /\ ask[m].turn = turn /\ Covered(m) /\ running /\ turn \in 1..MaxTurns
  <2>1. running /\ turn >= 1 /\ ask[m].turn = turn
    BY <1>1, <1>2 DEF IInv, RunInv
  <2>2. turn \in 1..MaxTurns
    BY <2>1, Typed
  <2>3. QED
    BY <1>2, <2>1, <2>2 DEF IInv, PlaceInv, TaintInv
<1>4. line \in [msg: Msg, run: 1..MaxTurns] /\ line.msg = m /\ line.run = turn
  BY <1>2, <1>3
<1> HIDE DEF line
<1>5. /\ transcript' \in Seq([msg: Msg, run: 1..MaxTurns])
      /\ DOMAIN transcript' = DOMAIN transcript \cup {here} /\ here \notin DOMAIN transcript
      /\ transcript'[here] = line /\ \A i \in DOMAIN transcript : transcript'[i] = transcript[i]
  <2>1. transcript \in Seq([msg: Msg, run: 1..MaxTurns])
    BY Typed
  <2>2. transcript' = Append(transcript, line)
    BY <1>1
  <2>3. QED
    BY <1>4, <2>1, <2>2, Written
<1> HIDE DEF m, here
<1>6. (Queued' = Queued) /\ \A k \in Msg : (Found(k)' <=> (Found(k) \/ k = m)) /\ (Covered(k)' <=> Covered(k))
  BY <1>1, <1>4, <1>5 DEF Queued, Found, Covered, steer
<1>7. TypeOK'
  BY <1>1, <1>2, <1>5 DEF IInv, TypeOK, entry, steer, loop
<1>8. RowInv'
  BY <1>1 DEF IInv, RowInv
<1>9. PlaceInv'
  <2>1. UNCHANGED <<told, inFlight, confirming, lost>>
    BY <1>1 DEF steer
  <2>2. QED
    BY <1>2, <1>3, <1>6, <2>1, Typed DEF IInv, PlaceInv
<1>10. OnceInv'
  <2>1. \A i \in DOMAIN transcript : transcript[i].msg # m
    BY <1>2, <1>3, Unread
  <2>2. \A i, k \in DOMAIN transcript' : transcript'[i].msg = transcript'[k].msg => i = k
    BY <1>4, <1>5, <2>1 DEF IInv, OnceInv
  <2>3. NoRepeat(queue)'
    BY <1>1 DEF IInv, OnceInv, steer
  <2>4. QED
    BY <1>2, <2>2, <2>3 DEF OnceInv
<1>11. RunInv'
  <2>1. \A i \in DOMAIN transcript' : /\ transcript'[i].run <= turn
                                      /\ ask[transcript'[i].msg].turn = transcript'[i].run
    BY <1>3, <1>4, <1>5, Typed DEF IInv, RunInv
  <2>2. UNCHANGED <<turn, running, listed, closed, queue, inFlight, ask>>
    BY <1>1 DEF entry, steer
  <2>3. QED
    BY <1>2, <1>3, <1>6, <2>1, <2>2 DEF IInv, RunInv
<1>12. TaintInv'
  <2>1. UNCHANGED <<turn, running>>
    BY <1>1 DEF entry
  <2>2. \A i \in DOMAIN transcript' : transcript'[i].run = turn => Covered(transcript'[i].msg)
    BY <1>3, <1>4, <1>5 DEF IInv, TaintInv
  <2>3. \A i \in DOMAIN transcript' : transcript'[i].msg \in Msg
    BY <1>2, <1>4, <1>5, Typed
  <2>4. QED
    BY <1>2, <1>6, <2>1, <2>2, <2>3, Typed DEF IInv, TaintInv
<1>13. TimerInv'
  BY <1>1 DEF IInv, TimerInv, Pending, steer, loop
<1>14. QED
  BY <1>7, <1>8, <1>9, <1>10, <1>11, <1>12, <1>13 DEF IInv

-----------------------------------------------------------------------------
(* A step of the CLI or of the close timer that moves no text.              *)
LEMMA QuietStep ==
    ASSUME IInv, UNCHANGED <<durable, entry, steer, stdin, confirming, lost>>,
           TypeOK', TimerInv', cli' # "off" => cli # "off"
    PROVE  IInv'
<1>1. (Queued' = Queued) /\ (Piped' = Piped) /\ \A k \in Msg : Covered(k)' <=> Covered(k)
  BY DEF Queued, Piped, Covered, durable, steer
<1>2. RowInv'
  BY DEF IInv, RowInv, durable
<1>3. PlaceInv' /\ OnceInv'
  BY PlacesKept DEF durable, steer
<1>4. RunInv'
  BY <1>1 DEF IInv, RunInv, durable, entry, steer
<1>5. TaintInv'
  BY <1>1, Typed DEF IInv, TaintInv, durable, entry
<1>6. QED
  BY <1>2, <1>3, <1>4, <1>5 DEF IInv

LEMMA ProgramStep ==
    ASSUME IInv, CliExits \/ (\E kind \in {"result", "text"} : CliSays(kind)) \/ UNCHANGED vars
    PROVE  IInv'
<1>1. /\ UNCHANGED <<durable, entry, steer, gen, stdin, confirming, loop, lost>>
      /\ (out' \in Seq({"result", "text"})) /\ cli' \in {"off", "working", "quiet"}
      /\ (cli' # "off" => cli # "off")
  <2>1. out \in Seq({"result", "text"}) /\ cli \in {"off", "working", "quiet"}
    BY DEF IInv, TypeOK
  <2>2. CASE CliExits
    BY <2>1, <2>2 DEF CliExits
  <2>3. ASSUME NEW kind \in {"result", "text"}, CliSays(kind)
        PROVE  /\ UNCHANGED <<durable, entry, steer, gen, stdin, confirming, loop, lost>>
               /\ (out' \in Seq({"result", "text"})) /\ cli' \in {"off", "working", "quiet"}
               /\ cli # "off"
    <3>1. out' = Append(out, kind) /\ Append(out, kind) \in Seq({"result", "text"})
      BY <2>1, <2>3 DEF CliSays
    <3>2. QED
      BY <2>3, <3>1 DEF CliSays
  <2>4. CASE UNCHANGED vars
    BY <2>1, <2>4 DEF vars, program
  <2>5. QED
    BY <2>2, <2>3, <2>4
<1>2. TypeOK'
  BY <1>1 DEF IInv, TypeOK, durable, entry, steer, loop
<1>3. TimerInv'
  BY <1>1 DEF IInv, TimerInv, Pending, steer, loop
<1>4. QED
  BY <1>1, <1>2, <1>3, QuietStep

(* The loop reads a message: a result hands what was taken to the looks.    *)
LEMMA HandleStep ==
    ASSUME IInv, Handle
    PROVE  IInv'
<1>1. /\ UNCHANGED <<durable, entry, closed, hook, accepted, tainted, queue, gen, stdin, cli, lost>>
      /\ timer' = "none" /\ handling' = Head(out) /\ out' = Tail(out) /\ out # <<>>
      /\ \/ confirming' = confirming \cup inFlight /\ inFlight' = {}
         \/ UNCHANGED <<confirming, inFlight>>
  BY DEF Handle
<1>2. handling' \in {"none", "result", "text"} /\ out' \in Seq({"result", "text"})
  <2>1. out \in Seq({"result", "text"})
    BY DEF IInv, TypeOK
  <2>2. QED
    BY <1>1, <2>1
<1>3. confirming' \subseteq Msg /\ inFlight' \subseteq Msg
  BY <1>1, Typed
<1>4. TypeOK'
  BY <1>1, <1>2, <1>3 DEF IInv, TypeOK, durable, entry
<1>5. /\ (Queued' = Queued) /\ (Piped' = Piped)
      /\ \A k \in Msg : (Covered(k)' <=> Covered(k)) /\ (Found(k)' <=> Found(k))
  BY <1>1 DEF Queued, Piped, Covered, Found, durable
<1>6. RowInv'
  BY <1>1 DEF IInv, RowInv, durable
<1>7. PlaceInv'
  <2>1. UNCHANGED <<told, lost>>
    BY <1>1 DEF durable
  <2>2. QED
    BY <1>1, <1>5, <2>1, Typed DEF IInv, PlaceInv
<1>8. OnceInv'
  BY <1>1 DEF IInv, OnceInv, durable
<1>9. RunInv'
  BY <1>1, <1>5 DEF IInv, RunInv, durable, entry
<1>10. TaintInv'
  BY <1>1, <1>5, Typed DEF IInv, TaintInv, durable, entry
<1>11. TimerInv'
  BY <1>1 DEF TimerInv
<1>12. QED
  BY <1>4, <1>6, <1>7, <1>8, <1>9, <1>10, <1>11 DEF IInv

-----------------------------------------------------------------------------
(* A close rejects what is queued and settles what was taken, or leaves it  *)
(* to a look; it says nothing of any other text.                            *)
LEMMA ClosingVerdicts ==
    ASSUME IInv, NEW reason \in {"turn_aborted", "input_closed"}, SettlesAll(Verdicts(reason))
    PROVE  /\ row' \in [Msg -> {"none", "queued"} \cup Final] /\ told' \in [Msg -> {"none", "queued"} \cup Final]
           /\ \A m \in Queued : row'[m] = "rejected" /\ told'[m] = "rejected"
           /\ \A m \in inFlight : IF reason = "turn_aborted"
                                  THEN row'[m] = "unconfirmed" /\ told'[m] = "unconfirmed"
                                  ELSE row'[m] = row[m] /\ told'[m] = told[m]
           /\ \A m \in Msg : m \notin Queued \cup inFlight => row'[m] = row[m] /\ told'[m] = told[m]
           /\ confirming' = IF reason = "turn_aborted" THEN confirming ELSE confirming \cup inFlight
<1> DEFINE v == Verdicts(reason)
           now == {m \in Msg : v[m] \in Final}
<1>1. /\ \A m \in Msg : m \in Queued => v[m] = "rejected"
      /\ \A m \in Msg : m \in inFlight => v[m] = IF reason = "turn_aborted" THEN "unconfirmed" ELSE "confirm"
      /\ \A m \in Msg : m \notin Queued \cup inFlight => v[m] = "none"
  <2>1. \A m \in Queued : m \notin inFlight
    BY DEF IInv, PlaceInv
  <2>2. QED
    BY <2>1 DEF Verdicts, Queued
<1>2. /\ told' = [m \in Msg |-> IF m \in now THEN v[m] ELSE told[m]]
      /\ row' = [m \in Msg |-> IF m \in now THEN Moved(m, v[m]) ELSE row[m]]
      /\ confirming' = confirming \cup {m \in Msg : v[m] = "confirm"}
  BY DEF SettlesAll, Settles
<1> HIDE DEF v
<1>3. \A m \in Msg : m \in now <=> (m \in Queued \/ (m \in inFlight /\ reason = "turn_aborted"))
  BY <1>1 DEF Final
<1>4. \A m \in Msg : v[m] = "confirm" <=> (m \in inFlight /\ reason # "turn_aborted")
  <2>1. \A m \in Queued : m \notin inFlight
    BY DEF IInv, PlaceInv
  <2>2. QED
    BY <1>1, <2>1
<1>5. \A m \in Msg : m \in Queued \cup inFlight => row[m] = "queued" /\ Moved(m, v[m]) = v[m]
  <2>1. \A m \in Msg : m \in Queued \cup inFlight => told[m] = "queued"
    BY DEF IInv, PlaceInv
  <2>2. \A m \in Msg : m \in Queued \cup inFlight => row[m] = "queued"
    BY <2>1 DEF IInv, RowInv
  <2>3. QED
    BY <2>2 DEF Moved
<1> HIDE DEF now
<1>6. \A m \in Msg : /\ m \in Queued => row'[m] = "rejected" /\ told'[m] = "rejected"
                     /\ m \in inFlight => IF reason = "turn_aborted"
                                          THEN row'[m] = "unconfirmed" /\ told'[m] = "unconfirmed"
                                          ELSE row'[m] = row[m] /\ told'[m] = told[m]
                     /\ m \notin Queued \cup inFlight => row'[m] = row[m] /\ told'[m] = told[m]
  <2>1. \A m \in Queued : m \notin inFlight
    BY DEF IInv, PlaceInv
  <2>2. QED
    BY <1>1, <1>2, <1>3, <1>5, <2>1
<1>7. \A m \in Msg : row'[m] \in {"none", "queued"} \cup Final /\ told'[m] \in {"none", "queued"} \cup Final
  <2>1. \A m \in Msg : row[m] \in {"none", "queued"} \cup Final /\ told[m] \in {"none", "queued"} \cup Final
    BY Typed
  <2>2. {"rejected", "unconfirmed"} \subseteq Final
    BY DEF Final
  <2>3. QED
    BY <1>6, <2>1, <2>2
<1>8. row' \in [Msg -> {"none", "queued"} \cup Final] /\ told' \in [Msg -> {"none", "queued"} \cup Final]
  BY <1>2, <1>7
<1>9. confirming' = IF reason = "turn_aborted" THEN confirming ELSE confirming \cup inFlight
  BY <1>2, <1>4, Typed
<1>10. QED
  BY <1>6, <1>8, <1>9, Typed

LEMMA ClosingPlaces ==
    ASSUME IInv, NEW reason \in {"turn_aborted", "input_closed"}, SettlesAll(Verdicts(reason)),
           queue' = <<>>, inFlight' = {}, UNCHANGED <<ask, transcript, lost>>,
           stdin' = stdin \/ stdin' = <<>>
    PROVE  RowInv' /\ PlaceInv' /\ OnceInv'
<1>1. Queued' = {} /\ NoRepeat(queue)'
  BY EmptyPlace DEF Queued
<1>2. NoRepeat(stdin)' /\ \A k \in Piped' : k \in Piped
  BY EmptyPlace DEF IInv, OnceInv, Piped
<1>3. \A m \in Msg : Found(m)' <=> Found(m)
  BY DEF Found
<1>4. /\ \A m \in Msg : m \in Queued => row'[m] = "rejected" /\ told'[m] = "rejected"
      /\ \A m \in Msg : m \in inFlight => IF reason = "turn_aborted"
                                          THEN row'[m] = "unconfirmed" /\ told'[m] = "unconfirmed"
                                          ELSE row'[m] = row[m] /\ told'[m] = told[m]
      /\ \A m \in Msg : m \notin Queued \cup inFlight => row'[m] = row[m] /\ told'[m] = told[m]
      /\ confirming' = IF reason = "turn_aborted" THEN confirming ELSE confirming \cup inFlight
  BY ClosingVerdicts
<1>5. \A m \in Queued \cup inFlight \cup confirming : m \in Msg /\ told[m] = "queued"
  BY Typed DEF IInv, PlaceInv
<1>6. RowInv'
  <2>1. \A m \in Msg : m \in Queued \cup inFlight => row[m] = "queued" /\ ask[m] # NoAsk
    BY <1>5 DEF IInv, RowInv
  <2>2. QED
    BY <1>4, <2>1 DEF IInv, RowInv
<1>7. PlaceInv'
  <2>1. \A m \in confirming' : told'[m] = "queued"
    <3>1. ASSUME NEW m \in confirming PROVE told'[m] = "queued"
      <4>1. m \in Msg /\ m \notin Queued /\ m \notin inFlight /\ told[m] = "queued"
        BY <1>5 DEF IInv, PlaceInv
      <4>2. QED
        BY <1>4, <4>1
    <3>2. ASSUME NEW m \in inFlight, reason # "turn_aborted" PROVE told'[m] = "queued"
      BY <1>4, <1>5, <3>2
    <3>3. QED
      BY <1>4, <3>1, <3>2
  <2>2. \A m \in Msg \ lost' : told'[m] = "queued" => m \in confirming'
    BY <1>4 DEF IInv, PlaceInv
  <2>3. \A m \in Piped' : told'[m] \in {"queued", "unconfirmed"} /\ ~Found(m)'
    <3>1. \A m \in Piped : m \in Msg /\ m \notin Queued /\ told[m] \in {"queued", "unconfirmed"} /\ ~Found(m)
      BY Typed DEF IInv, PlaceInv
    <3>2. QED
      BY <1>2, <1>3, <1>4, <3>1
  <2>4. ASSUME NEW m \in Msg
        PROVE  /\ Found(m)' => told'[m] \in {"queued", "unconfirmed", "delivered"}
               /\ told'[m] = "delivered" => Found(m)'
    <3>1. Found(m) => m \notin Queued
      BY DEF IInv, PlaceInv
    <3>2. QED
      BY <1>3, <1>4, <3>1 DEF IInv, PlaceInv
  <2>5. QED
    BY <1>1, <2>1, <2>2, <2>3, <2>4 DEF PlaceInv
<1>8. OnceInv'
  BY <1>1, <1>2 DEF IInv, OnceInv
<1>9. QED
  BY <1>6, <1>7, <1>8

LEMMA CloseStep ==
    ASSUME IInv, NEW reason \in {"turn_aborted", "input_closed"}, Close(reason),
           UNCHANGED <<ask, transcript, turn, running, stdin, program, lost>>,
           listed' \in BOOLEAN, listed' => listed, handling' \in {"none", "result", "text"},
           timer' = "none" \/ timer' = timer
    PROVE  IInv'
<1>1. timer' \in {"none", "grace", "hold"} /\ UNCHANGED <<cli, out, hook, accepted, tainted>>
  BY DEF IInv, TypeOK, Close, program, steer
<1>2. \A k \in Msg : Covered(k)' <=> Covered(k)
  BY <1>1 DEF Covered
<1>3. Piped' = Piped
  BY DEF Piped
<1>4. CASE closed # "open"
  <2>1. UNCHANGED <<row, told, steer, gen, confirming>>
    BY <1>4 DEF Close
  <2>2. (Queued' = Queued) /\ UNCHANGED <<queue, inFlight, closed>>
    BY <2>1 DEF Queued, steer
  <2>3. TypeOK'
    BY <1>1, <2>1 DEF IInv, TypeOK, steer, program
  <2>4. RowInv'
    BY <2>1 DEF IInv, RowInv
  <2>5. PlaceInv' /\ OnceInv'
    BY <2>1, <2>2, PlacesKept
  <2>6. RunInv' /\ TimerInv'
    BY <1>1, <1>3, <2>2 DEF IInv, RunInv, TimerInv, Pending
  <2>7. TaintInv'
    BY <1>2, <1>3, <2>2, Typed DEF IInv, TaintInv
  <2>8. QED
    BY <2>3, <2>4, <2>5, <2>6, <2>7 DEF IInv
<1>5. CASE closed = "open"
  <2>1. /\ closed' = reason /\ queue' = <<>> /\ inFlight' = {} /\ SettlesAll(Verdicts(reason))
        /\ gen' = IF gen = "parked" THEN "done" ELSE gen
    BY <1>5 DEF Close
  <2>2. Queued' = {}
    BY <2>1, EmptyPlace DEF Queued
  <2>3. RowInv' /\ PlaceInv' /\ OnceInv'
    BY <2>1, ClosingPlaces
  <2>4. TypeOK'
    <3>1. /\ row' \in [Msg -> {"none", "queued"} \cup Final] /\ told' \in [Msg -> {"none", "queued"} \cup Final]
          /\ confirming' \subseteq Msg
      BY <2>1, ClosingVerdicts, Typed
    <3>2. queue' \in Seq(Msg) /\ Len(queue') <= QueueMax /\ inFlight' \subseteq Msg
      BY <2>1, SteerAssumption
    <3>3. gen' \in {"ready", "parked", "done"} /\ closed' \in {"open", "turn_aborted", "input_closed"}
      BY <2>1 DEF IInv, TypeOK
    <3>4. QED
      BY <1>1, <3>1, <3>2, <3>3 DEF IInv, TypeOK
  <2>5. RunInv'
    BY <1>1, <1>3, <2>1, <2>2 DEF IInv, RunInv
  <2>6. TaintInv'
    BY <1>2, <1>3, <2>2, Typed DEF IInv, TaintInv
  <2>7. TimerInv'
    BY <2>1 DEF TimerInv, Pending
  <2>8. QED
    BY <2>3, <2>4, <2>5, <2>6, <2>7 DEF IInv
<1>6. QED
  BY <1>4, <1>5

LEMMA AbortStep ==
    ASSUME IInv, Abort
    PROVE  IInv'
<1>1. /\ listed' = FALSE /\ listed /\ Close("turn_aborted")
      /\ UNCHANGED <<ask, transcript, turn, running, stdin, program, lost>> /\ UNCHANGED <<handling, timer>>
  BY DEF Abort, loop
<1>2. handling' \in {"none", "result", "text"}
  BY <1>1 DEF IInv, TypeOK
<1>3. QED
  BY <1>1, <1>2, CloseStep

LEMMA TimerStep ==
    ASSUME IInv, TimerFires
    PROVE  IInv'
<1>1. /\ timer' = "none" /\ Close("input_closed")
      /\ UNCHANGED <<ask, transcript, entry, stdin, program, handling, lost>>
  BY DEF TimerFires
<1>2. UNCHANGED <<turn, running, listed>> /\ listed' \in BOOLEAN /\ handling' \in {"none", "result", "text"}
  BY <1>1 DEF IInv, TypeOK, entry
<1>3. QED
  BY <1>1, <1>2, CloseStep

(* The end of a message: no plan but the hold is for a run with a text.     *)
LEMMA ReconsiderStep ==
    ASSUME IInv, Reconsider
    PROVE  IInv'
<1>1. /\ handling' = "none"
      /\ UNCHANGED <<ask, transcript, entry, stdin, program, lost>>
  BY DEF Reconsider
<1>2. \/ /\ timer' = "none" \/ (timer' \in {"grace", "hold"} /\ (timer' = "grace" => ~Pending))
         /\ UNCHANGED <<row, told, steer, gen, confirming>>
      \/ timer' = "none" /\ Close("input_closed")
  BY DEF Reconsider, Plan
<1>3. CASE timer' = "none" /\ Close("input_closed")
  <2>1. UNCHANGED <<turn, running, listed>> /\ listed' \in BOOLEAN
    BY <1>1 DEF IInv, TypeOK, entry
  <2>2. QED
    BY <1>1, <1>3, <2>1, CloseStep
<1>4. CASE /\ timer' = "none" \/ (timer' \in {"grace", "hold"} /\ (timer' = "grace" => ~Pending))
           /\ UNCHANGED <<row, told, steer, gen, confirming>>
  <2>1. TypeOK'
    BY <1>1, <1>4 DEF IInv, TypeOK, entry, steer, program
  <2>2. TimerInv'
    BY <1>4 DEF TimerInv, Pending, steer
  <2>3. UNCHANGED <<durable, entry, steer, stdin, confirming, lost>> /\ cli' = cli
    BY <1>1, <1>4 DEF durable, program
  <2>4. QED
    BY <2>1, <2>2, <2>3, QuietStep
<1>5. QED
  BY <1>2, <1>3, <1>4

(* A look at the transcript ends.                                           *)
LEMMA ConfirmStep ==
    ASSUME IInv, NEW m \in Msg, Confirm(m)
    PROVE  IInv'
<1>1. /\ m \in confirming /\ confirming' = confirming \ {m}
      /\ UNCHANGED <<ask, transcript, entry, steer, gen, stdin, program, loop, lost>>
  BY DEF Confirm
<1>2. told[m] = "queued" /\ row[m] = "queued" /\ m \notin Queued /\ m \notin inFlight /\ ask[m] # NoAsk
  <2>1. told[m] = "queued" /\ m \notin Queued /\ m \notin inFlight
    BY <1>1 DEF IInv, PlaceInv
  <2>2. QED
    BY <2>1 DEF IInv, RowInv
<1>3. PICK status \in {"delivered", "unconfirmed"} :
         (status = "delivered" => Found(m)) /\ Settles([k \in Msg |-> IF k = m THEN status ELSE "none"])
  BY DEF Confirm
<1>4. /\ row'[m] = status /\ told'[m] = status
      /\ \A k \in Msg \ {m} : row'[k] = row[k] /\ told'[k] = told[k]
      /\ row' \in [Msg -> {"none", "queued"} \cup Final] /\ told' \in [Msg -> {"none", "queued"} \cup Final]
  <2> DEFINE v == [k \in Msg |-> IF k = m THEN status ELSE "none"]
             now == {k \in Msg : v[k] \in Final}
  <2>1. now = {m} /\ v[m] = status /\ status \in Final
    BY DEF Final
  <2>2. /\ told' = [k \in Msg |-> IF k \in now THEN v[k] ELSE told[k]]
        /\ row' = [k \in Msg |-> IF k \in now THEN Moved(k, v[k]) ELSE row[k]]
    BY <1>3 DEF Settles
  <2> HIDE DEF v, now
  <2>3. Moved(m, v[m]) = status
    BY <1>2, <2>1 DEF Moved
  <2>4. /\ row'[m] = status /\ told'[m] = status
        /\ \A k \in Msg \ {m} : row'[k] = row[k] /\ told'[k] = told[k]
    BY <2>1, <2>2, <2>3
  <2>5. \A k \in Msg : row'[k] \in {"none", "queued"} \cup Final /\ told'[k] \in {"none", "queued"} \cup Final
    BY <2>1, <2>4, Typed
  <2>6. QED
    BY <2>2, <2>4, <2>5
<1>5. /\ (Queued' = Queued) /\ (Piped' = Piped)
      /\ \A k \in Msg : (Covered(k)' <=> Covered(k)) /\ (Found(k)' <=> Found(k))
  BY <1>1 DEF Queued, Piped, Covered, Found, steer
<1>6. TypeOK'
  BY <1>1, <1>4 DEF IInv, TypeOK, entry, steer, program, loop
<1>7. RowInv'
  BY <1>1, <1>2, <1>4 DEF IInv, RowInv
<1>8. PlaceInv'
  <2>1. (inFlight' = inFlight) /\ (lost' = lost)
    BY <1>1 DEF steer
  <2>2. \A k \in Queued' \cup inFlight' \cup confirming' : told'[k] = "queued"
    BY <1>1, <1>2, <1>4, <1>5, <2>1, Typed DEF IInv, PlaceInv
  <2>3. \A k \in Piped' : told'[k] \in {"queued", "unconfirmed"} /\ ~Found(k)'
    <3>1. ASSUME NEW k \in Piped PROVE told'[k] \in {"queued", "unconfirmed"} /\ ~Found(k)
      <4>1. k \in Msg /\ told[k] \in {"queued", "unconfirmed"} /\ ~Found(k)
        BY Typed DEF IInv, PlaceInv
      <4>2. QED
        BY <1>3, <1>4, <4>1
    <3>2. QED
      BY <1>5, <3>1, Typed
  <2>4. \A k \in Queued' : k \notin inFlight' /\ k \notin confirming' /\ k \notin Piped' /\ ~Found(k)'
    BY <1>1, <1>5, <2>1, Typed DEF IInv, PlaceInv
  <2>5. \A k \in Msg \ lost' : told'[k] = "queued" => k \in Queued' \cup inFlight' \cup confirming'
    BY <1>1, <1>2, <1>4, <1>5, <2>1 DEF IInv, PlaceInv
  <2>6. \A k \in Msg : /\ Found(k)' => told'[k] \in {"queued", "unconfirmed", "delivered"}
                       /\ told'[k] = "delivered" => Found(k)'
    BY <1>3, <1>4, <1>5 DEF IInv, PlaceInv
  <2>7. inFlight' \cap confirming' = {}
    BY <1>1, <2>1 DEF IInv, PlaceInv
  <2>8. QED
    BY <2>2, <2>3, <2>4, <2>5, <2>6, <2>7 DEF PlaceInv
<1>9. OnceInv'
  BY <1>1 DEF IInv, OnceInv, steer
<1>10. RunInv'
  BY <1>1, <1>5 DEF IInv, RunInv, entry, steer, program
<1>11. TaintInv'
  BY <1>1, <1>5, Typed DEF IInv, TaintInv, entry
<1>12. TimerInv'
  BY <1>1 DEF IInv, TimerInv, Pending, steer, loop
<1>13. QED
  BY <1>6, <1>7, <1>8, <1>9, <1>10, <1>11, <1>12 DEF IInv

-----------------------------------------------------------------------------
(* A run that is armed or gone has nothing under way in its own memory.     *)
LEMMA CleanRun ==
    ASSUME IInv, Fresh
    PROVE  /\ Queued' = {} /\ Piped' = {} /\ NoRepeat(queue)' /\ NoRepeat(stdin)'
           /\ queue' \in Seq(Msg) /\ Len(queue') <= QueueMax /\ stdin' \in Seq(Msg) /\ inFlight' \subseteq Msg
           /\ out' \in Seq({"result", "text"}) /\ handling' = "none" /\ timer' = "none"
           /\ queue' = <<>> /\ inFlight' = {} /\ stdin' = <<>>
BY EmptyPlace, SteerAssumption DEF Fresh, Queued, Piped

LEMMA StartStep ==
    ASSUME IInv, StartRun
    PROVE  IInv'
<1>1. /\ ~running /\ turn < MaxTurns /\ turn' = turn + 1 /\ running' = TRUE /\ listed' = TRUE
      /\ closed' = "open" /\ hook' \in BOOLEAN /\ accepted' = 0 /\ tainted' = FALSE
      /\ gen' = "ready" /\ cli' = "working" /\ Fresh
      /\ UNCHANGED <<ask, row, told, transcript, confirming, lost>>
  BY DEF StartRun, durable
<1>2. turn' \in 0..MaxTurns /\ turn' >= 1 /\ turn < turn' /\ turn \in Nat /\ turn' \in Nat
  BY <1>1, Typed
<1>3. queue = <<>> /\ inFlight = {} /\ stdin = <<>>
  BY <1>1 DEF IInv, RunInv
<1>4. TypeOK'
  <2>1. accepted' \in 0..PerTurnMax
    BY <1>1, SteerAssumption
  <2>2. QED
    BY <1>1, <1>2, <2>1, CleanRun DEF IInv, TypeOK
<1>5. RowInv'
  BY <1>1 DEF IInv, RowInv
<1>6. PlaceInv' /\ OnceInv'
  <2>1. UNCHANGED <<told, queue, inFlight, confirming, lost, stdin, transcript>>
    BY <1>1, <1>3, CleanRun
  <2>2. QED
    BY <2>1, PlacesKept
<1>7. \A i \in DOMAIN transcript : /\ transcript[i].run \in Nat /\ transcript[i].run <= turn
                                   /\ ask[transcript[i].msg].turn = transcript[i].run
  BY Typed DEF IInv, RunInv
<1>8. \A i \in DOMAIN transcript : transcript[i].run <= turn' /\ transcript[i].run # turn'
  BY <1>2, <1>7
<1>9. RunInv'
  BY <1>1, <1>2, <1>7, <1>8, CleanRun DEF RunInv
<1>10. TaintInv'
  BY <1>1, <1>8, CleanRun DEF TaintInv
<1>11. TimerInv'
  BY <1>1, CleanRun DEF TimerInv
<1>12. QED
  BY <1>4, <1>5, <1>6, <1>9, <1>10, <1>11 DEF IInv

(* What the end of a run and a crash share.                                 *)
LEMMA GoneStep ==
    ASSUME IInv, Gone, UNCHANGED <<ask, transcript, turn>>, RowInv', PlaceInv', OnceInv',
           row' \in [Msg -> {"none", "queued"} \cup Final], told' \in [Msg -> {"none", "queued"} \cup Final],
           confirming' \subseteq Msg, lost' \subseteq Msg
    PROVE  IInv'
<1>1. /\ running' = FALSE /\ listed' = FALSE /\ gen' = "done" /\ cli' = "off" /\ Fresh
      /\ closed' = "input_closed" /\ hook' = FALSE /\ accepted' = 0 /\ tainted' = FALSE
  BY DEF Gone
<1>2. TypeOK'
  <2>1. accepted' \in 0..PerTurnMax
    BY <1>1, SteerAssumption
  <2>2. QED
    BY <1>1, <2>1, CleanRun DEF IInv, TypeOK
<1>3. RunInv'
  BY <1>1, CleanRun DEF IInv, RunInv
<1>4. TaintInv' /\ TimerInv'
  BY <1>1, CleanRun DEF TaintInv, TimerInv
<1>5. QED
  BY <1>2, <1>3, <1>4 DEF IInv

LEMMA RunEndsStep ==
    ASSUME IInv, RunEnds
    PROVE  IInv'
<1>1. Gone /\ Fresh /\ UNCHANGED <<ask, transcript, turn, lost>>
  BY DEF RunEnds, Gone
<1>2. CASE closed = "open"
  <2>1. SettlesAll(Verdicts("input_closed"))
    BY <1>2 DEF RunEnds
  <2>2. queue' = <<>> /\ inFlight' = {} /\ stdin' = <<>>
    BY <1>1, CleanRun
  <2>3. RowInv' /\ PlaceInv' /\ OnceInv'
    BY <1>1, <2>1, <2>2, ClosingPlaces
  <2>4. /\ row' \in [Msg -> {"none", "queued"} \cup Final] /\ told' \in [Msg -> {"none", "queued"} \cup Final]
        /\ confirming' \subseteq Msg
    BY <2>1, ClosingVerdicts, Typed
  <2>5. QED
    BY <1>1, <2>3, <2>4, GoneStep, Typed
<1>3. CASE closed # "open"
  <2>1. UNCHANGED <<row, told, confirming>>
    BY <1>3 DEF RunEnds
  <2>2. queue = <<>> /\ inFlight = {} /\ Queued = {}
    BY <1>3, EmptyPlace DEF IInv, RunInv, Queued
  <2>3. RowInv'
    BY <1>1, <2>1 DEF IInv, RowInv
  <2>4. PlaceInv'
    <3>1. \A k \in Msg : Found(k)' <=> Found(k)
      BY <1>1 DEF Found
    <3>2. QED
      BY <1>1, <2>1, <2>2, <3>1, CleanRun DEF IInv, PlaceInv
  <2>5. OnceInv'
    BY <1>1, CleanRun DEF IInv, OnceInv
  <2>6. QED
    BY <1>1, <2>1, <2>3, <2>4, <2>5, GoneStep, Typed
<1>4. QED
  BY <1>2, <1>3

LEMMA CrashStep ==
    ASSUME IInv, Crash
    PROVE  IInv'
<1>1. /\ lost' = lost \cup {m \in Msg : told[m] = "queued"} /\ Gone /\ Fresh /\ confirming' = {}
      /\ UNCHANGED <<ask, row, told, transcript, turn>>
  BY DEF Crash, Gone, durable
<1>2. RowInv'
  BY <1>1 DEF IInv, RowInv
<1>3. PlaceInv'
  <2>1. \A k \in Msg : Found(k)' <=> Found(k)
    BY <1>1 DEF Found
  <2>2. \A m \in Msg \ lost' : told'[m] # "queued"
    BY <1>1
  <2>3. \A m \in Msg : Found(m)' => told'[m] \in {"queued", "unconfirmed", "delivered"}
    BY <1>1, <2>1 DEF IInv, PlaceInv
  <2>4. \A m \in Msg : told'[m] = "delivered" => Found(m)'
    BY <1>1, <2>1 DEF IInv, PlaceInv
  <2>5. QED
    BY <1>1, <2>2, <2>3, <2>4, CleanRun DEF PlaceInv
<1>4. OnceInv'
  BY <1>1, CleanRun DEF IInv, OnceInv
<1>5. lost' \subseteq Msg
  BY <1>1, Typed
<1>6. QED
  BY <1>1, <1>2, <1>3, <1>4, <1>5, GoneStep, Typed

-----------------------------------------------------------------------------
LEMMA NextIInv == IInv /\ [Next]_vars => IInv'
<1> SUFFICES ASSUME IInv, [Next]_vars PROVE IInv'
  OBVIOUS
<1>1. ASSUME NEW m \in Msg, Admit(m) \/ Confirm(m) \/ \E u \in User : Ask(m, u) PROVE IInv'
  BY <1>1, AdmitStep, ConfirmStep, AskStep
<1>2. CASE StartRun \/ Take \/ CliReads \/ Handle \/ Reconsider
  BY <1>2, StartStep, TakeStep, ReadStep, HandleStep, ReconsiderStep
<1>3. CASE TimerFires \/ Abort \/ RunEnds \/ Crash
  BY <1>3, TimerStep, AbortStep, RunEndsStep, CrashStep
<1>4. CASE CliExits \/ (\E kind \in {"result", "text"} : CliSays(kind)) \/ UNCHANGED vars
  BY <1>4, ProgramStep
<1>5. QED
  BY <1>1, <1>2, <1>3, <1>4 DEF Next

(* Rows, events, places, runs, taint and the close timer stay in step over  *)
(* every order of admissions, reads, results, closes, stops and crashes.    *)
THEOREM SteerInvariant == Spec => []IInv
<1>1. QED
  BY InitIInv, NextIInv, PTL DEF Spec

(* What members are told of a text is the truth about the transcript: a     *)
(* rejected one is not read, and never will be; a delivered one is there.   *)
THEOREM MembersAreToldTheTruth == Spec => []VerdictIsTrue
<1>1. IInv => VerdictIsTrue
  <2> SUFFICES ASSUME IInv, NEW m \in Msg
               PROVE  /\ "rejected" \in {row[m], told[m]} => ReadBy(m) = {} /\ m \notin ToSet(stdin)
                      /\ "delivered" \in {row[m], told[m]} => ReadBy(m) # {}
    BY DEF VerdictIsTrue
  <2>1. Found(m) <=> ReadBy(m) # {}
    BY DEF Found, ReadBy
  <2>2. CASE told[m] = "none"
    <3>1. row[m] # "delivered" /\ ~Found(m) /\ m \notin Piped
      BY <2>2 DEF IInv, RowInv, PlaceInv
    <3>2. QED
      BY <2>1, <2>2, <3>1 DEF Piped
  <2>3. CASE told[m] # "none"
    <3>1. row[m] = told[m]
      BY <2>3 DEF IInv, RowInv
    <3>2. told[m] = "rejected" => ~Found(m) /\ m \notin Piped
      BY DEF IInv, PlaceInv
    <3>3. told[m] = "delivered" => Found(m)
      BY DEF IInv, PlaceInv
    <3>4. QED
      BY <2>1, <3>1, <3>2, <3>3 DEF Piped
  <2>4. QED
    BY <2>2, <2>3
<1>2. QED
  BY <1>1, SteerInvariant, PTL

(* The model reads a text at most once, and in the run it was written for.  *)
THEOREM TextsAreReadOnce == Spec => []ReadOnceByItsRun
<1>1. IInv => ReadOnceByItsRun
  <2> SUFFICES ASSUME IInv PROVE ReadOnceByItsRun
    OBVIOUS
  <2>1. ASSUME NEW m \in Msg PROVE Cardinality(ReadBy(m)) <= 1
    <3>1. \A i, k \in ReadBy(m) : i = k
      BY DEF IInv, OnceInv, ReadBy
    <3>2. CASE ReadBy(m) = {}
      BY <3>2, FS_EmptySet
    <3>3. CASE ReadBy(m) # {}
      <4>1. PICK i : i \in ReadBy(m)
        BY <3>3
      <4>2. ReadBy(m) = {i}
        BY <3>1, <4>1
      <4>3. QED
        BY <4>2, FS_Singleton
    <3>4. QED
      BY <3>2, <3>3
  <2>2. \A i \in DOMAIN transcript : ask[transcript[i].msg].turn = transcript[i].run
    BY DEF IInv, RunInv
  <2>3. QED
    BY <2>1, <2>2 DEF ReadOnceByItsRun
<1>2. QED
  BY <1>1, SteerInvariant, PTL

(* An accepted text is in one place, or has its one final event, until a    *)
(* crash forgets it.                                                        *)
THEOREM TextsAreInOnePlace == Spec => []InOnePlace
<1>1. IInv => InOnePlace
  <2> SUFFICES ASSUME IInv, NEW m \in Msg \ lost, told[m] # "none"
               PROVE  Cardinality({p \in 1..4 : \/ p = 1 /\ m \in ToSet(queue)
                                                \/ p = 2 /\ m \in inFlight
                                                \/ p = 3 /\ m \in confirming
                                                \/ p = 4 /\ told[m] \in Final}) = 1
    BY DEF InOnePlace, IInv
  <2> DEFINE places == {p \in 1..4 : \/ p = 1 /\ m \in ToSet(queue)
                                     \/ p = 2 /\ m \in inFlight
                                     \/ p = 3 /\ m \in confirming
                                     \/ p = 4 /\ told[m] \in Final}
  <2>1. \E p : places = {p}
    <3>1. CASE told[m] = "queued"
      <4>1. m \in Queued \cup inFlight \cup confirming /\ told[m] \notin Final
        BY <3>1 DEF IInv, PlaceInv, Final
      <4>2. CASE m \in Queued
        <5>1. m \notin inFlight /\ m \notin confirming
          BY <4>2 DEF IInv, PlaceInv
        <5>2. places = {1}
          BY <4>1, <4>2, <5>1 DEF Queued
        <5>3. QED
          BY <5>2
      <4>3. CASE m \in inFlight
        <5>1. m \notin Queued /\ m \notin confirming
          BY <4>3 DEF IInv, PlaceInv
        <5>2. places = {2}
          BY <4>1, <4>3, <5>1 DEF Queued
        <5>3. QED
          BY <5>2
      <4>4. CASE m \in confirming
        <5>1. m \notin Queued /\ m \notin inFlight
          BY <4>4 DEF IInv, PlaceInv
        <5>2. places = {3}
          BY <4>1, <4>4, <5>1 DEF Queued
        <5>3. QED
          BY <5>2
      <4>5. QED
        BY <4>1, <4>2, <4>3, <4>4
    <3>2. CASE told[m] # "queued"
      <4>1. told[m] \in Final
        BY <3>2, Typed
      <4>2. m \notin Queued /\ m \notin inFlight /\ m \notin confirming
        BY <3>2 DEF IInv, PlaceInv
      <4>3. places = {4}
        BY <4>1, <4>2 DEF Queued
      <4>4. QED
        BY <4>3
    <3>3. QED
      BY <3>1, <3>2
  <2> HIDE DEF places
  <2>2. Cardinality(places) = 1
    BY <2>1, FS_Singleton
  <2>3. QED
    BY <2>2 DEF places
<1>2. QED
  BY <1>1, SteerInvariant, PTL

(* No gated tool starts without the starter's word once the run has read    *)
(* text that another member steered into it.                                *)
THEOREM StarterIsAsked == Spec => []OthersNeedTheStarter
<1>1. IInv => OthersNeedTheStarter
  <2> SUFFICES ASSUME IInv, Unasked, NEW i \in DOMAIN transcript, transcript[i].run = turn
               PROVE  ask[transcript[i].msg].by = Starter
    BY DEF OthersNeedTheStarter
  <2>1. running
    BY DEF Unasked, IInv, RunInv
  <2>2. Covered(transcript[i].msg)
    BY <2>1 DEF IInv, TaintInv
  <2>3. QED
    BY <2>2 DEF Covered, Unasked
<1>2. QED
  BY <1>1, SteerInvariant, PTL

-----------------------------------------------------------------------------
(* A run that went quiet closes its input over a text only at the cap.      *)
LEMMA SparedStep ==
    ASSUME IInv, Next, closed = "open", closed' = "input_closed", cli' # "off"
    PROVE  timer = "hold" \/ ~Pending
<1>1. CASE \E m \in Msg : Admit(m) \/ Confirm(m) \/ \E u \in User : Ask(m, u)
  BY <1>1 DEF Admit, Enqueue, Confirm, Ask, steer
<1>2. CASE StartRun \/ Take \/ CliReads \/ CliExits \/ Handle
  BY <1>2 DEF StartRun, Take, CliReads, CliExits, Handle, steer
<1>3. CASE \E kind \in {"result", "text"} : CliSays(kind)
  BY <1>3 DEF CliSays, steer
<1>4. CASE Reconsider
  BY <1>4 DEF Reconsider, Plan, steer
<1>5. CASE TimerFires
  BY <1>5 DEF TimerFires, IInv, TypeOK, TimerInv
<1>6. CASE Abort
  BY <1>6 DEF Abort, Close
<1>7. CASE RunEnds \/ Crash
  BY <1>7 DEF RunEnds, Crash, Gone
<1>8. QED
  BY <1>1, <1>2, <1>3, <1>4, <1>5, <1>6, <1>7 DEF Next

(* The input of a quiet run is closed over a text under way only at the     *)
(* cap of the hold; the short grace never cuts one off.                     *)
THEOREM QuietRunsSpareSteers == Spec => GraceSparesSteers
<1>1. IInv /\ [Next]_vars
        => [closed = "open" /\ closed' = "input_closed" /\ cli' # "off" => timer = "hold" \/ ~Pending]_vars
  BY SparedStep
<1>2. QED
  BY <1>1, SteerInvariant, PTL DEF Spec, GraceSparesSteers
===============================================================================
