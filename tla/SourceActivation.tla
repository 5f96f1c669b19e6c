--------------------------- MODULE SourceActivation ---------------------------
(***************************************************************************)
(* What a source update changes on disk: the source tree, moved path by    *)
(* path between two commits, and the generations the server runs from      *)
(* (node_modules, dist-server, dist), each swapped with its candidate by   *)
(* one atomic exchange whose intent is in the activation receipt first.    *)
(* A position on disk is judged by its content hash, never by the receipt. *)
(* Source: scripts/lib/source-update-activation.mjs and the reopen proof   *)
(* of server/services/update-maintenance-gate.js.                          *)
(***************************************************************************)
EXTENDS Naturals, FiniteSetsExt

CONSTANTS NumGens,     \* how many generations one update exchanges
          Identical,   \* the ones whose content does not change between versions
          MaxUpdates   \* bound on the updates that may begin

Gens == 1..NumGens
Version == 0..MaxUpdates
Mixed == MaxUpdates + 1          \* the source tree between two versions

ASSUME DiskAssumption ==
    /\ NumGens \in Nat \ {0} /\ MaxUpdates \in Nat
    /\ Identical \subseteq Gens /\ Identical # Gens

VARIABLES src,         \* version of the source tree, or Mixed
          gen,         \* version of each live generation
          receipt,     \* whether the file exists, and the generations with a recorded step
          snap         \* a database snapshot of the transaction exists

NoReceipt == [filed |-> FALSE, steps |-> {}]
Recorded(S) == [filed |-> TRUE, steps |-> S]

diskVars == <<src, gen, receipt, snap>>

DiskInit == /\ src = 0 /\ gen = [g \in Gens |-> 0]
            /\ receipt = NoReceipt /\ snap = FALSE

DiskTypeOK == /\ src \in Version \cup {Mixed}
              /\ gen \in [Gens -> Version]
              /\ receipt \in [filed : BOOLEAN, steps : SUBSET Gens]
              /\ snap \in BOOLEAN

-----------------------------------------------------------------------------
Changed == Gens \ Identical

\* By hash, an identical generation is at both versions at once.
AllAt(v) == \A g \in Changed : gen[g] = v

(* One write of the source tree towards a version: the first path makes it  *)
(* mixed, the last one and the branch ref complete it.                      *)
WriteSource(v) == /\ src # v
                  /\ src' = IF src = Mixed THEN v ELSE Mixed
                  /\ UNCHANGED <<gen, receipt, snap>>

(* Forward exchange, in order; what is next has no completed step yet.      *)
NextForward(to) == {g \in Gens : /\ \A h \in 1..(g - 1) : h \in receipt.steps /\ (h \in Changed => gen[h] = to)
                                 /\ g \notin receipt.steps \/ (g \in Changed /\ gen[g] # to)}

RecordIntent(to) == \E g \in NextForward(to) :
    /\ g \notin receipt.steps
    /\ receipt' = Recorded(receipt.steps \cup {g})
    /\ UNCHANGED <<src, gen, snap>>

Exchange(to) == \E g \in NextForward(to) :
    /\ g \in receipt.steps
    /\ gen' = [gen EXCEPT ![g] = to]
    /\ UNCHANGED <<src, receipt, snap>>

Exchanged(to) == receipt.steps = Gens /\ AllAt(to)

(* Rollback exchanges the last generation that is not at the old version.   *)
UndoExchange(from) ==
    LET back == {g \in Changed : gen[g] # from}
    IN /\ receipt.filed /\ back # {}
       /\ receipt' = Recorded(receipt.steps \cup {Max(back)})
       /\ gen' = [gen EXCEPT ![Max(back)] = from]
       /\ UNCHANGED <<src, snap>>

(* A finished rollback has written a step for every generation.             *)
UndoneReceipt == IF receipt.filed THEN Recorded(Gens) ELSE receipt

(* The proof that every live generation is the previous one: a generation   *)
(* without a recorded step must not already have the target's content.      *)
GensProven(from) ==
    /\ AllAt(from)
    /\ \A g \in Identical : g \in receipt.steps
===============================================================================
