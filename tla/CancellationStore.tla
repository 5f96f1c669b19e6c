-------------------------- MODULE CancellationStore --------------------------
(***************************************************************************)
(* The durable cancellation tables of the turn supervisor: a root (one     *)
(* user turn) owns the runs spawned for it, and every operation is one     *)
(* SQLite transaction, so one step.  The row epochs are kept because every *)
(* later writer presents the epoch it read (compare and swap).             *)
(* Source: server/modules/turn-supervisor/cancel-cascade.ts.               *)
(***************************************************************************)
EXTENDS Naturals

CONSTANTS Root,      \* root identities (the turn ids)
          Run,       \* run identities
          NoRoot     \* the root of a run that has no row yet

ASSUME NoRootAssumption == NoRoot \notin Root

VARIABLES root,      \* turn_cancellation_roots.state by root_id
          crun       \* turn_cancellation_runs row by run_id

cancelVars == <<root, crun>>

RootStates == {"absent", "active", "cancel_requested", "cancelled"}
RunStates  == {"absent", "active", "cancel_requested", "reaped", "completed"}

\* A run changes state at most twice.
MaxEpoch == 2

\* The epoch a run row has in each state: one more per transaction that moved it.
EpochOf(state) == CASE state \in {"absent", "active"} -> 0
                    [] state \in {"cancel_requested", "completed"} -> 1
                    [] OTHER -> MaxEpoch

NoRun == [state |-> "absent", root |-> NoRoot, epoch |-> 0]

Init == /\ root = [x \in Root |-> "absent"]
        /\ crun = [r \in Run |-> NoRun]

Moved(row, state) == [state |-> state, root |-> row.root, epoch |-> row.epoch + 1]

RunsOf(x, state) == {r \in Run : crun[r].root = x /\ crun[r].state = state}

-----------------------------------------------------------------------------
CreateRoot(x) ==
    /\ root' = IF root[x] = "absent" THEN [root EXCEPT ![x] = "active"] ELSE root
    /\ UNCHANGED crun

(* A run already registered under this root is accepted again; the adapter *)
(* id never differs for one run.  Guard: "root is not accepting runs".      *)
RegisterRunNoGuard(x, r) ==
    /\ crun[r].state = "absent" \/ crun[r].root = x
    /\ crun' = IF crun[r].state = "absent"
               THEN [crun EXCEPT ![r] = [state |-> "active", root |-> x, epoch |-> 0]]
               ELSE crun
    /\ UNCHANGED root

RegisterRun(x, r) == root[x] = "active" /\ RegisterRunNoGuard(x, r)

(* The first request marks the root and all its active runs in one          *)
(* transaction; a repeated request only reads.                              *)
RequestRootCancellation(x) ==
    /\ root[x] = "active"
    /\ root' = [root EXCEPT ![x] = "cancel_requested"]
    /\ crun' = [r \in Run |-> IF crun[r].root = x /\ crun[r].state = "active"
                              THEN Moved(crun[r], "cancel_requested") ELSE crun[r]]

CompleteRunUnfenced(r, expectedEpoch) ==
    /\ crun[r].state \in {"active", "cancel_requested"}
    /\ crun' = [crun EXCEPT ![r] = Moved(@, "completed")]
    /\ UNCHANGED root

CompleteRun(r, expectedEpoch) ==
    /\ crun[r].state = "active"
    /\ crun[r].epoch = expectedEpoch
    /\ crun' = [crun EXCEPT ![r] = Moved(@, "completed")]
    /\ UNCHANGED root

MarkRunReaped(r, expectedEpoch) ==
    /\ crun[r].state = "cancel_requested"
    /\ crun[r].epoch = expectedEpoch
    /\ crun' = [crun EXCEPT ![r] = Moved(@, "reaped")]
    /\ UNCHANGED root

MarkRootCancelled(x) ==
    /\ root[x] = "cancel_requested"
    /\ RunsOf(x, "cancel_requested") = {}
    /\ root' = [root EXCEPT ![x] = "cancelled"]
    /\ UNCHANGED crun

-----------------------------------------------------------------------------
(* Any number of callers, in any order, with any epoch they may have read. *)
Next ==
    \/ \E x \in Root : \/ CreateRoot(x)
                       \/ RequestRootCancellation(x)
                       \/ MarkRootCancelled(x)
    \/ \E x \in Root, r \in Run : RegisterRun(x, r)
    \/ \E r \in Run, epoch \in 0 .. MaxEpoch :
         CompleteRun(r, epoch) \/ MarkRunReaped(r, epoch)

Spec == Init /\ [][Next]_cancelVars

-----------------------------------------------------------------------------
(* The columns keep to their CHECK constraints, and the epoch of a run row   *)
(* counts its changes, so a writer that read an older row is always fenced. *)
TypeOK ==
    /\ root \in [Root -> RootStates]
    /\ crun \in [Run -> [state : RunStates, root : Root \cup {NoRoot}, epoch : 0 .. MaxEpoch]]
    /\ \A r \in Run : crun[r].epoch = EpochOf(crun[r].state)

(* "Atomically marks the root and every active child; future spawn must     *)
(* fail": once cancellation is requested no run of that root is active, and *)
(* none becomes active later.                                               *)
NoRunOutlivesRequest ==
    \A r \in Run : crun[r].state = "active" => root[crun[r].root] = "active"

(* A root is reported cancelled only when none of its runs still has to be  *)
(* reaped, and it stays so whatever callers do afterwards.                  *)
CancelledRootIsReaped ==
    \A r \in Run : /\ crun[r].state = "cancel_requested"
                   => root[crun[r].root] = "cancel_requested"

(* Both ways, a root and its runs never tell different stories.             *)
RunsFollowTheirRoot == NoRunOutlivesRequest /\ CancelledRootIsReaped

(* "completion wins only before cancellation does": a run for which         *)
(* cancellation was requested is reaped, never completed, and a run that    *)
(* reached either end keeps it.                                             *)
CompletionOrCancellation ==
    [][\A r \in Run :
         /\ crun[r].state = "cancel_requested" => crun'[r].state \in {"cancel_requested", "reaped"}
         /\ crun[r].state \in {"reaped", "completed"} => crun'[r] = crun[r]]_cancelVars
=============================================================================
