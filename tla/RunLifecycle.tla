---------------------------- MODULE RunLifecycle ----------------------------
(***************************************************************************)
(* What the run engine promises of the stored status column, whatever      *)
(* processes read and write it: a run is submitted once, moves only along  *)
(* the transition table, never leaves a terminal status, and the one       *)
(* execution slot is entered by the oldest queued run and only when it is  *)
(* free.  RunEngine is shown to implement it.                              *)
(***************************************************************************)
EXTENDS RunState, Naturals

CONSTANT Runs          \* run ids; their order is the order of created_at

VARIABLE status        \* [Runs -> RunStatus \cup {"absent"}]

Occupied == \E r \in Runs : status[r] \in ActiveRun

Oldest(r) == /\ status[r] = "queued"
             /\ \A q \in Runs : status[q] = "queued" => r <= q

LifecycleTypeOK == status \in [Runs -> RunStatus \cup {"absent"}]

LifecycleInit == status = [r \in Runs |-> "absent"]

Submit(r) == /\ status[r] = "absent"
             /\ status' = [status EXCEPT ![r] = "queued"]

\* The only way into the slot.
TakeSlot(r) == /\ Oldest(r)
               /\ ~Occupied
               /\ status' = [status EXCEPT ![r] = "preparing"]

\* A move of the table, or the two moves running -> cancelling -> cancelled
\* written by one transaction.
Move(r) ==
    \E s \in RunStatus :
        /\ status[r] \in RunStatus
        /\ \/ LegalRun(status[r], s) /\ s # "preparing"
           \/ status[r] = "running" /\ s = "cancelled"
        /\ status' = [status EXCEPT ![r] = s]

LifecycleNext == \E r \in Runs : Submit(r) \/ TakeSlot(r) \/ Move(r)

LifecycleSpec == LifecycleInit /\ [][LifecycleNext]_status
-----------------------------------------------------------------------------
\* At most one run occupies the execution slot.
OneSlot == \A r, q \in Runs :
               status[r] \in ActiveRun /\ status[q] \in ActiveRun => r = q
=============================================================================
