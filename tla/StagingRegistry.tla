-------------------------- MODULE StagingRegistry --------------------------
(***************************************************************************)
(* What the MWA staging registry (stage_dic of ngamsJobMWALib) promises to *)
(* the correlator tasks that wait on it: a task asking for files on a host *)
(* is registered once per file; the outcome of a file on a host answers    *)
(* every task registered for it at once; a task that gives up on a file    *)
(* withdraws exactly one registration of its own.                          *)
(* MWAStaging is checked to implement this.                                *)
(***************************************************************************)
EXTENDS Naturals

CONSTANTS Corrs, Keys   \* Keys: <<file id, host>> pairs

VARIABLES
    waiting,    \* [Corrs \X Keys -> Nat]: open registrations
    told        \* [Corrs \X Keys -> Nat]: answers a task received

Init ==
    /\ waiting = [ck \in Corrs \X Keys |-> 0]
    /\ told = [ck \in Corrs \X Keys |-> 0]

Register(c, K) ==
    /\ waiting' = [ck \in Corrs \X Keys |->
                  IF ck[1] = c /\ ck[2] \in K THEN waiting[ck] + 1 ELSE waiting[ck]]
    /\ UNCHANGED told

\* Every open registration of the key is answered, once.
Resolve(k) ==
    /\ told' = [ck \in Corrs \X Keys |->
                  IF ck[2] = k THEN told[ck] + waiting[ck] ELSE told[ck]]
    /\ waiting' = [ck \in Corrs \X Keys |-> IF ck[2] = k THEN 0 ELSE waiting[ck]]

Withdraw(c, k) ==
    /\ waiting[<<c, k>>] > 0
    /\ waiting' = [waiting EXCEPT ![<<c, k>>] = @ - 1]
    /\ UNCHANGED told

Next ==
    \/ \E c \in Corrs, K \in SUBSET Keys : Register(c, K)
    \/ \E k \in Keys : Resolve(k)
    \/ \E c \in Corrs, k \in Keys : Withdraw(c, k)

Spec == Init /\ [][Next]_<<waiting, told>>

=============================================================================
