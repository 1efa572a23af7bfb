----------------------------- MODULE JobLedger ------------------------------
(***************************************************************************)
(* What the job engine promises its clients: a job is created at most      *)
(* once, an open job ends once, as settled or as cancelled, and never      *)
(* changes afterwards; the owner is told of a settlement at most once, at  *)
(* the moment it happens, and never of a cancellation.  A process that     *)
(* dies between the settlement and the callback leaves the owner untold.   *)
(*                                                                         *)
(* JobEngine implements this specification; Scheduler is written on it.    *)
(***************************************************************************)
CONSTANT Jobs

VARIABLES state,   \* the phase of every job
          told     \* the jobs whose owner's onJobSettled callback has run

ledgerVars == <<state, told>>

Phases == {"none", "open", "settled", "cancelled"}

Init == state = [j \in Jobs |-> "none"] /\ told = {}

\* A batch of createJob calls; one scheduler tick may create several jobs.
Create(J) ==
    /\ \A j \in J : state[j] = "none"
    /\ state' = [j \in Jobs |-> IF j \in J THEN "open" ELSE state[j]]
    /\ UNCHANGED told

Settle(j) ==
    /\ state[j] = "open"
    /\ state' = [state EXCEPT ![j] = "settled"]
    /\ told' = told \cup {j}

SettleUntold(j) ==
    /\ state[j] = "open"
    /\ state' = [state EXCEPT ![j] = "settled"]
    /\ UNCHANGED told

Cancel(j) ==
    /\ state[j] = "open"
    /\ state' = [state EXCEPT ![j] = "cancelled"]
    /\ UNCHANGED told

Next == \/ \E J \in SUBSET Jobs : Create(J)
        \/ \E j \in Jobs : Settle(j) \/ SettleUntold(j) \/ Cancel(j)

Spec == Init /\ [][Next]_ledgerVars
=============================================================================
