-------------------------- MODULE JobEngineProofs ---------------------------
(***************************************************************************)
(* Theorems about JobEngine for every set of jobs and items, every number  *)
(* of attempts, permits and process deaths.                                *)
(*                                                                         *)
(* The inductive invariant is IInv.  The properties are not inductive by   *)
(* themselves: that active stays a number needs the permits to match the   *)
(* executions, which needs that no claimable item is in flight, which      *)
(* needs that a job without a row has no items in flight; the bound on the *)
(* attempts needs a strict bound for the items that may be claimed again.  *)
(*                                                                         *)
(* On it stand SettlementInv, what the job rows say of their items, and    *)
(* with both the refinement of JobLedger.                                  *)
(***************************************************************************)
EXTENDS JobEngine, FiniteSetTheorems, TLAPS

\* A job that does not exist has no items.
AbsentTogether ==
    \A i \in Items : jstatus[JobOf[i]] = "ABSENT" => istatus[i] = "absent"

\* A process that is down holds nothing in memory.
DownIsEmpty == mode = "down" => InFlight = {}

\* An item that waits, or was left behind by a process death, has an attempt
\* to spare.
AttemptsToSpare ==
    \A i \in Items :
        /\ istatus[i] = "absent" => attempts[i] = 0
        /\ istatus[i] \in {"queued", "claimed", "running"} /\ exec[i] = 0
              => attempts[i] < MaxAttempts + aborts[i]

IInv ==
    /\ TypeOK
    /\ AbsentTogether
    /\ DownIsEmpty
    /\ InFlightOwned
    /\ PermitsAccounted
    /\ AttemptsBounded
    /\ AttemptsToSpare
    /\ DeliveredAtMostOnce
    /\ NoLostReceipt

-----------------------------------------------------------------------------
(* The breaker, for every threshold.                                       *)

\* A new breaker is a breaker: the constructor of circuitBreaker.js.
LEMMA NewBreakerType == NewBreaker \in Breaker
BY ThresholdAssumption DEF ThresholdAssumption, NewBreaker, Breaker

\* canAttempt, recordSuccess and recordFailure leave a breaker whose failure
\* count stays within the threshold.
LEMMA BreakerStepType ==
    ASSUME NEW b \in Breaker, NEW c
    PROVE  /\ AfterCanAttempt(b) \in Breaker
           /\ RecordSuccess(b) \in Breaker
           /\ RecordFailure(b, c) \in Breaker
<1>0. FailureThreshold \in Nat \ {0}
  BY ThresholdAssumption DEF ThresholdAssumption
<1> DEFINE Count == 0..FailureThreshold
<1>a. 0 \in Count /\ FailureThreshold \in Count
  BY <1>0
<1>b. b.consecutiveFailures \in Count
  BY DEF Breaker
<1>c. b.consecutiveFailures + 1 < FailureThreshold => b.consecutiveFailures + 1 \in Count
  BY <1>0, <1>b
<1>d. Breaker = [state : {"CLOSED", "OPEN", "HALF_OPEN"}, consecutiveFailures : Count,
                 cooled : BOOLEAN, probe : BOOLEAN]
  BY DEF Breaker
<1>e. b.consecutiveFailures + 1 >= FailureThreshold \/ b.consecutiveFailures + 1 < FailureThreshold
  BY <1>0, <1>b
<1> HIDE DEF Count
<1>1. AfterCanAttempt(b) \in Breaker
  BY <1>d DEF AfterCanAttempt
<1>2. RecordSuccess(b) \in Breaker
  BY <1>a, <1>d DEF RecordSuccess
<1>3. CountFailure(b) \in Breaker
  <2>1. CASE b.consecutiveFailures + 1 >= FailureThreshold
    BY <1>a, <1>d, <2>1 DEF CountFailure, Trip
  <2>2. CASE ~(b.consecutiveFailures + 1 >= FailureThreshold)
    BY <1>c, <1>d, <1>e, <2>2 DEF CountFailure
  <2> QED BY <2>1, <2>2
<1>4. RecordFailure(b, c) \in Breaker
  BY <1>3, <1>d DEF RecordFailure, Trip
<1> QED BY <1>1, <1>2, <1>4

-----------------------------------------------------------------------------
(* Facts about the operators of the model.                                 *)

\* The constants, as the provers use them.
LEMMA Constants ==
    /\ IsFiniteSet(Items)
    /\ JobOf \in [Items -> Jobs]
    /\ MaxAttempts \in Nat /\ MaxAttempts > 0
    /\ Concurrency \in Nat /\ Concurrency > 0
    /\ MaxCrashes \in Nat
BY EngineAssumption DEF EngineAssumption

\* The category of an outcome.
LEMMA ClassifyType == \A o \in Outcomes : Classify(o) \in Categories
BY DEF Classify, Categories

\* An attempt leaves its item terminal, or queued with an attempt to spare.
LEMMA StatusAfterType ==
    ASSUME NEW c, NEW n \in Nat
    PROVE  LET s == StatusAfter(c, n)
           IN  /\ s \in Counted \cup {"queued"}
               /\ s = "queued" => n < MaxAttempts
BY DEF StatusAfter, Counted

\* A send reported as sent succeeds.
LEMMA SentSucceeds == \A n : StatusAfter(Classify("sent"), n) = "succeeded"
BY DEF StatusAfter, Classify

\* The items in flight are finitely many.
LEMMA InFlightFinite == IsFiniteSet(InFlight) /\ Cardinality(InFlight) \in Nat
BY Constants, FS_Subset, FS_CardinalityType DEF InFlight

\* A set of claimable items is finite and disjoint from those in flight.
LEMMA ClaimableFree ==
    ASSUME TypeOK, InFlightOwned, NEW S \in SUBSET Claimable
    PROVE  /\ IsFiniteSet(S) /\ Cardinality(S) \in Nat
           /\ \A i \in S : i \in Items /\ istatus[i] = "queued" /\ exec[i] = 0
<1>1. S \in SUBSET Items
  BY DEF Claimable
<1>2. IsFiniteSet(S) /\ Cardinality(S) \in Nat
  BY <1>1, Constants, FS_Subset, FS_CardinalityType
<1>3. ASSUME NEW i \in S
      PROVE  i \in Items /\ istatus[i] = "queued" /\ exec[i] = 0
  BY <1>1 DEF Claimable, TypeOK, InFlightOwned, InFlight
<1> QED BY <1>2, <1>3

\* A settling job moves from one status to another, never from CANCELLED.
LEMMA JobRowAfterType ==
    ASSUME TypeOK, NEW j \in Jobs, NEW st
    PROVE  /\ JobRowAfter(j, st) \in [Jobs -> JobStatus]
           /\ \A k \in Jobs : /\ jstatus[k] = "CANCELLED" => JobRowAfter(j, st)[k] = "CANCELLED"
                              /\ JobRowAfter(j, st)[k] = "ABSENT" => jstatus[k] = "ABSENT"
<1>1. FinalStatus(j, st) \in {"COMPLETED", "FAILED", "PARTIALLY_COMPLETED"}
  BY DEF FinalStatus
<1> QED BY <1>1 DEF JobRowAfter, Settles, TypeOK, JobStatus, TERMINAL_JOB_STATUSES

\* Claiming items starts their jobs and changes no job otherwise.
LEMMA StartedType ==
    ASSUME TypeOK, NEW S
    PROVE  /\ Started(S) \in [Jobs -> JobStatus]
           /\ \A k \in Jobs : /\ jstatus[k] = "CANCELLED" => Started(S)[k] = "CANCELLED"
                              /\ Started(S)[k] = "ABSENT" => jstatus[k] = "ABSENT"
BY DEF Started, TypeOK, JobStatus

-----------------------------------------------------------------------------
(* The steps that leave the memory of the worker alone.                    *)

\* Requests on jobs, the kill switch, the clock and SIGTERM preserve the
\* invariant: they start and end no execution.
LEMMA RequestStep ==
    ASSUME IInv, NEW j \in Jobs,
           CreateJob(j) \/ CancelJob(j) \/ PauseJob(j) \/ ResumeJob(j)
    PROVE  IInv'
<1> USE DEF IInv
<1>1. CASE CreateJob(j)
  <2> USE <1>1 DEF CreateJob, memVars, histVars
  <2>1. TypeOK'
    BY Constants DEF TypeOK, JobStatus, ItemStatus, ItemsOf
  <2>2. AbsentTogether' /\ DownIsEmpty'
    BY Constants DEF TypeOK, AbsentTogether, DownIsEmpty, InFlight
  <2>3. InFlightOwned'
    BY Constants DEF TypeOK, InFlightOwned, AbsentTogether, InFlight
  <2>4. PermitsAccounted'
    BY DEF PermitsAccounted, InFlight
  <2>5. AttemptsBounded' /\ AttemptsToSpare'
    BY Constants DEF TypeOK, AttemptsBounded, AttemptsToSpare, AbsentTogether
  <2>6. DeliveredAtMostOnce' /\ NoLostReceipt'
    BY Constants DEF TypeOK, DeliveredAtMostOnce, NoLostReceipt, AbsentTogether
  <2> QED BY <2>1, <2>2, <2>3, <2>4, <2>5, <2>6
<1>2. CASE CancelJob(j)
  <2> USE <1>2 DEF CancelJob, CancelItems, memVars, histVars
  <2>1. TypeOK'
    BY Constants DEF TypeOK, JobStatus, ItemStatus, TERMINAL_JOB_STATUSES, TERMINAL_ITEM_STATUSES
  <2>2. AbsentTogether' /\ DownIsEmpty'
    BY Constants DEF TypeOK, AbsentTogether, DownIsEmpty, InFlight
  <2>3. InFlightOwned'
    BY Constants DEF TypeOK, InFlightOwned, InFlight
  <2>4. PermitsAccounted'
    BY DEF PermitsAccounted, InFlight
  <2>5. AttemptsBounded' /\ AttemptsToSpare'
    BY Constants DEF TypeOK, AttemptsBounded, AttemptsToSpare
  <2>6. DeliveredAtMostOnce' /\ NoLostReceipt'
    BY Constants DEF TypeOK, DeliveredAtMostOnce, NoLostReceipt
  <2> QED BY <2>1, <2>2, <2>3, <2>4, <2>5, <2>6
<1>3. CASE PauseJob(j) \/ ResumeJob(j)
  <2> USE <1>3 DEF PauseJob, ResumeJob, memVars, histVars
  <2>1. TypeOK'
    BY DEF TypeOK, JobStatus
  <2>2. AbsentTogether' /\ DownIsEmpty'
    BY Constants DEF TypeOK, AbsentTogether, DownIsEmpty, InFlight
  <2>3. InFlightOwned'
    BY Constants DEF TypeOK, InFlightOwned, InFlight
  <2>4. PermitsAccounted'
    BY DEF PermitsAccounted, InFlight
  <2>5. AttemptsBounded' /\ AttemptsToSpare' /\ DeliveredAtMostOnce' /\ NoLostReceipt'
    BY DEF AttemptsBounded, AttemptsToSpare, DeliveredAtMostOnce, NoLostReceipt
  <2> QED BY <2>1, <2>2, <2>3, <2>4, <2>5
<1> QED BY <1>1, <1>2, <1>3

\* The kill switch, the passing of time and SIGTERM preserve the invariant.
LEMMA ClockStep ==
    ASSUME IInv,
           SetKillSwitch \/ Clock \/ Shutdown
    PROVE  IInv'
<1> USE DEF IInv, memVars, histVars, rowVars
<1>1. CASE SetKillSwitch \/ Shutdown \/ CooldownElapses
  <2> USE <1>1 DEF SetKillSwitch, Shutdown, CooldownElapses
  <2>1. TypeOK'
    BY DEF TypeOK, Breaker
  <2>2. AbsentTogether' /\ DownIsEmpty'
    BY DEF AbsentTogether, DownIsEmpty, InFlight
  <2>3. InFlightOwned' /\ PermitsAccounted'
    BY DEF InFlightOwned, PermitsAccounted, InFlight
  <2>4. AttemptsBounded' /\ AttemptsToSpare' /\ DeliveredAtMostOnce' /\ NoLostReceipt'
    BY DEF AttemptsBounded, AttemptsToSpare, DeliveredAtMostOnce, NoLostReceipt
  <2> QED BY <2>1, <2>2, <2>3, <2>4
<1>2. ASSUME NEW i \in Items, LeaseExpires(i) \/ BackoffElapses(i)
      PROVE  IInv'
  <2> USE <1>2 DEF LeaseExpires, BackoffElapses
  <2>1. TypeOK'
    BY DEF TypeOK
  <2>2. AbsentTogether' /\ DownIsEmpty'
    BY DEF AbsentTogether, DownIsEmpty, InFlight
  <2>3. InFlightOwned' /\ PermitsAccounted'
    BY DEF InFlightOwned, PermitsAccounted, InFlight
  <2>4. AttemptsBounded' /\ AttemptsToSpare' /\ DeliveredAtMostOnce' /\ NoLostReceipt'
    BY DEF AttemptsBounded, AttemptsToSpare, DeliveredAtMostOnce, NoLostReceipt
  <2> QED BY <2>1, <2>2, <2>3, <2>4
<1> QED BY <1>1, <1>2 DEF Clock

-----------------------------------------------------------------------------
(* The steps of the worker.                                                *)

\* A tick claims items that nobody holds, within the permits left, so that
\* the semaphore counts them exactly.
LEMMA TickStep ==
    ASSUME IInv, Tick
    PROVE  IInv'
<1> USE DEF IInv
<1>1. PICK S \in SUBSET Claimable :
            /\ Cardinality(S) <= Budget
            /\ StartItems(S)
  BY DEF Tick
<1>2. /\ IsFiniteSet(S) /\ Cardinality(S) \in Nat
      /\ \A i \in S : i \in Items /\ istatus[i] = "queued" /\ exec[i] = 0
  BY ClaimableFree
<1>3. MayTick
  BY DEF Tick
<1>4. breaker' = AfterCanAttempt(breaker)
  BY DEF Tick
<1>5. UNCHANGED <<counter, category, due, disabled, mode, notified, sent, aborts, crashes>>
  BY DEF Tick, histVars
<1> USE DEF StartItems
<1>6. TypeOK'
  <2>1. jstatus' \in [Jobs -> JobStatus]
    BY <1>1, StartedType
  <2>2. /\ istatus' \in [Items -> ItemStatus]
        /\ lease' \in [Items -> {"none", "held", "expired"}]
    BY <1>1 DEF TypeOK, ItemStatus
  <2>3. attempts' \in [Items -> Nat] /\ exec' \in [Items -> Nat] /\ active' \in Nat
    BY <1>1, <1>2 DEF TypeOK
  <2>4. breaker' \in Breaker
    BY <1>4, BreakerStepType DEF TypeOK
  <2> QED BY <1>5, <2>1, <2>2, <2>3, <2>4 DEF TypeOK
<1>7. AbsentTogether' /\ DownIsEmpty'
  <2>1. AbsentTogether'
    BY <1>1, <1>2, Constants, StartedType DEF TypeOK, AbsentTogether
  <2> QED BY <1>3, <1>5, <2>1 DEF MayTick, DownIsEmpty
<1>8. InFlightOwned'
  BY <1>1, <1>2, Constants, StartedType DEF TypeOK, InFlightOwned, InFlight
<1>9. PermitsAccounted'
  <2>1. InFlight' = InFlight \cup S /\ InFlight \cap S = {}
    BY <1>1, <1>2 DEF TypeOK, InFlight
  <2>2. Cardinality(InFlight \cup S) = Cardinality(InFlight) + Cardinality(S)
    <3>1. Cardinality(InFlight \cap S) = 0
      BY <2>1, FS_EmptySet
    <3>2. Cardinality(InFlight \cup S)
             = Cardinality(InFlight) + Cardinality(S) - Cardinality(InFlight \cap S)
      BY <1>2, InFlightFinite, FS_Union
    <3> HIDE DEF IInv
    <3> QED BY <1>2, <3>1, <3>2, InFlightFinite
  <2>3. active + Cardinality(S) <= Concurrency
    BY <1>1, <1>2, <1>3, Constants DEF Budget, MayTick, TypeOK
  <2> QED BY <1>1, <2>1, <2>2, <2>3 DEF PermitsAccounted
<1>10. AttemptsBounded' /\ AttemptsToSpare'
  <2>1. /\ \A i \in Items : /\ attempts[i] \in Nat /\ aborts[i] \in Nat /\ exec[i] \in Nat
                            /\ aborts'[i] = aborts[i]
        /\ \A i \in S : /\ attempts[i] < MaxAttempts + aborts[i]
                        /\ attempts'[i] = attempts[i] + 1 /\ exec'[i] = attempts[i] + 1
        /\ \A i \in Items \ S : /\ attempts'[i] = attempts[i] /\ exec'[i] = exec[i]
                                /\ istatus'[i] = istatus[i]
        /\ \A i \in S : istatus'[i] = "running"
    BY <1>1, <1>2, <1>5 DEF TypeOK, AttemptsToSpare
  <2>2. AttemptsBounded'
    BY <2>1, <1>2, Constants DEF AttemptsBounded
  <2>3. AttemptsToSpare'
    BY <2>1, <1>2, Constants DEF AttemptsToSpare
  <2> QED BY <2>2, <2>3
<1>11. DeliveredAtMostOnce' /\ NoLostReceipt'
  BY <1>1, <1>2, <1>5 DEF TypeOK, DeliveredAtMostOnce, NoLostReceipt
<1> QED BY <1>6, <1>7, <1>8, <1>9, <1>10, <1>11

\* An execution that ends gives its permit back, leaves its item terminal or
\* queued with an attempt to spare, and records what was sent.
LEMMA FinishStep ==
    ASSUME IInv, NEW i \in Items, NEW o \in Outcomes, Finish(i, o)
    PROVE  IInv'
<1> USE DEF IInv
<1> DEFINE c == Classify(o)
           s == StatusAfter(c, exec[i])
           j == JobOf[i]
<1>1. /\ exec[i] > 0
      /\ ItemRowAfter(i, c, s)
      /\ counter' = CountItem(j, s)
      /\ jstatus' = JobRowAfter(j, istatus')
      /\ notified' = IF Settles(j, istatus') THEN notified \cup {j} ELSE notified
      /\ breaker' = IF c = "none" THEN RecordSuccess(breaker) ELSE RecordFailure(breaker, c)
      /\ exec' = [exec EXCEPT ![i] = 0]
      /\ active' = active - 1
      /\ sent' = IF o = "sent" THEN [sent EXCEPT ![i] = @ + 1] ELSE sent
      /\ UNCHANGED <<attempts, disabled, mode, aborts, crashes>>
  BY DEF Finish
<1>2. /\ c \in Categories /\ j \in Jobs /\ exec[i] \in Nat
      /\ s \in Counted \cup {"queued"}
      /\ s = "queued" => exec[i] < MaxAttempts
      /\ o = "sent" => s = "succeeded"
  BY ClassifyType, StatusAfterType, SentSucceeds, Constants DEF TypeOK
<1>3. exec[i] = attempts[i] /\ istatus[i] \in {"running", "cancelled"}
  BY <1>1 DEF InFlightOwned, InFlight
<1> HIDE DEF c, s, j
<1>4. /\ InFlight' = InFlight \ {i} /\ i \in InFlight
      /\ Cardinality(InFlight') = Cardinality(InFlight) - 1
  <2>1. InFlight' = InFlight \ {i} /\ i \in InFlight
    BY <1>1 DEF TypeOK, InFlight
  <2> QED BY <2>1, InFlightFinite, FS_RemoveElement
<1>5. TypeOK'
  <2>1. /\ istatus' \in [Items -> ItemStatus]
        /\ category' \in [Items -> Categories]
        /\ lease' \in [Items -> {"none", "held", "expired"}]
        /\ due' \in SUBSET Items
    BY <1>1, <1>2 DEF TypeOK, ItemRowAfter, ItemStatus, TERMINAL_ITEM_STATUSES, Counted
  <2>2. counter' \in [Jobs -> [Counted -> Nat]]
    BY <1>1, <1>2 DEF TypeOK, CountItem
  <2>3. jstatus' \in [Jobs -> JobStatus] /\ notified' \in SUBSET Jobs
    BY <1>1, <1>2, JobRowAfterType DEF TypeOK
  <2>4. breaker' \in Breaker
    BY <1>1, BreakerStepType DEF TypeOK
  <2>5. active' \in Nat
    <3>1. active = Cardinality(InFlight)
      BY DEF PermitsAccounted
    <3>2. Cardinality(InFlight') \in Nat
      BY <1>4, InFlightFinite, FS_RemoveElement, FS_CardinalityType
    <3> HIDE DEF IInv
    <3> QED BY <1>1, <1>4, <3>1, <3>2, InFlightFinite
  <2>6. exec' \in [Items -> Nat] /\ sent' \in [Items -> Nat]
    BY <1>1 DEF TypeOK
  <2> QED BY <1>1, <2>1, <2>2, <2>3, <2>4, <2>5, <2>6 DEF TypeOK
<1>6. AbsentTogether'
  BY <1>1, <1>2, <1>3, Constants, JobRowAfterType DEF TypeOK, AbsentTogether, ItemRowAfter
<1>7. DownIsEmpty'
  BY <1>1, <1>4 DEF DownIsEmpty
<1>8. InFlightOwned'
  <2> SUFFICES ASSUME NEW k \in InFlight'
               PROVE  /\ exec'[k] = attempts'[k]
                      /\ \/ istatus'[k] = "running"
                         \/ istatus'[k] = "cancelled" /\ jstatus'[JobOf[k]] = "CANCELLED"
    BY DEF InFlightOwned
  <2>1. k \in InFlight /\ k \in Items /\ k # i
    BY <1>4 DEF InFlight
  <2>2. exec'[k] = exec[k] /\ attempts'[k] = attempts[k] /\ istatus'[k] = istatus[k]
    BY <1>1, <2>1 DEF TypeOK, ItemRowAfter
  <2>3. jstatus[JobOf[k]] = "CANCELLED" => jstatus'[JobOf[k]] = "CANCELLED"
    BY <1>1, <1>2, <2>1, Constants, JobRowAfterType
  <2> QED BY <2>1, <2>2, <2>3 DEF InFlightOwned
<1>9. PermitsAccounted'
  <2>1. active = Cardinality(InFlight) /\ active <= Concurrency /\ active \in Nat
    BY DEF TypeOK, PermitsAccounted
  <2> HIDE DEF IInv
  <2> QED BY <1>1, <1>4, <2>1, Constants DEF PermitsAccounted
<1>10. AttemptsBounded' /\ AttemptsToSpare'
  <2>1. AttemptsBounded'
    BY <1>1 DEF AttemptsBounded
  <2>2. AttemptsToSpare'
    BY <1>1, <1>2, <1>3, Constants DEF TypeOK, AttemptsToSpare, ItemRowAfter, Counted
  <2> QED BY <2>1, <2>2
<1>11. DeliveredAtMostOnce' /\ NoLostReceipt'
  BY <1>1, <1>2, <1>3 DEF TypeOK, DeliveredAtMostOnce, NoLostReceipt, ItemRowAfter
<1> QED BY <1>5, <1>6, <1>7, <1>8, <1>9, <1>10, <1>11

-----------------------------------------------------------------------------
(* The steps of the process.                                               *)

\* Once the memory of the process is gone nothing is in flight and every
\* permit is back.
LEMMA MemoryLostEmpty ==
    ASSUME MemoryLost
    PROVE  /\ mode' = "down" /\ exec' \in [Items -> Nat] /\ active' \in Nat
           /\ breaker' \in Breaker
           /\ \A i \in Items : exec'[i] = 0
           /\ DownIsEmpty' /\ InFlightOwned' /\ PermitsAccounted'
<1> USE DEF MemoryLost
<1>1. InFlight' = {} /\ \A i \in Items : exec'[i] = 0
  BY DEF InFlight
<1>2. breaker' \in Breaker
  BY NewBreakerType
<1> QED BY <1>1, <1>2, Constants, FS_EmptySet DEF DownIsEmpty, InFlightOwned, PermitsAccounted

\* A graceful exit and a start preserve the invariant.
LEMMA ExitStartStep ==
    ASSUME IInv, Exit \/ Start
    PROVE  IInv'
<1> USE DEF IInv
<1>1. CASE Exit
  <2> USE <1>1 DEF Exit, rowVars, histVars
  <2>1. MemoryLost /\ \A i \in Items : exec[i] = 0
    BY DEF InFlight, TypeOK
  <2>2. TypeOK'
    BY <2>1, MemoryLostEmpty DEF TypeOK
  <2>3. AbsentTogether' /\ AttemptsBounded' /\ DeliveredAtMostOnce' /\ NoLostReceipt'
    BY DEF AbsentTogether, AttemptsBounded, DeliveredAtMostOnce, NoLostReceipt
  <2>4. AttemptsToSpare'
    BY <2>1 DEF AttemptsToSpare
  <2> QED BY <2>1, <2>2, <2>3, <2>4, MemoryLostEmpty
<1>2. CASE Start
  <2> USE <1>2 DEF Start, histVars
  <2>1. InFlight = {} /\ InFlight' = {} /\ \A i \in Items : exec[i] = 0 /\ exec'[i] = 0
    BY DEF DownIsEmpty, InFlight, TypeOK
  <2>2. TypeOK'
    BY DEF TypeOK, ItemStatus
  <2>3. AbsentTogether' /\ DownIsEmpty'
    BY <2>1, Constants DEF AbsentTogether, DownIsEmpty, TypeOK, Stale
  <2>4. InFlightOwned' /\ PermitsAccounted'
    BY <2>1 DEF InFlightOwned, PermitsAccounted
  <2>5. AttemptsBounded' /\ AttemptsToSpare'
    BY <2>1 DEF AttemptsBounded, AttemptsToSpare, TypeOK, Stale
  <2>6. DeliveredAtMostOnce' /\ NoLostReceipt'
    BY DEF DeliveredAtMostOnce, NoLostReceipt, TypeOK, Stale
  <2> QED BY <2>2, <2>3, <2>4, <2>5, <2>6
<1> QED BY <1>1, <1>2

\* What a process death that cuts off S and lets D through leaves behind.
LEMMA DieEffect ==
    ASSUME IInv, NEW S \in SUBSET Items, NEW D \in SUBSET Items, Die(S, D)
    PROVE  /\ MemoryLost
           /\ sent' \in [Items -> Nat] /\ aborts' \in [Items -> Nat]
           /\ crashes' \in 0..MaxCrashes
           /\ \A i \in Items :
                 /\ aborts'[i] = IF i \in S THEN aborts[i] + 1 ELSE aborts[i]
                 /\ sent'[i] = IF i \in D THEN sent[i] + 1 ELSE sent[i]
<1>1. crashes' \in 0..MaxCrashes
  BY Constants DEF IInv, TypeOK, Die
<1> QED BY <1>1 DEF IInv, TypeOK, Die

\* An item in flight has not succeeded, so that no send of it is recorded
\* beyond those that process deaths account for.
LEMMA InFlightUnsent ==
    ASSUME IInv, NEW i \in InFlight
    PROVE  /\ i \in Items /\ sent[i] <= aborts[i] /\ attempts[i] <= MaxAttempts + aborts[i]
           /\ sent[i] \in Nat /\ aborts[i] \in Nat /\ attempts[i] \in Nat
BY DEF IInv, TypeOK, InFlightOwned, NoLostReceipt, AttemptsBounded, InFlight

\* What no _processItem() holds has no attempt number in memory.
LEMMA NotInFlight ==
    ASSUME IInv
    PROVE  InFlight \in SUBSET Items /\ \A i \in Items \ InFlight : exec[i] = 0
BY DEF IInv, TypeOK, InFlight

\* A death between two callbacks, or between the statements of cancelJob,
\* preserves the invariant.
LEMMA CrashStep ==
    ASSUME IInv,
           Crash \/ \E j \in Jobs : CrashInCancel(j)
    PROVE  IInv'
<1>1. PICK D \in SUBSET InFlight : Die(InFlight, D)
  BY DEF Crash, CrashInCancel
<1>2. InFlight \in SUBSET Items /\ D \in SUBSET Items
  BY DEF InFlight
<1>3. UNCHANGED <<counter, istatus, attempts, category, lease, due, disabled, notified>>
  BY DEF Crash, CrashInCancel, rowVars
<1>4. /\ jstatus' \in [Jobs -> JobStatus]
      /\ \A j \in Jobs : jstatus'[j] = "ABSENT" => jstatus[j] = "ABSENT"
  BY DEF Crash, CrashInCancel, rowVars, IInv, TypeOK, JobStatus, TERMINAL_JOB_STATUSES
<1>5. /\ \A i \in InFlight : /\ aborts'[i] = aborts[i] + 1
                             /\ sent'[i] = IF i \in D THEN sent[i] + 1 ELSE sent[i]
      /\ \A i \in Items \ InFlight : /\ aborts'[i] = aborts[i] /\ sent'[i] = sent[i]
                                     /\ exec[i] = 0
      /\ \A i \in Items : exec'[i] = 0
  <2>1. MemoryLost
    BY <1>1, <1>2, DieEffect
  <2>2. \A i \in Items : /\ aborts'[i] = IF i \in InFlight THEN aborts[i] + 1 ELSE aborts[i]
                         /\ sent'[i] = IF i \in D THEN sent[i] + 1 ELSE sent[i]
    BY <1>1, <1>2, DieEffect
  <2>3. \A i \in Items : exec'[i] = 0
    BY <2>1, MemoryLostEmpty
  <2> QED BY <1>2, <2>2, <2>3, NotInFlight
<1>6. TypeOK'
  BY <1>1, <1>2, <1>3, <1>4, DieEffect, MemoryLostEmpty DEF IInv, TypeOK
<1>7. AbsentTogether'
  BY <1>3, <1>4, Constants DEF IInv, AbsentTogether
<1>8. DownIsEmpty' /\ InFlightOwned' /\ PermitsAccounted'
  BY <1>1, <1>2, DieEffect, MemoryLostEmpty
<1>9. AttemptsBounded' /\ AttemptsToSpare'
  <2>1. AttemptsBounded'
    BY <1>3, <1>5, Constants DEF IInv, AttemptsBounded, TypeOK
  <2>2. AttemptsToSpare'
    BY <1>3, <1>5, InFlightUnsent, Constants DEF IInv, AttemptsToSpare, TypeOK
  <2> QED BY <2>1, <2>2
<1>10. DeliveredAtMostOnce' /\ NoLostReceipt'
  BY <1>3, <1>5, InFlightUnsent DEF IInv, DeliveredAtMostOnce, NoLostReceipt, TypeOK
<1> QED BY <1>6, <1>7, <1>8, <1>9, <1>10 DEF IInv

\* A death inside _tick() preserves the invariant: the claim it leaves behind
\* has its attempt to spare.
LEMMA CrashInTickStep ==
    ASSUME IInv, NEW S \in SUBSET Claimable, NEW i \in Claimable,
           NEW point \in {"unclaimed", "claimed", "running", "started"}, CrashInTick(S, i, point)
    PROVE  IInv'
<1>1. PICK D \in SUBSET InFlight : Die(InFlight \cup S, D)
  BY DEF CrashInTick
<1>2. /\ S \cup {i} \in SUBSET Items
      /\ \A k \in S \cup {i} : istatus[k] = "queued" /\ exec[k] = 0
      /\ i \notin S
  BY DEF CrashInTick, Claimable, IInv, TypeOK, InFlightOwned, InFlight
<1>3. InFlight \in SUBSET Items /\ D \in SUBSET Items
  BY DEF InFlight
<1>4. /\ jstatus' \in [Jobs -> JobStatus]
      /\ \A k \in Jobs : jstatus'[k] = "ABSENT" => jstatus[k] = "ABSENT"
  BY StartedType DEF CrashInTick, IInv
<1>5. /\ istatus' = [k \in Items |-> IF k \in S THEN "running"
                                     ELSE IF k # i \/ point = "unclaimed" THEN istatus[k]
                                     ELSE IF point = "claimed" THEN "claimed"
                                     ELSE "running"]
      /\ attempts' = [k \in Items |-> IF k \in S THEN attempts[k] + 1 ELSE attempts[k]]
      /\ lease' = [k \in Items |-> IF k \in S \/ (k = i /\ point # "unclaimed") THEN "held"
                                   ELSE lease[k]]
      /\ UNCHANGED <<counter, category, due, disabled, notified>>
  BY DEF CrashInTick
<1>6. /\ \A k \in InFlight : /\ aborts'[k] = aborts[k] + 1
                             /\ sent'[k] = IF k \in D THEN sent[k] + 1 ELSE sent[k]
                             /\ attempts'[k] = attempts[k] /\ istatus'[k] = istatus[k]
      /\ \A k \in S : /\ aborts'[k] = aborts[k] + 1 /\ sent'[k] = sent[k]
                      /\ attempts'[k] = attempts[k] + 1 /\ istatus'[k] = "running"
      /\ \A k \in Items \ (InFlight \cup S) :
            /\ aborts'[k] = aborts[k] /\ sent'[k] = sent[k] /\ attempts'[k] = attempts[k]
            /\ exec[k] = 0 /\ (k # i => istatus'[k] = istatus[k])
      /\ istatus'[i] \in {"queued", "claimed", "running"}
      /\ \A k \in Items : exec'[k] = 0
  <2>1. MemoryLost /\ InFlight \cup S \in SUBSET Items
    BY <1>1, <1>2, <1>3, DieEffect
  <2>2. \A k \in Items :
            /\ aborts'[k] = IF k \in InFlight \cup S THEN aborts[k] + 1 ELSE aborts[k]
            /\ sent'[k] = IF k \in D THEN sent[k] + 1 ELSE sent[k]
    BY <1>1, <1>2, <1>3, DieEffect
  <2>3. \A k \in Items : exec'[k] = 0
    BY <2>1, MemoryLostEmpty
  <2>4. \A k \in S \cup {i} : k \notin InFlight
    BY <1>2 DEF InFlight
  <2>5. \A k \in Items :
            /\ k \in S => attempts'[k] = attempts[k] + 1 /\ istatus'[k] = "running"
            /\ k \notin S => attempts'[k] = attempts[k]
            /\ k \notin S \cup {i} => istatus'[k] = istatus[k]
    BY <1>5
  <2>6. istatus'[i] \in {"queued", "claimed", "running"}
    BY <1>2, <1>5
  <2> QED BY <1>2, <1>3, <2>2, <2>3, <2>4, <2>5, <2>6, NotInFlight
<1>7. TypeOK'
  <2>1. /\ istatus' \in [Items -> ItemStatus]
        /\ attempts' \in [Items -> Nat]
        /\ lease' \in [Items -> {"none", "held", "expired"}]
    BY <1>5 DEF IInv, TypeOK, ItemStatus
  <2> QED BY <1>1, <1>2, <1>3, <1>4, <1>5, <2>1, DieEffect, MemoryLostEmpty DEF IInv, TypeOK
<1>8. AbsentTogether'
  BY <1>2, <1>4, <1>5, Constants DEF IInv, AbsentTogether
<1>9. DownIsEmpty' /\ InFlightOwned' /\ PermitsAccounted'
  BY <1>1, <1>2, <1>3, DieEffect, MemoryLostEmpty
<1>10. AttemptsBounded'
  BY <1>2, <1>6, Constants DEF IInv, AttemptsBounded, AttemptsToSpare, TypeOK
<1>11. AttemptsToSpare'
  BY <1>2, <1>6, InFlightUnsent, Constants DEF IInv, AttemptsToSpare, TypeOK
<1>12. DeliveredAtMostOnce' /\ NoLostReceipt'
  BY <1>2, <1>6, InFlightUnsent DEF IInv, DeliveredAtMostOnce, NoLostReceipt, TypeOK
<1> QED BY <1>7, <1>8, <1>9, <1>10, <1>11, <1>12 DEF IInv

\* A death inside the tail of _processItem() preserves the invariant: the item
\* it was about is terminal, every other execution is cut off.
LEMMA CrashInFinishStep ==
    ASSUME IInv, NEW i \in Items, NEW o \in Outcomes,
           NEW point \in {"item", "counter", "job"}, CrashInFinish(i, o, point)
    PROVE  IInv'
<1> DEFINE c == Classify(o)
           s == StatusAfter(c, exec[i])
           j == JobOf[i]
           Others == InFlight \ {i}
<1>1. PICK D \in SUBSET Others : Die(Others, IF o = "sent" THEN D \cup {i} ELSE D)
  BY DEF CrashInFinish
<1>2. /\ i \in InFlight
      /\ ItemRowAfter(i, c, s)
      /\ counter' = IF point = "item" THEN counter ELSE CountItem(j, s)
      /\ jstatus' = IF point = "job" THEN JobRowAfter(j, istatus') ELSE jstatus
      /\ UNCHANGED <<attempts, disabled, notified>>
      /\ s # "queued"
  BY DEF CrashInFinish, InFlight
<1>3. /\ c \in Categories /\ j \in Jobs
      /\ s \in Counted
      /\ o = "sent" => s = "succeeded"
  BY <1>2, ClassifyType, StatusAfterType, SentSucceeds, Constants DEF IInv, TypeOK
<1> DEFINE Through == IF o = "sent" THEN D \cup {i} ELSE D
<1>4. /\ InFlight \in SUBSET Items /\ Others \in SUBSET Items /\ Through \in SUBSET Items
      /\ MemoryLost
      /\ Die(Others, Through)
  BY <1>1, NotInFlight, DieEffect
<1>5. /\ \A k \in Others : /\ aborts'[k] = aborts[k] + 1
                           /\ sent'[k] = IF k \in D THEN sent[k] + 1 ELSE sent[k]
                           /\ istatus'[k] = istatus[k]
      /\ \A k \in Items \ InFlight : /\ aborts'[k] = aborts[k] /\ sent'[k] = sent[k]
                                     /\ istatus'[k] = istatus[k] /\ exec[k] = 0
      /\ aborts'[i] = aborts[i] /\ sent'[i] = IF o = "sent" THEN sent[i] + 1 ELSE sent[i]
      /\ istatus'[i] = s
      /\ \A k \in Items : exec'[k] = 0
  <2>1. \A k \in Items :
            /\ aborts'[k] = IF k \in Others THEN aborts[k] + 1 ELSE aborts[k]
            /\ sent'[k] = IF k \in Through THEN sent[k] + 1 ELSE sent[k]
    BY <1>4, DieEffect
  <2>2. \A k \in Items : exec'[k] = 0
    BY <1>4, MemoryLostEmpty
  <2>3. \A k \in Items : istatus'[k] = IF k = i THEN s ELSE istatus[k]
    BY <1>2 DEF IInv, TypeOK, ItemRowAfter
  <2> HIDE DEF s
  <2> QED BY <1>1, <1>2, <2>1, <2>2, <2>3, NotInFlight
<1> HIDE DEF c, s, j
<1>6. TypeOK'
  <2>1. /\ istatus' \in [Items -> ItemStatus]
        /\ category' \in [Items -> Categories]
        /\ lease' \in [Items -> {"none", "held", "expired"}]
        /\ due' \in SUBSET Items
    BY <1>2, <1>3 DEF IInv, TypeOK, ItemRowAfter, ItemStatus, TERMINAL_ITEM_STATUSES, Counted
  <2>2. counter' \in [Jobs -> [Counted -> Nat]]
    BY <1>2, <1>3 DEF IInv, TypeOK, CountItem
  <2>3. jstatus' \in [Jobs -> JobStatus]
    BY <1>2, <1>3, JobRowAfterType DEF IInv, TypeOK
  <2> HIDE DEF Through, Others
  <2>4. /\ sent' \in [Items -> Nat] /\ aborts' \in [Items -> Nat] /\ crashes' \in 0..MaxCrashes
    BY <1>4, DieEffect
  <2> QED BY <1>2, <1>4, <2>1, <2>2, <2>3, <2>4, MemoryLostEmpty DEF IInv, TypeOK
<1>7. AbsentTogether'
  <2>1. \A k \in Jobs : jstatus'[k] = "ABSENT" => jstatus[k] = "ABSENT"
    BY <1>2, <1>3, JobRowAfterType DEF IInv
  <2>2. istatus[i] # "absent"
    BY <1>2 DEF IInv, InFlightOwned
  <2> QED BY <1>2, <1>4, <1>5, <2>1, <2>2, Constants DEF IInv, AbsentTogether
<1>8. DownIsEmpty' /\ InFlightOwned' /\ PermitsAccounted'
  BY <1>4, MemoryLostEmpty
<1>9. AttemptsBounded'
  <2>1. \A k \in Items : /\ attempts'[k] = attempts[k] /\ aborts[k] \in Nat
                         /\ attempts[k] \in Nat /\ attempts[k] <= MaxAttempts + aborts[k]
    BY <1>2 DEF IInv, TypeOK, AttemptsBounded
  <2>2. \A k \in Items : aborts'[k] = aborts[k] \/ aborts'[k] = aborts[k] + 1
    BY <1>5
  <2> QED BY <2>1, <2>2, Constants DEF AttemptsBounded
<1>10. AttemptsToSpare'
  BY <1>2, <1>3, <1>4, <1>5, InFlightUnsent, Constants
     DEF IInv, AttemptsToSpare, TypeOK, Counted
<1>11. DeliveredAtMostOnce' /\ NoLostReceipt'
  <2>1. \A k \in Items : /\ aborts[k] \in Nat /\ sent[k] \in Nat
                         /\ sent[k] <= 1 + aborts[k]
                         /\ sent[k] > aborts[k] => istatus[k] = "succeeded"
    BY DEF IInv, TypeOK, DeliveredAtMostOnce, NoLostReceipt
  <2>2. ASSUME NEW k \in Items
        PROVE  sent'[k] <= 1 + aborts'[k] /\ (sent'[k] > aborts'[k] => istatus'[k] = "succeeded")
    <3>1. CASE k = i
      BY <1>2, <1>3, <1>5, <3>1, InFlightUnsent
    <3>2. CASE k \in Others
      BY <1>5, <2>1, <3>2, InFlightUnsent
    <3>3. CASE k \notin InFlight
      <4>1. aborts'[k] = aborts[k] /\ sent'[k] = sent[k] /\ istatus'[k] = istatus[k]
        BY <1>5, <3>3
      <4> QED BY <2>1, <4>1
    <3> QED BY <3>1, <3>2, <3>3
  <2> QED BY <2>2 DEF DeliveredAtMostOnce, NoLostReceipt
<1> QED BY <1>6, <1>7, <1>8, <1>9, <1>10, <1>11 DEF IInv

-----------------------------------------------------------------------------
(* The theorems.                                                           *)

\* The empty tables and the worker that server.js creates satisfy the invariant.
LEMMA InitInv == Init => IInv
<1> SUFFICES ASSUME Init PROVE IInv
  OBVIOUS
<1> USE DEF Init
<1>1. TypeOK
  <2>1. breaker \in Breaker /\ crashes \in 0..MaxCrashes
    BY NewBreakerType, Constants
  <2>2. counter \in [Jobs -> [Counted -> Nat]]
    OBVIOUS
  <2> QED BY <2>1, <2>2 DEF TypeOK, JobStatus, ItemStatus, Categories
<1>2. InFlight = {}
  BY DEF InFlight
<1>3. AbsentTogether /\ DownIsEmpty /\ InFlightOwned
  BY <1>2, Constants DEF AbsentTogether, DownIsEmpty, InFlightOwned
<1>4. PermitsAccounted
  BY <1>2, FS_EmptySet, Constants DEF PermitsAccounted
<1>5. AttemptsBounded /\ AttemptsToSpare /\ DeliveredAtMostOnce /\ NoLostReceipt
  BY Constants DEF AttemptsBounded, AttemptsToSpare, DeliveredAtMostOnce, NoLostReceipt
<1> QED BY <1>1, <1>3, <1>4, <1>5 DEF IInv

\* Every step of the engine preserves the invariant.
LEMMA StepInv == IInv /\ [Next]_vars => IInv'
<1> SUFFICES ASSUME IInv, [Next]_vars PROVE IInv'
  OBVIOUS
<1>1. ASSUME NEW j \in Jobs, CreateJob(j) \/ CancelJob(j) \/ PauseJob(j) \/ ResumeJob(j)
      PROVE  IInv'
  BY <1>1, RequestStep
<1>2. CASE SetKillSwitch \/ Clock \/ Shutdown
  BY <1>2, ClockStep
<1>3. CASE Tick
  BY <1>3, TickStep
<1>4. ASSUME NEW i \in Items, NEW o \in Outcomes, Finish(i, o)
      PROVE  IInv'
  BY <1>4, FinishStep
<1>5. CASE Exit \/ Start
  BY <1>5, ExitStartStep
<1>6. CASE Crash \/ \E j \in Jobs : CrashInCancel(j)
  BY <1>6, CrashStep
<1>7. ASSUME NEW S \in SUBSET Claimable, NEW i \in Claimable,
             NEW point \in {"unclaimed", "claimed", "running", "started"}, CrashInTick(S, i, point)
      PROVE  IInv'
  BY <1>7, CrashInTickStep
<1>8. ASSUME NEW i \in Items, NEW o \in Outcomes,
             NEW point \in {"item", "counter", "job"}, CrashInFinish(i, o, point)
      PROVE  IInv'
  BY <1>8, CrashInFinishStep
<1>9. CASE UNCHANGED vars
  <2> USE <1>9 DEF vars, rowVars, memVars, histVars
  <2>1. TypeOK' = TypeOK
    BY DEF TypeOK
  <2>2. /\ AbsentTogether' = AbsentTogether /\ DownIsEmpty' = DownIsEmpty
        /\ InFlightOwned' = InFlightOwned /\ PermitsAccounted' = PermitsAccounted
    BY DEF AbsentTogether, DownIsEmpty, InFlightOwned, PermitsAccounted, InFlight
  <2>3. /\ AttemptsBounded' = AttemptsBounded /\ AttemptsToSpare' = AttemptsToSpare
        /\ DeliveredAtMostOnce' = DeliveredAtMostOnce /\ NoLostReceipt' = NoLostReceipt
    BY DEF AttemptsBounded, AttemptsToSpare, DeliveredAtMostOnce, NoLostReceipt
  <2> QED BY <2>1, <2>2, <2>3 DEF IInv
<1> QED BY <1>1, <1>2, <1>3, <1>4, <1>5, <1>6, <1>7, <1>8, <1>9
        DEF Next, Request, CrashMidway

\* The invariant holds in every reachable state.
THEOREM InvariantHolds == Spec => []IInv
<1>1. Init => IInv
  BY InitInv
<1>2. IInv /\ [Next]_vars => IInv'
  BY StepInv
<1> QED BY <1>1, <1>2, PTL DEF Spec

\* jobs and job_items stay within their columns' values, and the counters of
\* the worker, the semaphore's included, never go below zero.
THEOREM TypeCorrect == Spec => []TypeOK
<1>1. IInv => TypeOK
  BY DEF IInv
<1> QED BY <1>1, InvariantHolds, PTL

\* No item that _processItem() holds can be claimed, whatever requests,
\* recoveries, pauses and process deaths come in between.
THEOREM NeverProcessedTwiceAtOnce == Spec => []InFlightOwned
<1>1. IInv => InFlightOwned
  BY DEF IInv
<1> QED BY <1>1, InvariantHolds, PTL

\* The semaphore of lib/semaphore.js neither leaks a permit nor admits more
\* executions than the worker's concurrency.
THEOREM PermitsBalance == Spec => []PermitsAccounted
<1>1. IInv => PermitsAccounted
  BY DEF IInv
<1> QED BY <1>1, InvariantHolds, PTL

\* The attempts of an item never exceed MAX_ATTEMPTS by more than the process
\* deaths that cut one of them off.
THEOREM AttemptsLimited == Spec => []AttemptsBounded
<1>1. IInv => AttemptsBounded
  BY DEF IInv
<1> QED BY <1>1, InvariantHolds, PTL

\* A recipient gets a message twice only if a process death cut off an attempt,
\* and what the transport reported as sent is recorded as succeeded.
THEOREM AtMostOnceUnlessCrash == Spec => [](DeliveredAtMostOnce /\ NoLostReceipt)
<1>1. IInv => DeliveredAtMostOnce /\ NoLostReceipt
  BY DEF IInv
<1> QED BY <1>1, InvariantHolds, PTL

\* Only _tick() starts a send, with the kill switch off, in a worker that is up,
\* and for a job that is neither paused nor over: no retry, recovery or death
\* makes it start an item that a cancelled job has left behind.
THEOREM NothingStartsWhileStopped == Spec => NoStartWhileStopped
<1> DEFINE NoStart == \A i \in Items \ InFlight :
                         exec'[i] > 0 => /\ ~disabled /\ mode = "up"
                                         /\ jstatus[JobOf[i]] \in {"QUEUED", "RUNNING"}
<1>1. ASSUME IInv, Next PROVE NoStart
  <2> USE <1>1 DEF InFlight
  <2>1. CASE Tick
    <3>1. PICK S \in SUBSET Claimable : StartItems(S)
      BY <2>1 DEF Tick
    <3> QED BY <2>1, <3>1 DEF Tick, MayTick, StartItems, Claimable
  <2>2. ASSUME NEW i \in Items, NEW o \in Outcomes, Finish(i, o)
        PROVE  NoStart
    BY <2>2 DEF Finish, IInv, TypeOK
  <2>3. CASE Exit \/ Crash \/ CrashMidway
    <3>1. MemoryLost
      BY <2>3 DEF Exit, Crash, CrashMidway, CrashInTick, CrashInFinish, CrashInCancel, Die
    <3> QED BY <3>1 DEF MemoryLost
  <2>4. CASE Request \/ SetKillSwitch \/ Clock \/ Shutdown \/ Start
    <3>1. exec' = exec
      BY <2>4 DEF Request, CreateJob, CancelJob, PauseJob, ResumeJob, SetKillSwitch, Clock,
                  LeaseExpires, BackoffElapses, CooldownElapses, Shutdown, Start, memVars
    <3> QED BY <3>1
  <2> QED BY <1>1, <2>1, <2>2, <2>3, <2>4 DEF Next
<1>2. IInv /\ [Next]_vars => [NoStart]_vars
  BY <1>1
<1> QED BY <1>2, InvariantHolds, PTL DEF Spec, NoStartWhileStopped

-----------------------------------------------------------------------------
(* What the job rows say of their items.                                   *)

\* A job whose last item has ended.
Settled == TERMINAL_JOB_STATUSES \ {"CANCELLED"}

\* Items are cancelled with their job only.
CancelledTogether ==
    \A i \in Items : istatus[i] = "cancelled" => jstatus[JobOf[i]] = "CANCELLED"

\* The items that a counter of the jobs row counts.
CountedItems(j, s) == {i \in ItemsOf(j) : istatus[i] = s}

\* What the job rows say of their items.  A job settles only when its last
\* item has ended, so the items of a settled job are not cancelled ones.
SettlementInv == CancelledTogether /\ SettledMatchesItems /\ CountersAccurate

\* A step that ends no attempt for good: no item enters or leaves a counted
\* status, no job settles.
QuietStep ==
    /\ counter' = counter
    /\ crashes' \in Nat /\ crashes <= crashes'
    /\ \A i \in Items : istatus[i] \in Counted \/ istatus'[i] \in Counted
                           => istatus'[i] = istatus[i]
    /\ \A j \in Jobs : jstatus[j] \in Settled \/ jstatus'[j] \in Settled
                          => jstatus'[j] = jstatus[j]
    /\ \A i \in Items : istatus'[i] = "cancelled"
                          => istatus[i] = "cancelled" \/ jstatus'[JobOf[i]] = "CANCELLED"
    /\ \A j \in Jobs : jstatus[j] = "CANCELLED" => jstatus'[j] = "CANCELLED"

\* A step that ends the item i with status s, counts it unless the process
\* dies first, and settles its job if it was the last one.
EndStep(i, s) ==
    /\ i \in InFlight /\ s \in Counted
    /\ istatus' = [istatus EXCEPT ![i] = s]
    /\ \/ /\ counter' = [counter EXCEPT ![JobOf[i]][s] = @ + 1]
          /\ crashes' \in {crashes, crashes + 1}
       \/ counter' = counter /\ crashes' = crashes + 1
    /\ \/ jstatus' = jstatus
       \/ /\ Settles(JobOf[i], istatus')
          /\ jstatus' = [jstatus EXCEPT ![JobOf[i]] = FinalStatus(JobOf[i], istatus')]

\* What a counter counts is a finite number of items.
LEMMA CountedItemsFinite ==
    ASSUME NEW j \in Jobs, NEW s
    PROVE  IsFiniteSet(CountedItems(j, s)) /\ Cardinality(CountedItems(j, s)) \in Nat
<1>1. CountedItems(j, s) \in SUBSET Items
  BY DEF CountedItems, ItemsOf
<1> QED BY <1>1, Constants, FS_Subset, FS_CardinalityType

\* What is in flight is not counted, and its job has a row that has not settled.
LEMMA InFlightOpen ==
    ASSUME IInv, SettledMatchesItems, NEW i \in InFlight
    PROVE  /\ i \in Items /\ JobOf[i] \in Jobs
           /\ istatus[i] \notin Counted
           /\ jstatus[JobOf[i]] \notin Settled \cup {"ABSENT"}
<1>1. i \in Items /\ JobOf[i] \in Jobs /\ i \in ItemsOf(JobOf[i])
  BY Constants DEF InFlight, ItemsOf
<1>2. istatus[i] \in {"running", "cancelled"}
  BY DEF IInv, InFlightOwned
<1> QED BY <1>1, <1>2 DEF IInv, AbsentTogether, SettledMatchesItems, Settled, Counted

\* A quiet step keeps what the job rows say.
LEMMA QuietKeeps ==
    ASSUME IInv, SettlementInv, QuietStep
    PROVE  SettlementInv'
<1> USE DEF SettlementInv
<1>1. CancelledTogether'
  BY Constants DEF CancelledTogether, QuietStep
<1>2. SettledMatchesItems'
  <2> SUFFICES ASSUME NEW j \in Jobs, jstatus'[j] \in Settled
               PROVE  /\ \A i \in ItemsOf(j) : istatus'[i] \in Counted
                      /\ jstatus'[j] = FinalStatus(j, istatus')
    BY DEF SettledMatchesItems, Settled, ItemsOf
  <2>1. jstatus'[j] = jstatus[j] /\ jstatus[j] \in Settled
    BY DEF QuietStep
  <2>2. /\ \A i \in ItemsOf(j) : istatus[i] \in Counted
        /\ jstatus[j] = FinalStatus(j, istatus)
    BY <2>1 DEF SettledMatchesItems, Settled
  <2>3. \A i \in ItemsOf(j) : istatus'[i] = istatus[i]
    BY <2>2 DEF QuietStep, ItemsOf
  <2>4. FinalStatus(j, istatus') = FinalStatus(j, istatus)
    BY <2>3 DEF FinalStatus
  <2> QED BY <2>1, <2>2, <2>3, <2>4
<1>3. CountersAccurate'
  <2> SUFFICES ASSUME NEW j \in Jobs, NEW s \in Counted
               PROVE  LET n == Cardinality(CountedItems(j, s)')
                      IN  counter'[j][s] <= n /\ n <= counter'[j][s] + crashes'
    BY DEF CountersAccurate, CountedItems, ItemsOf
  <2>1. CountedItems(j, s)' = CountedItems(j, s)
    BY DEF QuietStep, CountedItems, ItemsOf
  <2>2. LET n == Cardinality(CountedItems(j, s))
        IN  counter[j][s] <= n /\ n <= counter[j][s] + crashes
    BY DEF CountersAccurate, CountedItems
  <2>3. counter[j][s] \in Nat /\ crashes \in Nat
    BY Constants DEF IInv, TypeOK
  <2>4. counter' = counter /\ crashes' \in Nat /\ crashes <= crashes'
    BY DEF QuietStep
  <2> HIDE DEF SettlementInv
  <2> QED BY <2>1, <2>2, <2>3, <2>4, CountedItemsFinite
<1> QED BY <1>1, <1>2, <1>3

\* So does the end of an item: markItemTerminal and checkJobCompletion.
LEMMA EndKeeps ==
    ASSUME IInv, SettlementInv, NEW i, NEW s, EndStep(i, s)
    PROVE  SettlementInv'
<1> DEFINE j == JobOf[i]
<1>1. /\ i \in Items /\ j \in Jobs /\ s \in Counted
      /\ istatus[i] \notin Counted
      /\ jstatus[j] \notin Settled
  BY InFlightOpen DEF EndStep, SettlementInv
<1>2. /\ istatus'[i] = s
      /\ \A k \in Items \ {i} : istatus'[k] = istatus[k]
  BY <1>1 DEF EndStep, IInv, TypeOK
<1>3. \A k \in Jobs \ {j} : jstatus'[k] = jstatus[k]
  BY <1>1 DEF EndStep, IInv, TypeOK
<1>4. \/ jstatus'[j] = jstatus[j]
      \/ Settles(j, istatus') /\ jstatus'[j] = FinalStatus(j, istatus')
  BY <1>1 DEF EndStep, IInv, TypeOK
<1> HIDE DEF j
<1>5. CancelledTogether'
  <2> SUFFICES ASSUME NEW k \in Items, istatus'[k] = "cancelled"
               PROVE  jstatus'[JobOf[k]] = "CANCELLED"
    BY DEF CancelledTogether
  <2>1. k # i /\ istatus[k] = "cancelled"
    BY <1>1, <1>2 DEF Counted
  <2>2. jstatus[JobOf[k]] = "CANCELLED" /\ JobOf[k] \in Jobs
    BY <2>1, Constants DEF SettlementInv, CancelledTogether
  <2> QED BY <1>3, <1>4, <2>2 DEF Settles, TERMINAL_JOB_STATUSES
<1>6. SettledMatchesItems'
  <2> SUFFICES ASSUME NEW k \in Jobs, jstatus'[k] \in Settled
               PROVE  /\ \A l \in ItemsOf(k) : istatus'[l] \in Counted
                      /\ jstatus'[k] = FinalStatus(k, istatus')
    BY DEF SettledMatchesItems, Settled, ItemsOf
  <2>1. CASE k # j
    <3>1. \A l \in ItemsOf(k) : l \in Items \ {i}
      BY <2>1 DEF j, ItemsOf
    <3>2. \A l \in ItemsOf(k) : istatus'[l] = istatus[l]
      BY <3>1, <1>2
    <3>3. jstatus[k] \in Settled /\ jstatus'[k] = jstatus[k]
      BY <1>3, <2>1
    <3>4. FinalStatus(k, istatus') = FinalStatus(k, istatus)
      BY <3>2 DEF FinalStatus
    <3> QED BY <3>2, <3>3, <3>4 DEF SettlementInv, SettledMatchesItems, Settled
  <2>2. CASE k = j
    <3>1. Settles(j, istatus') /\ jstatus'[j] = FinalStatus(j, istatus')
      BY <1>1, <1>4, <2>2
    <3>2. \A l \in ItemsOf(j) : istatus'[l] # "cancelled"
      <4> SUFFICES ASSUME NEW l \in ItemsOf(j), istatus'[l] = "cancelled" PROVE FALSE
        OBVIOUS
      <4>1. l \in Items /\ l # i /\ JobOf[l] = j
        BY <1>1, <1>2 DEF ItemsOf, Counted
      <4>2. jstatus[j] = "CANCELLED"
        BY <1>2, <4>1 DEF SettlementInv, CancelledTogether
      <4> QED BY <3>1, <4>2 DEF Settles, TERMINAL_JOB_STATUSES
    <3> QED BY <2>2, <3>1, <3>2 DEF Settles, TERMINAL_ITEM_STATUSES, Counted
  <2> QED BY <2>1, <2>2
<1>7. CountersAccurate'
  <2> SUFFICES ASSUME NEW k \in Jobs, NEW t \in Counted
               PROVE  LET n == Cardinality(CountedItems(k, t)')
                      IN  counter'[k][t] <= n /\ n <= counter'[k][t] + crashes'
    BY DEF CountersAccurate, CountedItems, ItemsOf
  <2> DEFINE n == Cardinality(CountedItems(k, t))
  <2>1. counter[k][t] <= n /\ n <= counter[k][t] + crashes
    BY DEF SettlementInv, CountersAccurate, CountedItems
  <2>2. /\ counter[k][t] \in Nat /\ crashes \in Nat /\ n \in Nat
        /\ crashes' \in {crashes, crashes + 1}
    BY Constants, CountedItemsFinite DEF IInv, TypeOK, EndStep
  <2>3. CASE k = j /\ t = s
    <3>1. CountedItems(k, t)' = CountedItems(k, t) \cup {i} /\ i \notin CountedItems(k, t)
      BY <1>1, <1>2, <2>3 DEF CountedItems, ItemsOf, j
    <3>2. Cardinality(CountedItems(k, t)') = n + 1
      BY <3>1, CountedItemsFinite, FS_AddElement
    <3>3. \/ counter'[k][t] = counter[k][t] + 1
          \/ counter'[k][t] = counter[k][t] /\ crashes' = crashes + 1
      BY <1>1, <2>3 DEF EndStep, IInv, TypeOK, j
    <3> HIDE DEF n
    <3> QED BY <2>1, <2>2, <3>2, <3>3
  <2>4. CASE k # j \/ t # s
    <3>1. CountedItems(k, t)' = CountedItems(k, t)
      BY <1>1, <1>2, <2>4 DEF CountedItems, ItemsOf, j
    <3>2. counter'[k][t] = counter[k][t]
      BY <1>1, <2>4 DEF EndStep, IInv, TypeOK, j
    <3> HIDE DEF n
    <3> QED BY <2>1, <2>2, <3>1, <3>2 DEF n
  <2> QED BY <2>3, <2>4
<1> QED BY <1>5, <1>6, <1>7 DEF SettlementInv

-----------------------------------------------------------------------------
(* Which steps are which.                                                  *)

\* Claiming items moves no job into or out of a final status.
LEMMA StartedQuiet ==
    ASSUME IInv, NEW S, NEW j \in Jobs
    PROVE  /\ jstatus[j] \in Settled \/ Started(S)[j] \in Settled => Started(S)[j] = jstatus[j]
           /\ jstatus[j] = "CANCELLED" => Started(S)[j] = "CANCELLED"
BY DEF Started, Settled, TERMINAL_JOB_STATUSES

\* The routes create, cancel, pause and resume; they end no item.
LEMMA RequestIsQuiet ==
    ASSUME IInv, NEW j \in Jobs,
           CreateJob(j) \/ CancelJob(j) \/ PauseJob(j) \/ ResumeJob(j)
    PROVE  QuietStep
<1>0. crashes \in Nat /\ jstatus \in [Jobs -> JobStatus] /\ istatus \in [Items -> ItemStatus]
  BY Constants DEF IInv, TypeOK
<1> USE <1>0 DEF QuietStep, Settled, TERMINAL_JOB_STATUSES, Counted, histVars
<1>1. CASE CreateJob(j)
  BY <1>1, Constants DEF CreateJob, IInv, AbsentTogether
<1>2. CASE CancelJob(j)
  BY <1>2, Constants DEF CancelJob, CancelItems, Open
<1>3. CASE PauseJob(j) \/ ResumeJob(j)
  BY <1>3 DEF PauseJob, ResumeJob
<1> QED BY <1>1, <1>2, <1>3

\* Nor do the clock, the kill switch and the process, recovery included.
LEMMA OtherIsQuiet ==
    ASSUME IInv, \/ SetKillSwitch \/ Clock \/ Shutdown \/ Exit \/ Start
                 \/ Crash \/ UNCHANGED vars
    PROVE  QuietStep
<1>0. crashes \in Nat /\ jstatus \in [Jobs -> JobStatus] /\ istatus \in [Items -> ItemStatus]
  BY Constants DEF IInv, TypeOK
<1>1. /\ UNCHANGED <<jstatus, counter>>
      /\ crashes' \in {crashes, crashes + 1}
      /\ \A i \in Items : \/ istatus'[i] = istatus[i]
                          \/ istatus[i] \in {"claimed", "running"} /\ istatus'[i] = "queued"
  <2>1. CASE SetKillSwitch \/ Clock \/ Shutdown \/ Exit \/ UNCHANGED vars
    BY <2>1 DEF SetKillSwitch, Clock, LeaseExpires, BackoffElapses, CooldownElapses, Shutdown,
                Exit, vars, rowVars, histVars
  <2>2. CASE Start
    BY <1>0, <2>2 DEF Start, Stale, histVars
  <2>3. CASE Crash
    BY <2>3 DEF Crash, Die, rowVars
  <2> QED BY <2>1, <2>2, <2>3
<1> QED BY <1>0, <1>1 DEF QuietStep, Counted

\* _tick() starts items and ends none.
LEMMA TickIsQuiet ==
    ASSUME IInv, Tick
    PROVE  QuietStep
<1>1. PICK S \in SUBSET Claimable : StartItems(S)
  BY DEF Tick
<1>2. \A i \in S : istatus[i] = "queued"
  BY DEF Claimable
<1>3. UNCHANGED <<counter, crashes>> /\ crashes \in Nat
  BY Constants DEF Tick, histVars, IInv, TypeOK
<1>4. /\ jstatus' = Started(S)
      /\ istatus' = [i \in Items |-> IF i \in S THEN "running" ELSE istatus[i]]
  BY <1>1 DEF StartItems
<1> QED BY <1>2, <1>3, <1>4, StartedQuiet DEF QuietStep, Counted

\* Nor does a _tick() that is cut short.
LEMMA CrashInTickIsQuiet ==
    ASSUME IInv, NEW S \in SUBSET Claimable, NEW i \in Claimable,
           NEW point \in {"unclaimed", "claimed", "running", "started"}, CrashInTick(S, i, point)
    PROVE  QuietStep
<1>1. \A k \in S \cup {i} : istatus[k] = "queued"
  BY DEF Claimable
<1>2. counter' = counter /\ crashes' = crashes + 1 /\ crashes \in Nat
  BY Constants DEF CrashInTick, Die, IInv, TypeOK
<1>3. /\ jstatus' = Started(S) \/ jstatus' = Started(S \cup {i})
      /\ \A k \in Items : \/ istatus'[k] = istatus[k]
                          \/ istatus[k] = "queued" /\ istatus'[k] \in {"claimed", "running"}
  BY <1>1 DEF CrashInTick
<1> QED BY <1>2, <1>3, StartedQuiet DEF QuietStep, Counted

\* A cancelJob that is cut short leaves the items of the cancelled job alone.
LEMMA CrashInCancelIsQuiet ==
    ASSUME IInv, NEW j \in Jobs, CrashInCancel(j)
    PROVE  QuietStep
<1>1. /\ UNCHANGED <<counter, istatus>>
      /\ crashes' = crashes + 1 /\ crashes \in Nat
      /\ jstatus' = [jstatus EXCEPT ![j] = "CANCELLED"]
      /\ Open(j)
  BY Constants DEF CrashInCancel, Die, IInv, TypeOK
<1> QED BY <1>1 DEF QuietStep, Open, Settled, TERMINAL_JOB_STATUSES, IInv, TypeOK

\* An answer that is retried ends nothing; any other ends its item.
LEMMA FinishEnds ==
    ASSUME IInv, SettledMatchesItems, NEW i \in Items, NEW o \in Outcomes, Finish(i, o)
    PROVE  QuietStep \/ \E s \in Counted : EndStep(i, s)
<1> DEFINE c == Classify(o)
           s == StatusAfter(c, exec[i])
           j == JobOf[i]
<1>1. /\ i \in InFlight
      /\ istatus' = [istatus EXCEPT ![i] = s]
      /\ counter' = CountItem(j, s)
      /\ jstatus' = JobRowAfter(j, istatus')
      /\ crashes' = crashes
  BY DEF Finish, ItemRowAfter, InFlight
<1>2. /\ s \in Counted \cup {"queued"} /\ j \in Jobs /\ crashes \in Nat
      /\ istatus[i] \notin Counted
  BY <1>1, StatusAfterType, InFlightOpen, Constants DEF IInv, TypeOK
<1>3. istatus'[i] = s /\ i \in ItemsOf(j) /\ \A k \in Items \ {i} : istatus'[k] = istatus[k]
  BY <1>1 DEF IInv, TypeOK, ItemsOf
<1> HIDE DEF s, j
<1>4. CASE s = "queued"
  <2>1. ~Settles(j, istatus')
    BY <1>3, <1>4 DEF Settles, TERMINAL_ITEM_STATUSES
  <2>2. UNCHANGED <<jstatus, counter>>
    BY <1>1, <1>4, <2>1 DEF JobRowAfter, CountItem
  <2>3. \A k \in Items : istatus[k] \in Counted \/ istatus'[k] \in Counted
                             => istatus'[k] = istatus[k]
    BY <1>2, <1>3, <1>4 DEF Counted
  <2>4. \A k \in Items : istatus'[k] = "cancelled" => istatus[k] = "cancelled"
    BY <1>3, <1>4
  <2>5. crashes' \in Nat /\ crashes <= crashes'
    BY <1>1, <1>2
  <2> QED BY <2>2, <2>3, <2>4, <2>5 DEF QuietStep
<1>5. CASE s \in Counted
  <2>1. counter' = [counter EXCEPT ![j][s] = @ + 1]
    BY <1>1, <1>5 DEF CountItem, Counted
  <2>2. EndStep(i, s)
    BY <1>1, <1>5, <2>1 DEF EndStep, JobRowAfter, j
  <2> QED BY <1>5, <2>2
<1> QED BY <1>2, <1>4, <1>5

\* A tail of _processItem() that is cut short ends its item: the item row is
\* written first.
LEMMA CrashInFinishEnds ==
    ASSUME IInv, NEW i \in Items, NEW o \in Outcomes,
           NEW point \in {"item", "counter", "job"}, CrashInFinish(i, o, point)
    PROVE  \E s \in Counted : EndStep(i, s)
<1> DEFINE c == Classify(o)
           s == StatusAfter(c, exec[i])
           j == JobOf[i]
<1>1. /\ i \in InFlight /\ s # "queued"
      /\ istatus' = [istatus EXCEPT ![i] = s]
      /\ counter' = IF point = "item" THEN counter ELSE CountItem(j, s)
      /\ jstatus' = IF point = "job" THEN JobRowAfter(j, istatus') ELSE jstatus
      /\ crashes' = crashes + 1
  BY DEF CrashInFinish, ItemRowAfter, InFlight, Die
<1>2. s \in Counted
  BY <1>1, StatusAfterType DEF IInv, TypeOK
<1> HIDE DEF s
<1>3. EndStep(i, s)
  BY <1>1, <1>2 DEF EndStep, JobRowAfter, CountItem
<1> QED BY <1>2, <1>3

\* Every step of the engine either ends one attempt for good or is quiet.
LEMMA SettlementStep == IInv /\ SettlementInv /\ [Next]_vars => SettlementInv'
<1> SUFFICES ASSUME IInv, SettlementInv, [Next]_vars PROVE SettlementInv'
  OBVIOUS
<1>1. CASE QuietStep
  BY <1>1, QuietKeeps
<1>2. ASSUME NEW i, NEW s, EndStep(i, s)
      PROVE  SettlementInv'
  BY <1>2, EndKeeps
<1>3. SettledMatchesItems
  BY DEF SettlementInv
<1>4. ASSUME NEW j \in Jobs, CreateJob(j) \/ CancelJob(j) \/ PauseJob(j) \/ ResumeJob(j)
      PROVE  SettlementInv'
  BY <1>1, <1>4, RequestIsQuiet
<1>5. CASE SetKillSwitch \/ Clock \/ Shutdown \/ Exit \/ Start \/ Crash \/ UNCHANGED vars
  BY <1>1, <1>5, OtherIsQuiet
<1>6. CASE Tick
  BY <1>1, <1>6, TickIsQuiet
<1>7. ASSUME NEW i \in Items, NEW o \in Outcomes, Finish(i, o)
      PROVE  SettlementInv'
  BY <1>1, <1>2, <1>3, <1>7, FinishEnds
<1>8. ASSUME NEW S \in SUBSET Claimable, NEW i \in Claimable,
             NEW point \in {"unclaimed", "claimed", "running", "started"}, CrashInTick(S, i, point)
      PROVE  SettlementInv'
  BY <1>1, <1>8, CrashInTickIsQuiet
<1>9. ASSUME NEW i \in Items, NEW o \in Outcomes,
             NEW point \in {"item", "counter", "job"}, CrashInFinish(i, o, point)
      PROVE  SettlementInv'
  BY <1>2, <1>9, CrashInFinishEnds
<1>10. ASSUME NEW j \in Jobs, CrashInCancel(j)
       PROVE  SettlementInv'
  BY <1>1, <1>10, CrashInCancelIsQuiet
<1> QED BY <1>4, <1>5, <1>6, <1>7, <1>8, <1>9, <1>10 DEF Next, Request, CrashMidway

\* Empty tables.
LEMMA SettlementInit == Init => SettlementInv
<1> SUFFICES ASSUME Init PROVE SettlementInv
  OBVIOUS
<1> USE DEF Init
<1>1. CancelledTogether /\ SettledMatchesItems
  BY Constants DEF CancelledTogether, SettledMatchesItems, TERMINAL_JOB_STATUSES
<1>2. CountersAccurate
  <2> SUFFICES ASSUME NEW j \in Jobs, NEW s \in Counted
               PROVE  LET n == Cardinality(CountedItems(j, s))
                      IN  counter[j][s] <= n /\ n <= counter[j][s] + crashes
    BY DEF CountersAccurate, CountedItems
  <2>1. CountedItems(j, s) = {}
    BY DEF CountedItems, ItemsOf, Counted
  <2>2. counter[j][s] = 0 /\ crashes = 0
    OBVIOUS
  <2> QED BY <2>1, <2>2, FS_EmptySet
<1> QED BY <1>1, <1>2 DEF SettlementInv

\* What the job rows say of their items holds in every reachable state.
THEOREM SettlementHolds == Spec => []SettlementInv
<1>1. Init => SettlementInv
  BY SettlementInit
<1>2. IInv /\ SettlementInv /\ [Next]_vars => SettlementInv'
  BY SettlementStep
<1> QED BY <1>1, <1>2, InvariantHolds, PTL DEF Spec

\* The final status of a job agrees with its items for ever after: no late
\* answer, recovery or cancellation changes an item of a settled job.
THEOREM SettledForGood == Spec => []SettledMatchesItems
<1>1. SettlementInv => SettledMatchesItems
  BY DEF SettlementInv
<1> QED BY <1>1, SettlementHolds, PTL

\* The counters of a jobs row are never ahead of its items and behind by no
\* more than one for each process death.
THEOREM CountersMatchItems == Spec => []CountersAccurate
<1>1. SettlementInv => CountersAccurate
  BY DEF SettlementInv
<1> QED BY <1>1, SettlementHolds, PTL

\* What the transport reported as sent is recorded as succeeded, even if the
\* job was cancelled meanwhile.
THEOREM ReceiptsRecorded == Spec => []NoLostReceipt
<1>1. IInv => NoLostReceipt
  BY DEF IInv
<1> QED BY <1>1, InvariantHolds, PTL

-----------------------------------------------------------------------------
(* The ledger.                                                             *)

\* Empty tables are an empty ledger.
LEMMA LedgerInit == Init => Ledger!Init
<1> SUFFICES ASSUME Init PROVE Ledger!Init
  OBVIOUS
<1>1. \A j \in Jobs : Phase(j) = "none"
  BY DEF Init, Phase, Open
<1> QED BY <1>1 DEF Init, Ledger!Init

\* A step under which no job changes its phase is a stutter of the ledger.
LEMMA SamePhases ==
    ASSUME \A j \in Jobs : Phase(j)' = Phase(j), notified' = notified
    PROVE  UNCHANGED Ledger!ledgerVars
BY DEF Ledger!ledgerVars

\* A request creates its job, cancels it, or changes no phase.
LEMMA RequestInLedger ==
    ASSUME IInv, NEW j \in Jobs,
           CreateJob(j) \/ CancelJob(j) \/ PauseJob(j) \/ ResumeJob(j)
    PROVE  [Ledger!Next]_(Ledger!ledgerVars)
<1> USE DEF histVars, Phase, Open
<1>0. jstatus \in [Jobs -> JobStatus]
  BY DEF IInv, TypeOK
<1>1. CASE CreateJob(j)
  <2>1. Ledger!Create({j})
    BY <1>0, <1>1 DEF CreateJob, Ledger!Create
  <2> QED BY <2>1 DEF Ledger!Next
<1>2. CASE CancelJob(j)
  <2>1. Ledger!Cancel(j)
    BY <1>0, <1>2 DEF CancelJob, Ledger!Cancel
  <2> QED BY <2>1 DEF Ledger!Next
<1>3. CASE PauseJob(j) \/ ResumeJob(j)
  <2>1. \A k \in Jobs : Phase(k)' = Phase(k)
    BY <1>0, <1>3 DEF PauseJob, ResumeJob
  <2> QED BY <1>3, <2>1, SamePhases DEF PauseJob, ResumeJob
<1> QED BY <1>1, <1>2, <1>3

\* Claiming items changes no phase.
LEMMA StartedKeepsPhases ==
    ASSUME IInv, NEW S, jstatus' = Started(S)
    PROVE  \A j \in Jobs : Phase(j)' = Phase(j)
BY DEF Started, Phase, Open

\* A tick is a stutter of the ledger.
LEMMA TickInLedger ==
    ASSUME IInv, Tick
    PROVE  UNCHANGED Ledger!ledgerVars
<1>1. PICK S \in SUBSET Claimable : jstatus' = Started(S)
  BY DEF Tick, StartItems
<1> QED BY <1>1, StartedKeepsPhases, SamePhases DEF Tick, histVars

\* So is a tick that is cut short.
LEMMA CrashInTickInLedger ==
    ASSUME IInv, NEW S, NEW i, NEW point, CrashInTick(S, i, point)
    PROVE  UNCHANGED Ledger!ledgerVars
<1>1. jstatus' = Started(S) \/ jstatus' = Started(S \cup {i})
  BY DEF CrashInTick
<1> QED BY <1>1, StartedKeepsPhases, SamePhases DEF CrashInTick

\* So is what touches no row of jobs.
LEMMA OtherInLedger ==
    ASSUME \/ SetKillSwitch \/ Clock \/ Shutdown \/ Exit \/ Start
           \/ Crash \/ UNCHANGED vars
    PROVE  UNCHANGED Ledger!ledgerVars
<1>1. UNCHANGED <<jstatus, notified>>
  BY DEF SetKillSwitch, Clock, LeaseExpires, BackoffElapses, CooldownElapses, Shutdown,
         Exit, Start, Crash, Die, vars, rowVars, histVars
<1> QED BY <1>1, SamePhases DEF Phase, Open

\* A job settles from an open phase: it has a row, and its last item was in
\* flight until now.
LEMMA SettlesFromOpen ==
    ASSUME IInv, SettledMatchesItems, NEW i \in InFlight, Settles(JobOf[i], istatus'),
           jstatus' = [jstatus EXCEPT ![JobOf[i]] = FinalStatus(JobOf[i], istatus')]
    PROVE  /\ JobOf[i] \in Jobs
           /\ Phase(JobOf[i]) = "open"
           /\ \A k \in Jobs : Phase(k)' = IF k = JobOf[i] THEN "settled" ELSE Phase(k)
<1>1. JobOf[i] \in Jobs /\ jstatus[JobOf[i]] # "ABSENT"
  BY InFlightOpen
<1>2. jstatus \in [Jobs -> JobStatus]
  BY DEF IInv, TypeOK
<1>3. Phase(JobOf[i]) = "open"
  BY <1>1, <1>2 DEF Settles, Phase, Open, JobStatus, TERMINAL_JOB_STATUSES
<1>4. FinalStatus(JobOf[i], istatus') \in {"COMPLETED", "PARTIALLY_COMPLETED", "FAILED"}
  BY DEF FinalStatus
<1>5. \A k \in Jobs : jstatus'[k] = IF k = JobOf[i] THEN FinalStatus(JobOf[i], istatus')
                                                    ELSE jstatus[k]
  BY <1>1, <1>2
<1>6. \A k \in Jobs : Phase(k)' = IF k = JobOf[i] THEN "settled" ELSE Phase(k)
  BY <1>4, <1>5 DEF Phase, Open
<1> QED BY <1>1, <1>3, <1>6

\* The last answer of a job settles it and tells its owner at once.
LEMMA FinishInLedger ==
    ASSUME IInv, SettledMatchesItems, NEW i \in Items, NEW o \in Outcomes, Finish(i, o)
    PROVE  [Ledger!Next]_(Ledger!ledgerVars)
<1> DEFINE j == JobOf[i]
<1>1. /\ i \in InFlight
      /\ jstatus' = JobRowAfter(j, istatus')
      /\ notified' = IF Settles(j, istatus') THEN notified \cup {j} ELSE notified
  BY DEF Finish, InFlight
<1>2. CASE Settles(j, istatus')
  <2>1. Ledger!Settle(j) /\ j \in Jobs
    BY <1>1, <1>2, SettlesFromOpen DEF JobRowAfter, Ledger!Settle
  <2> QED BY <2>1 DEF Ledger!Next
<1>3. CASE ~Settles(j, istatus')
  <2>1. UNCHANGED <<jstatus, notified>>
    BY <1>1, <1>3 DEF JobRowAfter
  <2> QED BY <2>1, SamePhases DEF Phase, Open
<1> QED BY <1>2, <1>3

\* The process dies in the tail of an execution: if the job has settled, its
\* owner is never told.
LEMMA CrashInFinishInLedger ==
    ASSUME IInv, SettledMatchesItems, NEW i \in Items, NEW o \in Outcomes,
           NEW point \in {"item", "counter", "job"}, CrashInFinish(i, o, point)
    PROVE  [Ledger!Next]_(Ledger!ledgerVars)
<1> DEFINE j == JobOf[i]
<1>1. /\ i \in InFlight /\ notified' = notified
      /\ jstatus' = IF point = "job" THEN JobRowAfter(j, istatus') ELSE jstatus
  BY DEF CrashInFinish, InFlight
<1>2. CASE point = "job" /\ Settles(j, istatus')
  <2>1. Ledger!SettleUntold(j) /\ j \in Jobs
    BY <1>1, <1>2, SettlesFromOpen DEF JobRowAfter, Ledger!SettleUntold
  <2> QED BY <2>1 DEF Ledger!Next
<1>3. CASE ~(point = "job" /\ Settles(j, istatus'))
  <2>1. UNCHANGED <<jstatus, notified>>
    BY <1>1, <1>3 DEF JobRowAfter
  <2> QED BY <2>1, SamePhases DEF Phase, Open
<1> QED BY <1>2, <1>3

\* The first statement of cancelJob is the cancellation.
LEMMA CrashInCancelInLedger ==
    ASSUME IInv, NEW j \in Jobs, CrashInCancel(j)
    PROVE  Ledger!Cancel(j)
<1>1. /\ Open(j) /\ notified' = notified
      /\ jstatus' = [jstatus EXCEPT ![j] = "CANCELLED"]
  BY DEF CrashInCancel
<1> QED BY <1>1 DEF Ledger!Cancel, Phase, Open, IInv, TypeOK

\* Every step of the engine is a step of the ledger or a stutter.
LEMMA LedgerStep ==
    IInv /\ SettledMatchesItems /\ [Next]_vars => [Ledger!Next]_(Ledger!ledgerVars)
<1> SUFFICES ASSUME IInv, SettledMatchesItems, [Next]_vars
             PROVE  [Ledger!Next]_(Ledger!ledgerVars)
  OBVIOUS
<1>1. ASSUME NEW j \in Jobs, CreateJob(j) \/ CancelJob(j) \/ PauseJob(j) \/ ResumeJob(j)
      PROVE  [Ledger!Next]_(Ledger!ledgerVars)
  BY <1>1, RequestInLedger
<1>2. CASE SetKillSwitch \/ Clock \/ Shutdown \/ Exit \/ Start \/ Crash \/ UNCHANGED vars
  BY <1>2, OtherInLedger
<1>3. CASE Tick
  BY <1>3, TickInLedger
<1>4. ASSUME NEW i \in Items, NEW o \in Outcomes, Finish(i, o)
      PROVE  [Ledger!Next]_(Ledger!ledgerVars)
  BY <1>4, FinishInLedger
<1>5. ASSUME NEW S, NEW i, NEW point, CrashInTick(S, i, point)
      PROVE  [Ledger!Next]_(Ledger!ledgerVars)
  BY <1>5, CrashInTickInLedger
<1>6. ASSUME NEW i \in Items, NEW o \in Outcomes,
             NEW point \in {"item", "counter", "job"}, CrashInFinish(i, o, point)
      PROVE  [Ledger!Next]_(Ledger!ledgerVars)
  BY <1>6, CrashInFinishInLedger
<1>7. ASSUME NEW j \in Jobs, CrashInCancel(j)
      PROVE  [Ledger!Next]_(Ledger!ledgerVars)
  BY <1>7, CrashInCancelInLedger DEF Ledger!Next
<1> QED BY <1>1, <1>2, <1>3, <1>4, <1>5, <1>6, <1>7 DEF Next, Request, CrashMidway

\* jobService.js and worker.js implement the ledger: every job is created
\* once, ends once, and its owner is told at most once and only of a
\* settlement, however requests, late answers and process deaths interleave.
THEOREM RefinesLedger == Spec => ImplementsLedger
<1>1. Init => Ledger!Init
  BY LedgerInit
<1>2. IInv /\ SettledMatchesItems /\ [Next]_vars => [Ledger!Next]_(Ledger!ledgerVars)
  BY LedgerStep
<1>3. Spec => []SettledMatchesItems
  BY SettlementHolds, PTL DEF SettlementInv
<1> QED BY <1>1, <1>2, <1>3, InvariantHolds, PTL DEF Spec, ImplementsLedger, Ledger!Spec
=============================================================================
