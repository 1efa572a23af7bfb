----------------------------- MODULE JobEngine ------------------------------
(***************************************************************************)
(* The durable job queue: the jobs and job_items tables (lib/db.js), the   *)
(* statements of lib/jobs/jobService.js and lib/jobs/claiming.js on them,  *)
(* and the one JobWorker (lib/jobs/worker.js) of the server process, with  *)
(* its semaphore, its circuit breaker and the items it has in flight.      *)
(*                                                                         *)
(* Atomicity.  JavaScript runs a callback to completion, so a callback up  *)
(* to its await is one action: Tick is the whole of _tick() with the       *)
(* synchronous head of every _processItem() it starts, Finish is the rest  *)
(* of one _processItem().  The process may die between two statements of   *)
(* a callback that are not in one transaction; the CrashIn... actions are  *)
(* the prefixes of a callback that such a death leaves in the database.    *)
(*                                                                         *)
(* Time.  next_attempt_at <= now is membership in "due"; the lease of an   *)
(* item is "held" until lease_expires_at and then "expired".  Which of     *)
(* several due items is claimed first (the oldest) is left open.           *)
(***************************************************************************)
EXTENDS Naturals, FiniteSets, CircuitBreaker

CONSTANTS Jobs,          \* the jobs that may be created
          Items,         \* the recipients of all jobs
          JobOf,         \* job_items.job_id
          MaxAttempts,   \* retry.js MAX_ATTEMPTS
          Concurrency,   \* permits of the worker's semaphore
          Outcomes,      \* what the transport may do with a send
          MaxCrashes     \* bound: process deaths in one behaviour

ASSUME EngineAssumption ==
    /\ IsFiniteSet(Items)
    /\ JobOf \in [Items -> Jobs]
    /\ MaxAttempts \in Nat \ {0}
    /\ Concurrency \in Nat \ {0}
    /\ MaxCrashes \in Nat
    /\ Outcomes \subseteq {"sent", "not_on_whatsapp", "error", "skipped",
                           "not_ready", "exception"}

VARIABLES
    jstatus,    \* jobs.status ("ABSENT": no such row)
    counter,    \* jobs.succeeded, .failed, .skipped
    istatus,    \* job_items.status ("absent": no such row)
    attempts,   \* job_items.attempt_count
    category,   \* job_items.last_error_category
    lease,      \* job_items.lease_expires_at against the clock
    due,        \* items whose next_attempt_at has come
    disabled,   \* settings.outbound_disabled, the kill switch
    mode,       \* the server process: "up", "draining" or "down"
    exec,       \* attemptNumber of the item's _processItem(), 0 if none runs
    active,     \* Semaphore.active
    breaker,    \* the worker's CircuitBreaker
    notified,   \* history: jobs for which onJobSettled was called
    sent,       \* history: sends of the item that reached the recipient
    aborts,     \* history: attempts of the item that a process death cut off
    crashes     \* history: process deaths so far

rowVars  == <<jstatus, counter, istatus, attempts, category, lease, due>>
memVars  == <<mode, exec, active, breaker>>
histVars == <<notified, sent, aborts, crashes>>
vars     == <<rowVars, disabled, memVars, histVars>>

TERMINAL_ITEM_STATUSES == {"succeeded", "failed", "skipped", "cancelled"}
TERMINAL_JOB_STATUSES  == {"COMPLETED", "PARTIALLY_COMPLETED", "FAILED", "CANCELLED"}
JobStatus  == {"ABSENT", "QUEUED", "RUNNING", "PAUSED"} \cup TERMINAL_JOB_STATUSES
ItemStatus == {"absent", "queued", "claimed", "running"} \cup TERMINAL_ITEM_STATUSES
Categories == {"none", "TRANSIENT", "PERMANENT", "VALIDATION", "UNKNOWN"}
Counted    == {"succeeded", "failed", "skipped"}

ItemsOf(j) == {i \in Items : JobOf[i] = j}
InFlight   == {i \in Items : exec[i] > 0}
Open(j)    == jstatus[j] \in {"QUEUED", "RUNNING", "PAUSED"}

Init ==
    /\ jstatus = [j \in Jobs |-> "ABSENT"]
    /\ counter = [j \in Jobs |-> [s \in Counted |-> 0]]
    /\ istatus = [i \in Items |-> "absent"]
    /\ attempts = [i \in Items |-> 0]
    /\ category = [i \in Items |-> "none"]
    /\ lease = [i \in Items |-> "none"]
    /\ due = {}
    /\ disabled = FALSE
    /\ mode = "up"
    /\ exec = [i \in Items |-> 0]
    /\ active = 0
    /\ breaker = NewBreaker
    /\ notified = {}
    /\ sent = [i \in Items |-> 0]
    /\ aborts = [i \in Items |-> 0]
    /\ crashes = 0

-----------------------------------------------------------------------------
(* Job creation and control: jobService.js.                                *)

\* createJob: the job row and its items in one transaction.  A call with an
\* idempotency key that exists returns the existing job and changes nothing.
CreateJob(j) ==
    /\ mode # "down"
    /\ jstatus[j] = "ABSENT"
    /\ jstatus' = [jstatus EXCEPT ![j] = "QUEUED"]
    /\ istatus' = [i \in Items |-> IF JobOf[i] = j THEN "queued" ELSE istatus[i]]
    /\ due' = due \cup ItemsOf(j)
    /\ UNCHANGED <<counter, attempts, category, lease, disabled, memVars, histVars>>

\* The statuses the second statement of cancelJob leaves behind.
CancelItems(j) ==
    [i \in Items |-> IF JobOf[i] = j /\ istatus[i] \in {"queued", "claimed", "running"}
                     THEN "cancelled" ELSE istatus[i]]

CancelJob(j) ==
    /\ mode # "down"
    /\ Open(j)
    /\ jstatus' = [jstatus EXCEPT ![j] = "CANCELLED"]
    /\ istatus' = CancelItems(j)
    /\ lease' = [i \in Items |-> IF istatus'[i] # istatus[i] THEN "none" ELSE lease[i]]
    /\ UNCHANGED <<counter, attempts, category, due, disabled, memVars, histVars>>

PauseJob(j) ==
    /\ mode # "down"
    /\ jstatus[j] \in {"QUEUED", "RUNNING"}
    /\ jstatus' = [jstatus EXCEPT ![j] = "PAUSED"]
    /\ UNCHANGED <<counter, istatus, attempts, category, lease, due, disabled,
                   memVars, histVars>>

ResumeJob(j) ==
    /\ mode # "down"
    /\ jstatus[j] = "PAUSED"
    /\ jstatus' = [jstatus EXCEPT ![j] = "QUEUED"]
    /\ UNCHANGED <<counter, istatus, attempts, category, lease, due, disabled,
                   memVars, histVars>>

\* setOutboundDisabled (lib/killSwitch.js).
SetKillSwitch ==
    /\ mode # "down"
    /\ disabled' = ~disabled
    /\ UNCHANGED <<rowVars, memVars, histVars>>

-----------------------------------------------------------------------------
(* The worker: worker.js with claiming.js.                                 *)

\* Mutants of Claimable: an item being sent is claimed again; only jobs that
\* have not started are served; the status of the job is not looked at.
ClaimableTwice == {i \in Items : /\ istatus[i] \in {"queued", "running"}
                                 /\ i \in due
                                 /\ jstatus[JobOf[i]] \in {"QUEUED", "RUNNING"}}
ClaimableOfQueued == {i \in Items : /\ istatus[i] = "queued"
                                    /\ i \in due
                                    /\ jstatus[JobOf[i]] = "QUEUED"}
ClaimableOfAnyJob == {i \in Items : istatus[i] = "queued" /\ i \in due}

\* The rows the SELECT of claimNextItem ranges over.
Claimable == {i \in Items : /\ istatus[i] = "queued"
                            /\ i \in due
                            /\ jstatus[JobOf[i]] \in {"QUEUED", "RUNNING"}}

\* How many items one _tick() may claim: a permit for each, and only one
\* when the breaker is not closed.
Budget == IF breaker.state = "CLOSED" THEN Concurrency - active ELSE 1

\* markItemRunning moves the job of a claimed item from QUEUED to RUNNING.
Started(S) ==
    [j \in Jobs |-> IF jstatus[j] = "QUEUED" /\ \E i \in S : JobOf[i] = j
                    THEN "RUNNING" ELSE jstatus[j]]

MayTick ==
    /\ mode = "up"
    /\ ~disabled
    /\ active < Concurrency
    /\ CanAttempt(breaker)

\* claimNextItem and the head of _processItem for every item of S.
StartItems(S) ==
    /\ jstatus' = Started(S)
    /\ istatus' = [i \in Items |-> IF i \in S THEN "running" ELSE istatus[i]]
    /\ attempts' = [i \in Items |-> IF i \in S THEN attempts[i] + 1 ELSE attempts[i]]
    /\ lease' = [i \in Items |-> IF i \in S THEN "held" ELSE lease[i]]
    /\ exec' = [i \in Items |-> IF i \in S THEN attempts[i] + 1 ELSE exec[i]]
    /\ active' = active + Cardinality(S)

\* The loop of _tick() runs until permits, breaker or items give out.  The
\* probe flag that canAttempt() sets stays set when there is no item.
Tick ==
    /\ MayTick
    /\ \E S \in SUBSET Claimable :
        /\ Cardinality(S) <= Budget
        /\ Cardinality(S) = Budget \/ S = Claimable
        /\ StartItems(S)
    /\ breaker' = AfterCanAttempt(breaker)
    /\ UNCHANGED <<counter, category, due, disabled, mode, histVars>>

\* classifyOutcome and classifyException (errorClassifier.js).
Classify(o) ==
    CASE o = "sent" -> "none"
      [] o = "not_on_whatsapp" -> "PERMANENT"
      [] o \in {"error", "not_ready"} -> "TRANSIENT"
      [] o = "skipped" -> "VALIDATION"
      [] OTHER -> "UNKNOWN"

IsRetryable(c) == c \in {"TRANSIENT", "UNKNOWN"}

\* Mutant of StatusAfter: the attempt bound off by one.
StatusAfterTooMany(c, n) ==
    CASE c = "none" -> "succeeded"
      [] IsRetryable(c) /\ n <= MaxAttempts -> "queued"
      [] c = "VALIDATION" -> "skipped"
      [] OTHER -> "failed"

\* The status that attempt n of an item, ending with category c, leaves.
StatusAfter(c, n) ==
    CASE c = "none" -> "succeeded"
      [] c # "none" /\ IsRetryable(c) /\ n < MaxAttempts -> "queued"
      [] c = "VALIDATION" -> "skipped"
      [] OTHER -> "failed"

\* Mutant of ItemRowAfter: a late answer leaves a cancelled item alone.
ItemRowAfterUnlessCancelled(i, c, s) ==
    /\ istatus' = IF istatus[i] = "cancelled" THEN istatus ELSE [istatus EXCEPT ![i] = s]
    /\ category' = [category EXCEPT ![i] = c]
    /\ lease' = [lease EXCEPT ![i] = "none"]
    /\ due' = IF s = "queued" THEN due \ {i} ELSE due

\* scheduleRetry and markItemTerminal: the item row after the attempt.
ItemRowAfter(i, c, s) ==
    /\ istatus' = [istatus EXCEPT ![i] = s]
    /\ category' = [category EXCEPT ![i] = c]
    /\ lease' = [lease EXCEPT ![i] = "none"]
    /\ due' = IF s = "queued" THEN due \ {i} ELSE due

\* Mutant of CountItem: skipped recipients are counted as failed.
CountItemSwapped(j, s) ==
    CASE s = "queued" -> counter
      [] s = "skipped" -> [counter EXCEPT ![j]["failed"] = @ + 1]
      [] OTHER -> [counter EXCEPT ![j][s] = @ + 1]

\* markItemTerminal: the job's counter of status s.
CountItem(j, s) ==
    IF s = "queued" THEN counter ELSE [counter EXCEPT ![j][s] = @ + 1]

\* Mutants of Settles: items in flight are forgotten; a job that is already
\* terminal settles again.
SettlesEarly(j, st) == /\ jstatus[j] \notin TERMINAL_JOB_STATUSES
                       /\ \A i \in ItemsOf(j) : st[i] # "queued"
SettlesAgain(j, st) == \A i \in ItemsOf(j) : st[i] \in TERMINAL_ITEM_STATUSES

\* checkJobCompletion, given the statuses st of the items.
Settles(j, st) ==
    /\ jstatus[j] \notin TERMINAL_JOB_STATUSES
    /\ \A i \in ItemsOf(j) : st[i] \in TERMINAL_ITEM_STATUSES

FinalStatus(j, st) ==
    CASE \A i \in ItemsOf(j) : st[i] = "succeeded" -> "COMPLETED"
      [] \A i \in ItemsOf(j) : st[i] # "succeeded" -> "FAILED"
      [] OTHER -> "PARTIALLY_COMPLETED"

JobRowAfter(j, st) ==
    IF Settles(j, st) THEN [jstatus EXCEPT ![j] = FinalStatus(j, st)] ELSE jstatus

\* The rest of _processItem(i) once the transport has answered with o, the
\* semaphore's release and the onJobSettled callback included.
Finish(i, o) ==
    LET c == Classify(o)
        s == StatusAfter(c, exec[i])
        j == JobOf[i]
    IN  /\ exec[i] > 0
        /\ ItemRowAfter(i, c, s)
        /\ counter' = CountItem(j, s)
        /\ jstatus' = JobRowAfter(j, istatus')
        /\ notified' = IF Settles(j, istatus') THEN notified \cup {j} ELSE notified
        /\ breaker' = IF c = "none" THEN RecordSuccess(breaker)
                                    ELSE RecordFailure(breaker, c)
        /\ exec' = [exec EXCEPT ![i] = 0]
        /\ active' = active - 1
        /\ sent' = IF o = "sent" THEN [sent EXCEPT ![i] = @ + 1] ELSE sent
        /\ UNCHANGED <<attempts, disabled, mode, aborts, crashes>>

-----------------------------------------------------------------------------
(* The clock.                                                              *)

\* Mutant of LeaseExpires: stale claims are requeued while the process runs.
LeaseExpiresRequeue(i) ==
    /\ lease[i] = "held"
    /\ lease' = [lease EXCEPT ![i] = "none"]
    /\ istatus' = [istatus EXCEPT ![i] = "queued"]
    /\ UNCHANGED <<jstatus, counter, attempts, category, due, disabled, memVars, histVars>>

LeaseExpires(i) ==
    /\ lease[i] = "held"
    /\ lease' = [lease EXCEPT ![i] = "expired"]
    /\ UNCHANGED <<jstatus, counter, istatus, attempts, category, due, disabled,
                   memVars, histVars>>

BackoffElapses(i) ==
    /\ istatus[i] = "queued" /\ i \notin due
    /\ due' = due \cup {i}
    /\ UNCHANGED <<jstatus, counter, istatus, attempts, category, lease, disabled,
                   memVars, histVars>>

CooldownElapses ==
    /\ breaker.state = "OPEN" /\ ~breaker.cooled
    /\ breaker' = [breaker EXCEPT !.cooled = TRUE]
    /\ UNCHANGED <<rowVars, disabled, mode, exec, active, histVars>>

-----------------------------------------------------------------------------
(* The process: server.js.                                                 *)

\* SIGTERM/SIGINT: drainAndStop() stops the ticks.
Shutdown ==
    /\ mode = "up"
    /\ mode' = "draining"
    /\ UNCHANGED <<rowVars, disabled, exec, active, breaker, histVars>>

\* Memory of the process is gone.
MemoryLost ==
    /\ mode' = "down"
    /\ exec' = [i \in Items |-> 0]
    /\ active' = 0
    /\ breaker' = NewBreaker

\* A graceful exit: nothing was in flight.
Exit ==
    /\ mode = "draining"
    /\ InFlight = {}
    /\ MemoryLost
    /\ UNCHANGED <<rowVars, disabled, histVars>>

\* The process dies; the attempts of S are cut off, the sends of some of
\* them (D) having reached the recipient all the same.
Die(S, D) ==
    /\ mode # "down"
    /\ crashes < MaxCrashes
    /\ MemoryLost
    /\ crashes' = crashes + 1
    /\ aborts' = [i \in Items |-> IF i \in S THEN aborts[i] + 1 ELSE aborts[i]]
    /\ sent' = [i \in Items |-> IF i \in D THEN sent[i] + 1 ELSE sent[i]]

\* Death between two callbacks: kill, power loss, the exit(1) of an uncaught
\* exception, or the forced exit of a shutdown that takes too long.
Crash ==
    /\ \E D \in SUBSET InFlight : Die(InFlight, D)
    /\ UNCHANGED <<rowVars, disabled, notified>>

\* Death inside _tick(): the items of S were started, then the claim of i was
\* not made yet, or is in the database but not its attempt.
CrashInTick(S, i, point) ==
    /\ MayTick
    /\ i \in Claimable \ S
    /\ Cardinality(S) < Budget
    /\ jstatus' = IF point = "started" THEN Started(S \cup {i}) ELSE Started(S)
    /\ istatus' = [k \in Items |-> IF k \in S THEN "running"
                                   ELSE IF k # i \/ point = "unclaimed" THEN istatus[k]
                                   ELSE IF point = "claimed" THEN "claimed"
                                   ELSE "running"]
    /\ attempts' = [k \in Items |-> IF k \in S THEN attempts[k] + 1 ELSE attempts[k]]
    /\ lease' = [k \in Items |-> IF k \in S \/ (k = i /\ point # "unclaimed") THEN "held"
                                 ELSE lease[k]]
    /\ \E D \in SUBSET InFlight : Die(InFlight \cup S, D)
    /\ UNCHANGED <<counter, category, due, disabled, notified>>

\* Death inside the tail of _processItem(i) after a terminal outcome o: after
\* the UPDATE of the item, of the counter, or of the job, before onJobSettled.
CrashInFinish(i, o, point) ==
    LET c == Classify(o)
        s == StatusAfter(c, exec[i])
        j == JobOf[i]
    IN  /\ exec[i] > 0
        /\ s # "queued"
        /\ point = "job" => Settles(j, [istatus EXCEPT ![i] = s])
        /\ ItemRowAfter(i, c, s)
        /\ counter' = IF point = "item" THEN counter ELSE CountItem(j, s)
        /\ jstatus' = IF point = "job" THEN JobRowAfter(j, istatus') ELSE jstatus
        /\ \E D \in SUBSET (InFlight \ {i}) :
              Die(InFlight \ {i}, IF o = "sent" THEN D \cup {i} ELSE D)
        /\ UNCHANGED <<attempts, disabled, notified>>

\* Death between the two statements of cancelJob.
CrashInCancel(j) ==
    /\ Open(j)
    /\ jstatus' = [jstatus EXCEPT ![j] = "CANCELLED"]
    /\ \E D \in SUBSET InFlight : Die(InFlight, D)
    /\ UNCHANGED <<counter, istatus, attempts, category, lease, due, disabled, notified>>

\* Mutant of Stale: rows without a lease count as expired, whatever their status.
StaleByLease == {i \in Items : istatus[i] # "absent" /\ lease[i] # "held"}

\* The rows recoverStaleClaims puts back in the queue.
Stale == {i \in Items : istatus[i] \in {"claimed", "running"} /\ lease[i] = "expired"}

\* The process starts: recoverOnStartup(), then the ticks.
Start ==
    /\ mode = "down"
    /\ mode' = "up"
    /\ istatus' = [i \in Items |-> IF i \in Stale THEN "queued" ELSE istatus[i]]
    /\ lease' = [i \in Items |-> IF i \in Stale THEN "none" ELSE lease[i]]
    /\ UNCHANGED <<jstatus, counter, attempts, category, due, disabled, exec,
                   active, breaker, histVars>>

-----------------------------------------------------------------------------
Request == \E j \in Jobs : CreateJob(j) \/ CancelJob(j) \/ PauseJob(j) \/ ResumeJob(j)

Clock == \/ \E i \in Items : LeaseExpires(i) \/ BackoffElapses(i)
         \/ CooldownElapses

CrashMidway ==
    \/ \E S \in SUBSET Claimable, i \in Claimable,
          point \in {"unclaimed", "claimed", "running", "started"} : CrashInTick(S, i, point)
    \/ \E i \in Items, o \in Outcomes,
          point \in {"item", "counter", "job"} : CrashInFinish(i, o, point)
    \/ \E j \in Jobs : CrashInCancel(j)

Next ==
    \/ Request \/ SetKillSwitch
    \/ Tick
    \/ \E i \in Items, o \in Outcomes : Finish(i, o)
    \/ Clock
    \/ Shutdown \/ Exit \/ Crash \/ CrashMidway \/ Start

Spec == Init /\ [][Next]_vars

\* The tick interval keeps firing, the transport answers every send (its
\* protocol timeout sees to that), time passes, a drained process exits (a
\* timer of server.js forces it), and a dead one is started again.
Fairness ==
    /\ WF_vars(Tick)
    /\ \A i \in Items : WF_vars(\E o \in Outcomes : Finish(i, o))
    /\ \A i \in Items : WF_vars(LeaseExpires(i)) /\ WF_vars(BackoffElapses(i))
    /\ WF_vars(CooldownElapses)
    /\ WF_vars(Exit)
    /\ WF_vars(Start)

FairSpec == Spec /\ Fairness

-----------------------------------------------------------------------------
(* Properties.                                                             *)

TypeOK ==
    /\ jstatus \in [Jobs -> JobStatus]
    /\ counter \in [Jobs -> [Counted -> Nat]]
    /\ istatus \in [Items -> ItemStatus]
    /\ attempts \in [Items -> Nat]
    /\ category \in [Items -> Categories]
    /\ lease \in [Items -> {"none", "held", "expired"}]
    /\ due \in SUBSET Items
    /\ disabled \in BOOLEAN
    /\ mode \in {"up", "draining", "down"}
    /\ exec \in [Items -> Nat]
    /\ active \in Nat
    /\ breaker \in Breaker
    /\ notified \in SUBSET Jobs
    /\ sent \in [Items -> Nat]
    /\ aborts \in [Items -> Nat]
    /\ crashes \in 0..MaxCrashes

\* Every send in flight is the one execution its row knows of: the row is
\* still "running" with that attempt number, or its job was cancelled
\* meanwhile.  No tick, recovery or cancellation ever leaves an item that
\* _processItem() holds claimable, so no item is ever processed twice at once.
InFlightOwned ==
    \A i \in InFlight :
        /\ exec[i] = attempts[i]
        /\ \/ istatus[i] = "running"
           \/ istatus[i] = "cancelled" /\ jstatus[JobOf[i]] = "CANCELLED"

\* The semaphore counts exactly the executions in flight, through every way
\* an execution ends, and never exceeds the worker's concurrency.
PermitsAccounted == active = Cardinality(InFlight) /\ active <= Concurrency

\* The final status of a job agrees with its items for ever after: late
\* answers, recovery and cancellation never change an item under it.
SettledMatchesItems ==
    \A j \in Jobs : jstatus[j] \in TERMINAL_JOB_STATUSES \ {"CANCELLED"} =>
        /\ \A i \in ItemsOf(j) : istatus[i] \in Counted
        /\ jstatus[j] = FinalStatus(j, istatus)

\* A counter of the jobs row is never ahead of the items it counts, and each
\* process death can have lost at most one increment of one counter: the
\* UPDATEs of markItemTerminal are two separate statements.
CountersAccurate ==
    \A j \in Jobs, s \in Counted :
        LET n == Cardinality({i \in ItemsOf(j) : istatus[i] = s})
        IN  counter[j][s] <= n /\ n <= counter[j][s] + crashes

\* A recipient receives a message again only because a process death cut off
\* an attempt: retries, pauses, cancellations and recovery alone never send
\* twice what the transport reported as sent.
DeliveredAtMostOnce == \A i \in Items : sent[i] <= 1 + aborts[i]

\* What the transport reported as sent is recorded as succeeded, a job
\* cancelled while the send was in flight included.
NoLostReceipt ==
    \A i \in Items : sent[i] > aborts[i] => istatus[i] = "succeeded"

\* Every attempt beyond MAX_ATTEMPTS is owed to a process death.
AttemptsBounded == \A i \in Items : attempts[i] <= MaxAttempts + aborts[i]

\* A send starts only with the kill switch off, in a worker that neither
\* drains nor is down, and for a job that is neither paused nor over: whatever
\* else is in flight was so before.  The items that a death inside cancelJob, or
\* a retry after it, leaves queued under a cancelled job never start.
NoStartWhileStopped ==
    [][\A i \in Items \ InFlight :
          exec'[i] > 0 => /\ ~disabled /\ mode = "up"
                          /\ jstatus[JobOf[i]] \in {"QUEUED", "RUNNING"}]_vars

\* The engine implements the ledger the scheduler relies on.
Phase(j) == CASE jstatus[j] = "ABSENT" -> "none"
              [] jstatus[j] = "CANCELLED" -> "cancelled"
              [] Open(j) -> "open"
              [] OTHER -> "settled"

Ledger == INSTANCE JobLedger WITH state <- [j \in Jobs |-> Phase(j)],
                                  told <- notified

\* Every job is created once, ends once, and its owner is told at most once
\* and only of a settlement: jobService.js and worker.js refine JobLedger.
ImplementsLedger == Ledger!Spec

\* A job with recipients settles or is cancelled once the kill switch stays
\* off, the process stays up and the job is not left paused: every due item is
\* claimed, every retry comes round, and the last item settles the job.
JobsSettle ==
    \A j \in Jobs :
        <>[](~disabled /\ mode = "up" /\ jstatus[j] # "PAUSED")
            => (Open(j) /\ ItemsOf(j) # {} ~> jstatus[j] \in TERMINAL_JOB_STATUSES)

-----------------------------------------------------------------------------
(* What a comment of the repository says and the code does not do.         *)

\* claiming.js: "items left claimed/running past their lease expiry get
\* requeued".
StaleClaimsRequeued == \A i \in Items : i \in Stale /\ exec[i] = 0 ~> i \notin Stale
=============================================================================
