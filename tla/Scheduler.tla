----------------------------- MODULE Scheduler ------------------------------
(***************************************************************************)
(* The message scheduler: the schedules table and scheduler/index.js, with *)
(* the callbacks server.js wires it to.  Its jobs are those of JobLedger,  *)
(* the specification JobEngine implements; the job of an occurrence is     *)
(* named by its idempotency key schedule:<id>:<next_run_at>, so it is the  *)
(* pair of both.                                                           *)
(*                                                                         *)
(* Time is a clock of whole repeat units.  0 stands for SQL's NULL in the  *)
(* repeat columns, as the code's truth tests treat it.                     *)
(***************************************************************************)
EXTENDS Naturals, FiniteSets

CONSTANTS Schedules,   \* the schedules that may be created
          MaxTime,     \* bound: the clock stops here
          Steps,       \* repeat intervals, 0 for a one-time schedule
          MaxCrashes   \* bound: process deaths in one behaviour

ASSUME SchedulerAssumption ==
    /\ MaxTime \in Nat
    /\ Steps \subseteq Nat
    /\ MaxCrashes \in Nat

VARIABLES
    status,   \* schedules.status ("none": not created, "removed": row deleted)
    next,     \* schedules.next_run_at
    step,     \* repeat_every_value in units
    end,      \* repeat_end_at
    now,      \* the clock
    ready,    \* transport.getConnectionState() = 'ready'
    up,       \* the server process runs
    crashes,  \* history: process deaths so far
    state,    \* JobLedger: the phase of every job
    told      \* JobLedger: the jobs whose onJobSettled has run

rowVars    == <<status, next, step, end>>
ledgerVars == <<state, told>>
vars       == <<rowVars, now, ready, up, crashes, ledgerVars>>

Times == 0..MaxTime
Ledger == INSTANCE JobLedger WITH Jobs <- Schedules \X Times

Live(s) == status[s] \in {"scheduled", "sending", "done"}
Occurrence(s) == <<s, next[s]>>

Init ==
    /\ status = [s \in Schedules |-> "none"]
    /\ next = [s \in Schedules |-> 0]
    /\ step = [s \in Schedules |-> 0]
    /\ end = [s \in Schedules |-> 0]
    /\ now = 0
    /\ ready = FALSE
    /\ up = TRUE
    /\ crashes = 0
    /\ Ledger!Init

-----------------------------------------------------------------------------
\* create: any run time is accepted, a past one included.
Create(s, at, every, until) ==
    /\ up
    /\ status[s] = "none"
    /\ status' = [status EXCEPT ![s] = "scheduled"]
    /\ next' = [next EXCEPT ![s] = at]
    /\ step' = [step EXCEPT ![s] = every]
    /\ end' = [end EXCEPT ![s] = until]
    /\ UNCHANGED <<now, ready, up, crashes, ledgerVars>>

Remove(s) ==
    /\ up
    /\ Live(s)
    /\ status' = [status EXCEPT ![s] = "removed"]
    /\ UNCHANGED <<next, step, end, now, ready, up, crashes, ledgerVars>>

\* The rows the SELECT of runTickIfReady returns.
Due == {s \in Schedules : status[s] = "scheduled" /\ next[s] <= now}

\* Mutant of NewJobs: the idempotency key lacks next_run_at.
NewJobsOfSchedule(F) ==
    {j \in {Occurrence(s) : s \in F} : \A t \in Times : state[<<j[1], t>>] = "none"}

\* The jobs createJob inserts for the occurrences of F: one whose key exists
\* is returned, not inserted again.
NewJobs(F) == {j \in {Occurrence(s) : s \in F} : state[j] = "none"}

\* Mutants of MarkSending: a status the table does not know; a one-time
\* schedule is done as soon as its job exists.
MarkFired(F) == status' = [s \in Schedules |-> IF s \in F THEN "fired" ELSE status[s]]
MarkDoneAtOnce(F) ==
    status' = [s \in Schedules |-> IF s \notin F THEN status[s]
                                   ELSE IF step[s] = 0 THEN "done" ELSE "sending"]

MarkSending(F) ==
    status' = [s \in Schedules |-> IF s \in F THEN "sending" ELSE status[s]]

\* runTickIfReady on a ready transport: _fireDue for every due row.
FireDue ==
    /\ Ledger!Create(NewJobs(Due))
    /\ MarkSending(Due)
    /\ UNCHANGED <<next, step, end>>

\* The interval, or another 'ready' event of the transport.
Tick ==
    /\ up /\ ready
    /\ FireDue
    /\ UNCHANGED <<now, ready, up, crashes>>

\* Mutant of BecomeReady: the scheduler is not told.
BecomeReadyQuietly ==
    /\ up /\ ~ready
    /\ ready' = TRUE
    /\ UNCHANGED <<rowVars, now, up, crashes, ledgerVars>>

\* transport.on('state') in server.js: a tick runs as the transport gets ready.
BecomeReady ==
    /\ up /\ ~ready
    /\ ready' = TRUE
    /\ FireDue
    /\ UNCHANGED <<now, up, crashes>>

Disconnect ==
    /\ up /\ ready
    /\ ready' = FALSE
    /\ UNCHANGED <<rowVars, now, up, crashes, ledgerVars>>

\* Mutant of LoopEnds: the next run is counted from now, off the grid.
LoopEndsFromNow(n, every, t) == t = now + every

\* The repeat loop of onJobSettled that starts from n ends at t.
LoopEnds(n, every, t) ==
    /\ t > now
    /\ \E k \in 1..(MaxTime + 1) :
          t = n + k * every /\ (k = 1 \/ n + (k - 1) * every <= now)

\* Mutant of Advance: a one-time schedule is left as it is.
AdvanceRepeating(s) ==
    \/ step[s] = 0 /\ UNCHANGED <<status, next>>
    \/ /\ step[s] # 0
       /\ \E t \in (now + 1)..(next[s] + now + step[s]) :
            /\ LoopEnds(next[s], step[s], t)
            /\ status' = [status EXCEPT ![s] = "scheduled"]
            /\ next' = [next EXCEPT ![s] = t]

\* onJobSettled on the row of s: a one-time schedule is done, a repeating one
\* moves to its next run in the future unless that lies beyond its end.
Advance(s) ==
    \/ /\ step[s] = 0
       /\ status' = [status EXCEPT ![s] = "done"]
       /\ UNCHANGED next
    \/ /\ step[s] # 0
       /\ \E t \in (now + 1)..(next[s] + now + step[s]) :
            /\ LoopEnds(next[s], step[s], t)
            /\ IF end[s] # 0 /\ t > end[s]
               THEN status' = [status EXCEPT ![s] = "done"] /\ UNCHANGED next
               ELSE /\ status' = [status EXCEPT ![s] = "scheduled"]
                    /\ next' = [next EXCEPT ![s] = t]

\* The job engine settles the job of occurrence t of s and calls onJobSettled,
\* which does nothing when the row was deleted meanwhile.
JobSettles(s, t) ==
    /\ up
    /\ Ledger!Settle(<<s, t>>)
    /\ IF Live(s) THEN Advance(s) ELSE UNCHANGED <<status, next>>
    /\ UNCHANGED <<step, end, now, ready, up, crashes>>

-----------------------------------------------------------------------------
ClockTick ==
    /\ now < MaxTime
    /\ now' = now + 1
    /\ UNCHANGED <<rowVars, ready, up, crashes, ledgerVars>>

Die ==
    /\ up
    /\ crashes < MaxCrashes
    /\ up' = FALSE
    /\ ready' = FALSE
    /\ crashes' = crashes + 1
    /\ UNCHANGED now

Crash == Die /\ UNCHANGED <<rowVars, ledgerVars>>

\* Death inside runTickIfReady: the rows of F were fired, for the row of g
\* the job was created but the row is not 'sending' yet.
CrashInTick(F, g) ==
    /\ ready
    /\ g \in Due \ F
    /\ Ledger!Create(NewJobs(F \cup {g}))
    /\ MarkSending(F)
    /\ Die
    /\ UNCHANGED <<next, step, end>>

\* Death between checkJobCompletion and onJobSettled.
CrashBeforeCallback(s, t) ==
    /\ Ledger!SettleUntold(<<s, t>>)
    /\ Die
    /\ UNCHANGED rowVars

Restart ==
    /\ ~up
    /\ up' = TRUE
    /\ UNCHANGED <<rowVars, now, ready, crashes, ledgerVars>>

-----------------------------------------------------------------------------
Request == \E s \in Schedules :
              \/ \E at, until \in Times, every \in Steps : Create(s, at, every, until)
              \/ Remove(s)

Settling == \E s \in Schedules, t \in Times : JobSettles(s, t)

CrashMidway == \/ \E F \in SUBSET Due, g \in Due : CrashInTick(F, g)
               \/ \E s \in Schedules, t \in Times : CrashBeforeCallback(s, t)

Next == \/ Request
        \/ Tick \/ BecomeReady \/ Disconnect
        \/ Settling
        \/ ClockTick
        \/ Crash \/ CrashMidway \/ Restart

Spec == Init /\ [][Next]_vars

\* The tick interval keeps firing, time passes and the process is restarted.
\* Nothing is assumed of the job engine: a job whose claims were stranded by a
\* death, or that a wedged breaker or the kill switch keeps waiting, stays open.
FairSpec == Spec /\ WF_vars(Tick) /\ WF_vars(ClockTick) /\ WF_vars(Restart)

-----------------------------------------------------------------------------
(* Properties.                                                             *)

TypeOK ==
    /\ status \in [Schedules -> {"none", "scheduled", "sending", "done", "removed"}]
    /\ next \in [Schedules -> Nat]
    /\ step \in [Schedules -> Nat]
    /\ end \in [Schedules -> Nat]
    /\ now \in Nat
    /\ ready \in BOOLEAN
    /\ up \in BOOLEAN
    /\ crashes \in Nat
    /\ state \in [Schedules \X Times -> Ledger!Phases]
    /\ told \in SUBSET (Schedules \X Times)

\* The open job of a schedule is the one of its current occurrence: there is
\* at most one, onJobSettled advances the row from the occurrence that ran,
\* and a schedule that is done has none.
OpenJobIsCurrent ==
    \A s \in Schedules, t \in Times :
        state[<<s, t>>] = "open" /\ Live(s) =>
            t = next[s] /\ status[s] \in {"scheduled", "sending"}

\* A row says "sending" for a reason: the job of its occurrence is open, in
\* which case its settlement will find the row, or a process death lost the
\* callback of its settlement.
SendingHasJob ==
    \A s \in Schedules : status[s] = "sending" =>
        \/ state[Occurrence(s)] = "open"
        \/ state[Occurrence(s)] = "settled" /\ Occurrence(s) \notin told /\ crashes > 0

\* catch_up_once: a row moves on only from an occurrence that has a settled
\* job, to the first run on its grid that lies in the future; the occurrences
\* missed in between are skipped, none is fired in a burst; nor does it move
\* past the end of the schedule, however late the job settled.
CatchUpOnce ==
    [][\A s \in Schedules : Live(s) /\ next'[s] # next[s] =>
         /\ state'[Occurrence(s)] = "settled"
         /\ (next'[s] - next[s]) % step[s] = 0
         /\ now < next'[s] /\ next'[s] - step[s] <= now
         /\ end[s] = 0 \/ next'[s] <= end[s]]_vars

\* A due schedule fires or is removed, however often the transport drops out,
\* if it keeps coming back.
DueFires ==
    []<>ready => \A s \in Schedules : s \in Due ~> s \notin Due

\* No job of s stays open for ever.
JobsReport(s) == \A t \in Times : []<>(state[<<s, t>>] # "open")

\* A schedule stays in "sending" for no reason of the scheduler's own: unless
\* the engine leaves its job open, or a process death lost the callback of its
\* settlement, onJobSettled moves it on, whatever ticks were repeated, dropped
\* connections and restarts came in between.
SendingMovesOn ==
    \A s \in Schedules : JobsReport(s) =>
        (status[s] = "sending" ~>
            \/ status[s] # "sending"
            \/ state[Occurrence(s)] = "settled" /\ Occurrence(s) \notin told)
=============================================================================
