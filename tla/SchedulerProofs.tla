--------------------------- MODULE SchedulerProofs ---------------------------
(***************************************************************************)
(* What the rows of the scheduler and the jobs of their occurrences agree  *)
(* on, for any number of schedules, repeat intervals and process deaths,   *)
(* on a clock of any length.                                               *)
(***************************************************************************)
EXTENDS Scheduler, TLAPS

\* The rows and the ledger.
RowTypeOK ==
    /\ status \in [Schedules -> {"none", "scheduled", "sending", "done", "removed"}]
    /\ next \in [Schedules -> Nat]
    /\ step \in [Schedules -> Nat]
    /\ end \in [Schedules -> Nat]
    /\ state \in [Schedules \X Times -> Ledger!Phases]
    /\ told \in SUBSET (Schedules \X Times)

\* No schedule has a job of an occurrence that is still to come or was not due.
NoJobAhead ==
    \A s \in Schedules, t \in Times :
        state[<<s, t>>] # "none" => status[s] # "none" /\ t <= next[s] /\ t <= now

\* The occurrence of a row that waits to be fired or for its job is not over,
\* unless a process death lost the callback.
NotOverYet ==
    \A s \in Schedules : status[s] \in {"scheduled", "sending"} /\ next[s] \in Times =>
        \/ state[Occurrence(s)] \in {"none", "open"}
        \/ state[Occurrence(s)] = "settled" /\ Occurrence(s) \notin told /\ crashes > 0

SendingHasBegun ==
    \A s \in Schedules :
        status[s] = "sending" => next[s] \in Times /\ state[Occurrence(s)] # "none"

ToldIsSettled == \A j \in told : state[j] = "settled"

RowInv == RowTypeOK /\ NoJobAhead /\ OpenJobIsCurrent /\ NotOverYet /\ SendingHasBegun
          /\ ToldIsSettled

ClockInv == now \in Times /\ crashes \in Nat /\ ready \in BOOLEAN /\ up \in BOOLEAN

IInv == RowInv /\ ClockInv

-----------------------------------------------------------------------------
LEMMA Constants == MaxTime \in Nat /\ Steps \subseteq Nat /\ Times = 0..MaxTime
BY SchedulerAssumption DEF Times

LEMMA InvHoldsInitially == Init => IInv
<1> SUFFICES ASSUME Init PROVE IInv
  OBVIOUS
<1> USE Constants DEF Init, Ledger!Init
<1>1. RowInv
  BY DEF RowInv, RowTypeOK, NoJobAhead, OpenJobIsCurrent, NotOverYet, SendingHasBegun,
         ToldIsSettled, Occurrence, Live, Ledger!Phases
<1>2. now \in Times /\ crashes \in Nat
  OBVIOUS
<1>3. ready \in BOOLEAN /\ up \in BOOLEAN
  BY Zenon
<1> QED BY <1>1, <1>2, <1>3 DEF IInv, ClockInv

\* POST and DELETE of a schedule.
LEMMA RequestStep == ASSUME IInv, Request PROVE RowInv'
<1> USE Constants DEF IInv, RowInv, RowTypeOK, Occurrence, ledgerVars
<1>1. ASSUME NEW s \in Schedules, NEW at \in Times, NEW until \in Times, NEW every \in Steps,
             Create(s, at, every, until)
      PROVE  RowInv'
  <2> USE <1>1 DEF Create
  <2>1. RowTypeOK'
    OBVIOUS
  <2>2. \A t \in Times : state[<<s, t>>] = "none"
    BY DEF NoJobAhead
  <2>3. NoJobAhead' /\ OpenJobIsCurrent'
    BY <2>2 DEF NoJobAhead, OpenJobIsCurrent, Live
  <2>4. NotOverYet' /\ SendingHasBegun' /\ ToldIsSettled'
    BY <2>2 DEF NotOverYet, SendingHasBegun, ToldIsSettled
  <2> QED BY <2>1, <2>3, <2>4
<1>2. ASSUME NEW s \in Schedules, Remove(s) PROVE RowInv'
  <2> USE <1>2 DEF Remove
  <2>1. RowTypeOK'
    OBVIOUS
  <2>2. NoJobAhead' /\ OpenJobIsCurrent'
    BY DEF NoJobAhead, OpenJobIsCurrent, Live
  <2>3. NotOverYet' /\ SendingHasBegun' /\ ToldIsSettled'
    BY DEF NotOverYet, SendingHasBegun, ToldIsSettled
  <2> QED BY <2>1, <2>2, <2>3
<1> QED BY <1>1, <1>2 DEF Request

\* _fireDue for the rows of F, and for one more of which only the job is there
\* when the process dies: in all, the jobs of G.
LEMMA FireEffect ==
    ASSUME IInv, NEW G \in SUBSET Due, NEW F \in SUBSET G,
           Ledger!Create(NewJobs(G)), MarkSending(F), UNCHANGED <<next, step, end, now>>,
           crashes' \in Nat, crashes' >= crashes
    PROVE  RowInv'
<1> USE Constants DEF IInv, RowInv, RowTypeOK, Occurrence, MarkSending, Ledger!Create
<1>1. \A s \in G : /\ s \in Schedules /\ status[s] = "scheduled"
                  /\ next[s] \in Times /\ next[s] <= now
  BY DEF Due, ClockInv
<1>2. NewJobs(G) \subseteq Schedules \X Times
  BY <1>1 DEF NewJobs
<1>3. RowTypeOK'
  <2>1. state' \in [Schedules \X Times -> Ledger!Phases]
    BY <1>2 DEF Ledger!Phases
  <2> QED BY <1>1, <2>1
<1>4. \A s \in Schedules, t \in Times :
          state'[<<s, t>>] = IF s \in G /\ t = next[s] /\ state[<<s, t>>] = "none"
                             THEN "open" ELSE state[<<s, t>>]
  BY <1>2 DEF NewJobs
<1>5. NoJobAhead'
  <2> SUFFICES ASSUME NEW s \in Schedules, NEW t \in Times, state'[<<s, t>>] # "none"
               PROVE  status'[s] # "none" /\ t <= next[s] /\ t <= now
    BY DEF NoJobAhead
  <2>1. CASE s \in G /\ t = next[s]
    BY <1>1, <2>1
  <2>2. CASE ~(s \in G /\ t = next[s])
    BY <1>4, <2>2 DEF NoJobAhead
  <2> QED BY <2>1, <2>2
<1>6. OpenJobIsCurrent'
  BY <1>1, <1>4 DEF OpenJobIsCurrent, Live
<1>7. NotOverYet'
  BY <1>1, <1>4 DEF NotOverYet, ClockInv
<1>8. SendingHasBegun'
  BY <1>1, <1>4 DEF SendingHasBegun
<1>9. ToldIsSettled'
  BY <1>2 DEF ToldIsSettled, NewJobs
<1> QED BY <1>3, <1>5, <1>6, <1>7, <1>8, <1>9

LEMMA FireStep ==
    ASSUME IInv, Tick \/ BecomeReady \/ \E F \in SUBSET Due, g \in Due : CrashInTick(F, g)
    PROVE  RowInv'
<1>1. CASE Tick \/ BecomeReady
  BY <1>1, FireEffect DEF Tick, BecomeReady, FireDue, IInv, ClockInv
<1>2. ASSUME NEW F \in SUBSET Due, NEW g \in Due, CrashInTick(F, g) PROVE RowInv'
  <2>1. F \cup {g} \in SUBSET Due /\ F \in SUBSET (F \cup {g})
    OBVIOUS
  <2>2. crashes' \in Nat /\ crashes' >= crashes /\ now' = now
    BY <1>2 DEF CrashInTick, Die, IInv, ClockInv
  <2> QED BY <1>2, <2>1, <2>2, FireEffect DEF CrashInTick
<1> QED BY <1>1, <1>2

\* The catch-up loop, from an instant that has come.
LEMMA LoopLands ==
    ASSUME NEW n \in Nat, NEW every \in Nat, NEW t \in Nat, now \in Nat, n <= now,
           LoopEnds(n, every, t)
    PROVE  n < t /\ (every > 0 => (t - n) % every = 0) /\ now < t /\ t - every <= now
<1> PICK k \in 1..(MaxTime + 1) : t = n + k * every /\ (k = 1 \/ n + (k - 1) * every <= now)
  BY DEF LoopEnds
<1>1. k \in Nat
  BY Constants
<1>2. now < t
  BY DEF LoopEnds
<1>3. every > 0 => (k * every) % every = 0
  BY <1>1
<1>4. (k - 1) * every = k * every - every /\ k * every \in Nat
  BY <1>1
<1>5. t - n = k * every
  BY <1>4
<1>6. t - every <= now
  BY <1>4, <1>5
<1> QED BY <1>2, <1>3, <1>5, <1>6

\* The row of s moves to t, the first instant of its grid in the future.
MovesTo(s, t) ==
    /\ next' = [next EXCEPT ![s] = t]
    /\ t > next[s] /\ (t - next[s]) % step[s] = 0
    /\ now < t /\ t - step[s] <= now
    /\ end[s] = 0 \/ t <= end[s]

\* onJobSettled moves a row to its next occurrence, or it is done.
LEMMA AdvanceEffect ==
    ASSUME RowTypeOK, now \in Times, NEW s \in Schedules, next[s] <= now, Advance(s)
    PROVE  \/ /\ status' = [status EXCEPT ![s] = "done"]
              /\ next' = next
           \/ /\ status' = [status EXCEPT ![s] = "scheduled"]
              /\ \E t \in Nat : MovesTo(s, t)
<1>1. CASE step[s] = 0
  BY <1>1 DEF Advance
<1>2. CASE step[s] # 0
  <2> PICK t \in (now + 1)..(next[s] + now + step[s]) :
          /\ LoopEnds(next[s], step[s], t)
          /\ IF end[s] # 0 /\ t > end[s]
             THEN status' = [status EXCEPT ![s] = "done"] /\ UNCHANGED next
             ELSE /\ status' = [status EXCEPT ![s] = "scheduled"]
                  /\ next' = [next EXCEPT ![s] = t]
    BY <1>2 DEF Advance
  <2>1. /\ step[s] \in Nat /\ step[s] > 0 /\ next[s] \in Nat /\ end[s] \in Nat
        /\ now \in Nat /\ t \in Nat
    BY <1>2, Constants DEF RowTypeOK
  <2>2. next[s] < t /\ (t - next[s]) % step[s] = 0 /\ now < t /\ t - step[s] <= now
    BY <2>1, LoopLands
  <2> QED BY <2>1, <2>2 DEF MovesTo
<1> QED BY <1>1, <1>2

LEMMA SettleStep ==
    ASSUME IInv, NEW s \in Schedules, NEW t \in Times, JobSettles(s, t)
    PROVE  RowInv'
<1> USE Constants, JobSettles(s, t)
    DEF IInv, RowInv, RowTypeOK, Occurrence, JobSettles, Ledger!Settle, Ledger!Phases
<1>1. \A r \in Schedules, u \in Times :
          state'[<<r, u>>] = IF r = s /\ u = t THEN "settled" ELSE state[<<r, u>>]
  OBVIOUS
<1>2. ToldIsSettled' /\ state' \in [Schedules \X Times -> Ledger!Phases]
      /\ told' \in SUBSET (Schedules \X Times)
  BY DEF ToldIsSettled
<1>3. CASE ~Live(s)
  <2>1. RowTypeOK'
    BY <1>2, <1>3
  <2>2. NoJobAhead'
    BY <1>1, <1>3 DEF NoJobAhead
  <2>3. OpenJobIsCurrent'
    BY <1>1, <1>3 DEF OpenJobIsCurrent, Live
  <2>4. NotOverYet' /\ SendingHasBegun'
    BY <1>1, <1>3 DEF NotOverYet, SendingHasBegun, Live
  <2> QED BY <1>2, <2>1, <2>2, <2>3, <2>4
<1>4. CASE Live(s)
  <2>1. t = next[s] /\ next[s] <= now
    BY <1>4 DEF OpenJobIsCurrent, NoJobAhead
  <2>2. CASE status' = [status EXCEPT ![s] = "done"] /\ next' = next
    <3>1. RowTypeOK' /\ NoJobAhead' /\ OpenJobIsCurrent'
      BY <1>1, <1>2, <2>1, <2>2 DEF NoJobAhead, OpenJobIsCurrent, Live
    <3>2. NotOverYet' /\ SendingHasBegun'
      BY <1>1, <2>2 DEF NotOverYet, SendingHasBegun
    <3> QED BY <1>2, <3>1, <3>2
  <2>3. ASSUME NEW u \in Nat, MovesTo(s, u),
               status' = [status EXCEPT ![s] = "scheduled"]
        PROVE  RowInv'
    <3>1. \A v \in Times : v > next[s] => state[<<s, v>>] = "none"
      BY DEF NoJobAhead
    <3>2. RowTypeOK' /\ NoJobAhead'
      BY <1>1, <1>2, <2>1, <2>3 DEF MovesTo, NoJobAhead
    <3>3. OpenJobIsCurrent'
      BY <1>1, <2>1, <2>3 DEF MovesTo, OpenJobIsCurrent, Live
    <3>4. NotOverYet' /\ SendingHasBegun'
      BY <1>1, <2>1, <2>3, <3>1 DEF MovesTo, NotOverYet, SendingHasBegun
    <3> QED BY <1>2, <3>2, <3>3, <3>4
  <2>4. Advance(s) /\ RowTypeOK /\ now \in Times
    BY <1>4 DEF ClockInv
  <2>5. \/ status' = [status EXCEPT ![s] = "done"] /\ next' = next
        \/ /\ status' = [status EXCEPT ![s] = "scheduled"]
           /\ \E u \in Nat : MovesTo(s, u)
    <3> HIDE DEF RowTypeOK, IInv, RowInv, JobSettles
    <3> QED BY <2>1, <2>4, AdvanceEffect, Zenon
  <2> QED BY <2>2, <2>3, <2>5
<1> QED BY <1>3, <1>4

\* A death between the settlement of a job and the callback.
LEMMA LostCallbackStep ==
    ASSUME IInv, NEW s \in Schedules, NEW t \in Times, CrashBeforeCallback(s, t)
    PROVE  RowInv'
<1> USE Constants, CrashBeforeCallback(s, t)
    DEF IInv, RowInv, RowTypeOK, Occurrence, CrashBeforeCallback, Ledger!SettleUntold,
        Ledger!Phases, rowVars
<1>1. \A r \in Schedules, u \in Times :
          state'[<<r, u>>] = IF r = s /\ u = t THEN "settled" ELSE state[<<r, u>>]
  OBVIOUS
<1>2. <<s, t>> \notin told /\ ToldIsSettled'
  BY DEF ToldIsSettled
<1>3. RowTypeOK'
  OBVIOUS
<1>4. NoJobAhead'
  BY <1>1 DEF NoJobAhead, Die
<1>5. OpenJobIsCurrent'
  BY <1>1 DEF OpenJobIsCurrent, Live
<1>6. crashes' > 0
  BY DEF Die, ClockInv
<1>7. SendingHasBegun'
  BY <1>1 DEF SendingHasBegun
<1>8. NotOverYet'
  <2> SUFFICES ASSUME NEW r \in Schedules, status[r] \in {"scheduled", "sending"},
                      next[r] \in Times
               PROVE  \/ state'[<<r, next[r]>>] \in {"none", "open"}
                      \/ /\ state'[<<r, next[r]>>] = "settled"
                         /\ <<r, next[r]>> \notin told /\ crashes' > 0
    BY DEF NotOverYet
  <2>1. CASE r = s /\ next[r] = t
    BY <1>1, <1>2, <1>6, <2>1
  <2>2. CASE ~(r = s /\ next[r] = t)
    BY <1>1, <1>6, <2>2 DEF NotOverYet
  <2> QED BY <2>1, <2>2
<1> QED BY <1>2, <1>3, <1>4, <1>5, <1>7, <1>8

\* What happens around the rows, and stuttering.
LEMMA AroundStep ==
    ASSUME IInv, Disconnect \/ ClockTick \/ Crash \/ Restart \/ UNCHANGED vars
    PROVE  RowInv'
<1>1. /\ UNCHANGED <<rowVars, ledgerVars>>
      /\ crashes' = crashes \/ crashes' = crashes + 1
      /\ now' = now \/ now' = now + 1
  BY DEF Disconnect, ClockTick, Crash, Restart, Die, vars
<1> USE <1>1, Constants DEF rowVars, ledgerVars, IInv, RowInv, ClockInv
<1>2. NoJobAhead'
  BY DEF NoJobAhead
<1>3. RowTypeOK' /\ OpenJobIsCurrent' /\ NotOverYet' /\ SendingHasBegun' /\ ToldIsSettled'
  BY DEF RowTypeOK, OpenJobIsCurrent, NotOverYet, SendingHasBegun, ToldIsSettled, Occurrence, Live
<1> QED BY <1>2, <1>3

\* The clock, the deaths, and whether process and transport are up.
LEMMA ClockStep == ASSUME ClockInv, [Next]_vars PROVE ClockInv'
<1>1. now' = now \/ ClockTick
  BY DEF Next, vars, Request, Create, Remove, Tick, BecomeReady, Disconnect, Settling,
     JobSettles, Crash, Die, CrashMidway, CrashInTick, CrashBeforeCallback, Restart
<1>2. crashes' = crashes \/ crashes' = crashes + 1
  BY DEF Next, vars, Request, Create, Remove, Tick, BecomeReady, Disconnect, Settling,
     JobSettles, ClockTick, Crash, Die, CrashMidway, CrashInTick, CrashBeforeCallback, Restart
<1>3. now' \in Times /\ crashes' \in Nat
  BY <1>1, <1>2, Constants DEF ClockInv, ClockTick
<1>4. ready' \in BOOLEAN /\ up' \in BOOLEAN
  BY Zenon DEF ClockInv, Next, vars, Request, Create, Remove, Tick, BecomeReady, Disconnect,
     Settling, JobSettles, ClockTick, Crash, Die, CrashMidway, CrashInTick, CrashBeforeCallback,
     Restart
<1> QED BY <1>3, <1>4 DEF ClockInv

-----------------------------------------------------------------------------

\* Every step of the scheduler preserves the invariant.
THEOREM Invariant == Spec => []IInv
<1>1. IInv /\ [Next]_vars => IInv'
  <2>1. IInv /\ [Next]_vars => RowInv'
    BY RequestStep, FireStep, SettleStep, LostCallbackStep, AroundStep
       DEF Next, Settling, CrashMidway
  <2> QED BY <2>1, ClockStep DEF IInv
<1> QED BY InvHoldsInitially, <1>1, PTL DEF Spec

\* The rows of schedules, the clock and the ledger keep their types.
THEOREM TypeCorrect == Spec => []TypeOK
<1>1. IInv => TypeOK
  <2>1. IInv => now \in Nat
    BY Constants DEF IInv, ClockInv
  <2> QED BY <2>1, Zenon DEF IInv, RowInv, RowTypeOK, ClockInv, TypeOK
<1> QED BY Invariant, <1>1, PTL

\* _fireDue and onJobSettled: a schedule has at most one open job, that of its
\* current occurrence, however late, often or brokenly it was fired.
THEOREM OneOpenJob == Spec => []OpenJobIsCurrent
<1>1. IInv => OpenJobIsCurrent BY DEF IInv, RowInv
<1> QED BY Invariant, <1>1, PTL

\* A row that says "sending" has an open job, or a process death lost the
\* callback of its settlement.
THEOREM SendingIsWaiting == Spec => []SendingHasJob
<1>1. IInv => SendingHasJob
  BY DEF IInv, RowInv, NotOverYet, SendingHasBegun, SendingHasJob
<1> QED BY Invariant, <1>1, PTL

\* Whatever moves a row on starts from an occurrence whose job has settled, and
\* goes to the first instant of its grid that lies in the future and not past
\* its end.
THEOREM CatchesUpOnce == Spec => CatchUpOnce
<1> DEFINE Moves(s) ==
        Live(s) /\ next'[s] # next[s] =>
            /\ state'[Occurrence(s)] = "settled"
            /\ (next'[s] - next[s]) % step[s] = 0
            /\ now < next'[s] /\ next'[s] - step[s] <= now
            /\ end[s] = 0 \/ next'[s] <= end[s]
<1>1. ASSUME IInv, [Next]_vars, NEW s \in Schedules PROVE Moves(s)
  <2> SUFFICES ASSUME Live(s), next'[s] # next[s]
               PROVE  /\ state'[Occurrence(s)] = "settled"
                      /\ (next'[s] - next[s]) % step[s] = 0
                      /\ now < next'[s] /\ next'[s] - step[s] <= now
                      /\ end[s] = 0 \/ next'[s] <= end[s]
    OBVIOUS
  <2> USE <1>1 DEF IInv, RowInv, RowTypeOK, ClockInv
  <2>1. PICK r \in Schedules, t \in Times : JobSettles(r, t)
    <3>1. \A r \in Schedules, at, until \in Times, every \in Steps :
              Create(r, at, every, until) => r # s
      BY DEF Create, Live
    <3>2. \A r \in Schedules, at, until \in Times, every \in Steps :
              ~Create(r, at, every, until)
      BY <3>1 DEF Create
    <3> QED
      BY <3>2 DEF Next, vars, rowVars, Request, Remove, Tick, BecomeReady, FireDue, Disconnect,
         Settling, ClockTick, Crash, CrashMidway, CrashInTick, CrashBeforeCallback, Restart
  <2>2. r = s
    BY <2>1 DEF JobSettles, Advance
  <2>3. Advance(s) /\ t = next[s] /\ state[<<s, t>>] = "open" /\ t <= now
    BY <2>1, <2>2 DEF JobSettles, Ledger!Settle, OpenJobIsCurrent, NoJobAhead
  <2>4. state'[Occurrence(s)] = "settled"
    BY <2>1, <2>2, <2>3 DEF JobSettles, Ledger!Settle, Occurrence
  <2>5. next' # next
    OBVIOUS
  <2>6. PICK u \in Nat : MovesTo(s, u)
    <3>1. RowTypeOK /\ now \in Times /\ next[s] <= now
      BY <2>3
    <3> HIDE DEF RowTypeOK, IInv, RowInv
    <3> QED BY <2>3, <2>5, <3>1, AdvanceEffect, Zenon
  <2>7. next'[s] = u
    BY <2>6 DEF MovesTo
  <2> QED BY <2>4, <2>6, <2>7 DEF MovesTo
<1>2. IInv /\ [Next]_vars => [\A s \in Schedules : Moves(s)]_vars
  BY <1>1
<1> QED BY Invariant, <1>2, PTL DEF Spec, CatchUpOnce
=============================================================================
