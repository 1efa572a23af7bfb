# A verification of whatsapp-tester

TLA+ models of the parts of this repository that carry its own logic, TLC runs
that check them on small instances, and proofs, checked by TLAPS, of the
properties that matter most for every size. Paths below are relative to the
repository's sources.

## 1. The system

whatsapp-tester is one Node.js process: an Express API with a Socket.IO feed
for a browser page, a SQLite database (synchronous, `better-sqlite3`), a message
scheduler, a durable job engine, and a transport that drives WhatsApp Web.

| Component | State it keeps | Operations | Source |
| --- | --- | --- | --- |
| Job engine | tables `jobs`, `job_items`; the worker's in-flight set, semaphore, breaker | create, pause, resume, cancel; tick (claim and start), finish (classify, retry, settle), recover, drain | `lib/jobs/` |
| Circuit breaker | CLOSED / OPEN / HALF_OPEN, failure count, probe flag | `canAttempt`, `recordSuccess`, `recordFailure` | `lib/jobs/circuitBreaker.js` |
| Scheduler | table `schedules` | create, remove, 15 s tick, tick on `ready`, `onJobSettled` | `scheduler/index.js` |
| Direct send routes | nothing but the request they serve | `/send`, `/send-groups`, `/send-bulk`, `/chats/:id/send` | `routes/` |
| Kill switch | row `outbound_disabled` of `settings` | set; asked by the worker's tick and by the send routes | `lib/killSwitch.js` |
| Idempotency cache | table `idempotency_keys` | look up, store on `res.json`, sweep | `lib/idempotency.js` |
| Audit log | table `audit_log` | append | `lib/audit.js` |
| WhatsApp transport | connection state, QR code, pending ready timers | client events, sends, reading chats | `transports/WhatsAppWebTransport.js` |
| Mock transport | the same, played by timers | three timers | `transports/MockTransport.js` |
| Server process | the wiring of the above | start, shut down, die | `server.js` |
| Browser page | displayed state, mirror of the schedules, four forms, chat view | socket handlers, form handlers | `public/app.js` |
| Sessions, login | tables `sessions`, `login_attempts`, `users` | log in, log out, sweep | `lib/auth/`, `routes/auth.js` |
| Migration | the file `schedules.json` | import once, rename | `lib/migrateSchedulesJson.js` |

How they interact. The scheduler creates jobs with `jobService.createJob` under
the key `schedule:<id>:<next_run_at>` and is called back (`onJobSettled`) when
the worker has settled one. The worker and the send routes call the transport.
The transport's `state` event is broadcast to the sockets and, when it says
`ready`, runs a scheduler tick. The scheduler's events go to the sockets. All
share the database; nothing else survives the process.

What is hard. JavaScript runs one callback at a time, so what interleaves are
callbacks, at every `await` and timer: answers of sends against cancellations
and shutdown, requests against the kill switch, several requests with one
idempotency key, socket events against HTTP answers, form handlers against
their own request. The process may die between any two SQL statements that are
not in one transaction, and comes back with the database only. Time matters in
leases (60 s), backoff, the breaker's cooldown (30 s), idempotency TTLs (5 min),
schedule ticks and the five-second ready timer.

What makes each component correct:

- job engine: no item is processed twice at once; a recipient gets a message
  again only because a process death cut an attempt off; attempts are bounded;
  nothing starts while stopped; permits are never lost; a settled job agrees
  with its items for ever; every job settles;
- scheduler: an occurrence has one job; a schedule advances from the occurrence
  that ran, on its grid, once, into the future; due schedules fire and move on;
- direct sends: what is replayed really was sent; what was sent is audited;
- transport and page: the page shows the transport's state after every
  reconnection, and the table of schedules once events and answers are in;
- forms: a button agrees with its form after any interleaving, and one click
  is one request;
- chat view: the thread is that of the open chat, each message once and in
  order; the list is the answer to the search box, with its badges drawn;
- sessions: no expired session is accepted, a session in use is kept, one that
  ended does not come back; no more passwords are compared than the lockout
  allows;
- server process: old schedules are imported as a whole and once; a shutdown
  ends, and a clean one leaves nothing half done.

## 2. Modules

| Module | Models | Composed of |
| --- | --- | --- |
| `CircuitBreaker` | the breaker, as operators on a record | |
| `JobEngine` | tables, worker, kill switch and process of the job engine | extends `CircuitBreaker`; refines `JobLedger` |
| `JobLedger` | what the job engine promises its clients (abstract) | |
| `Scheduler` | schedules, ticks, callbacks, deaths | an instance of `JobLedger` |
| `DirectSend` | the send routes with kill switch and idempotency cache | |
| `TransportConnection` | client events, QR encoding, ready timers | |
| `MockTransport` | the connection the mock transport plays | extends `TransportConnection` |
| `LiveFeed` | server emits, one socket, one page, on either transport | extends `MockTransport` |
| `SendForm` | the four forms of the page | |
| `ChatView` | chat list and thread of the page, chat requests and events | |
| `Sessions` | session rows, requests that write them back, login throttle | |
| `ServerProcess` | start with import, work, shutdown, death | |
| `JobEngineProofs`, `SchedulerProofs`, `DirectSendProofs`, `LiveFeedProofs`, `SendFormProofs`, `ChatViewProofs`, `SessionsProofs`, `ServerProcessProofs` | the proofs | each extends its module; the first also holds those of `CircuitBreaker`, the fourth those of the two transports |
| `MCJobEngine`, `MCDirectSend`, `MCChatView`, `MCSessions` | instances for TLC | each extends its module |

### JobEngine

A row of `jobs` is `jstatus` and `counter`; a row of `job_items` is `istatus`,
`attempts`, `category`, `lease` and membership in `due`. The worker's memory is
`exec` (the attempt number each running `_processItem()` holds), `active` (the
semaphore) and `breaker`. `Tick` is the whole of `_tick()` with the synchronous
head of each `_processItem()` it starts, because neither awaits before the
transport is called; `Finish` is everything after that await, the settlement of
the job and the callback included. `CrashInTick`, `CrashInFinish` and
`CrashInCancel` are the prefixes a process death leaves in the database, one for
each gap between two statements outside a transaction. `Shutdown` and `Exit`
are the drain, `Start` is `recoverOnStartup()` and the start of the worker.

`sent`, `aborts`, `notified` and `crashes` are history: what reached recipients
and what a death cut off. An attempt cut off by a death may or may not have
delivered; both are behaviours of the model.

The next attempt of an item is chosen among the due ones; that the oldest comes
first, the event and attempt logs, and the number of milliseconds of a backoff
are left out.

### JobLedger and Scheduler

A job is none, open, settled or cancelled; `told` holds the jobs whose callback
ran, at the moment of settlement or never. `JobEngine` has the refinement
(`Ledger`, property `ImplementsLedger`), so that `Scheduler` may be written on
`JobLedger` instead of on the engine. The job of an occurrence is the pair of
the schedule and the time, which is what its idempotency key says. `FireDue` is
`runTickIfReady` on a ready transport; `Advance` is the body of `onJobSettled`
with its catch-up loop (`LoopEnds`), on a clock of whole repeat units.
`CrashInTick` and `CrashBeforeCallback` are its two process deaths.

`cancelJob` has no route, so no job of a schedule is cancelled here. A schedule
whose job were cancelled would stay `sending`, since cancellation calls nothing.

### DirectSend

A request is new, sending, answered or lost. `Locked`, `Replay` and `Enter` are
the two middlewares and the route up to its first await; `SendOne` and `SkipOne`
go through the recipients one at a time, other requests and the operator in
between; `Succeed`, `Fail` and `Abort` are the ends of a route, with the audit
row and the cached response. Time passes in steps (`TimePasses`), of which `TTL`
make the five minutes; every request with a key and every row has an age of its
own, and a row the age of the request it is the response of, since `created_at`
and `expires_at` are counted from there. `shadowed` is history: the requests whose
key had a row when they came in, or another request of which was answered while
they ran. Those are the ones whose INSERT may find a row in its place.

### TransportConnection, MockTransport and LiveFeed

`TransportConnection` has one action per client event, plus the two delayed
halves (`CodeEncoded`, `ReadyTimer`). `MockTransport` has the same variables and
the three timers of `initialize()`; the one handler that awaits is shared.
`LiveFeed` starts with either and adds the rows of `schedules` with the event
each change emits, the ordered wire of one socket, and the page: the state
handler, the mirror `schedules`, and the one `GET /api/schedules` of
`loadSchedules()`, whose answer is not ordered with the socket. `missed` is
history: it becomes true exactly when a change passes the page by, and names the
two ways in which that happens. A page whose list was refused is kept apart.

### SendForm

One form per behaviour; the forms share nothing. `Offered` is the condition the
four `update...State` functions (and `renderBulkTable`) compute, `Redraw` their
effect, which every entry handler runs whether or not a request is under way.
`Click` to `Finish` is a submission. `redrawn` is history: the buttons that
another handler has set since the click that started the oldest request.

### ChatView

A message is its chat and its number in that chat. `AskList` and `OpenChat` are
`loadChats()` and `openChat()` up to their awaits, `HearReady` is the state handler
that asks for the list at every `ready`, `ServeList` and `ServeThread`
the routes, the `Arrives` and `Fails` actions what follows the awaits, and
`Receive` the whole `chatMessage` handler. `threadOff` and `listOff` are history:
each becomes true when an answer is rendered that does not fit what is on the
wire (it is for another chat or search, or events have overtaken it) or an event
is lost with a socket, and false when an answer that fits is rendered. What the
properties say is that nothing else makes the page wrong. The last 50 messages
and the first 100 chats that the routes return are here all there are.

### Sessions

A row is the ages of `lastActivityAt`, of the login and of the last write. A
request (`Accept` behind `requireAuth`, `Plain` for pages and polls) carries a
copy of its row, and `End` writes the whole copy back, as `touch` and `set` do:
requests that overlap overwrite each other. Ages stop growing one tick past
their limit, which is all the code compares them with. `seen` and `born` are
what a session is really due; `mixed` and `stragglers` are the sessions to which
an overlap or a late end may have happened. `wrong`, `denied` and `compared` are
the failed rows of one user name within the window.

### ServerProcess

`phase` is where `main()` or `shutdown()` stands. `Import` is the transaction,
`Rename` what follows it, with a death or a failed rename in between. `Signal`,
`Drained`, `Closed` and `Stopped` are the steps of `shutdown()` in the order of
the code, `EightSeconds` and `ForcedExit` its two timers. The scheduler's tick
that `shutdown()` stops is in `Scheduler` (its `Crash`), the drain of the worker
in detail in `JobEngine`; here an item, a request and a page are a count each.

## 3. Runs

| Run | Shows | Distinct states |
| --- | --- | --- |
| `engine_one` | types, exclusive ownership of items, settled jobs, counters, delivery, receipts, attempts, permits, nothing starts that must not | 436 thousand |
| `engine_two` | refinement of `JobLedger`, every job settles | 131 thousand |
| `engine_wedged` | refutes `JobsSettle` with a breaker that trips | small |
| `engine_stale` | refutes "stale claims get requeued" | small |
| `scheduler` | jobs and rows agree, catch-up, due fires, sending moves on | 199 thousand |
| `send` | replays, audit, which results the cache holds | 1.7 million |
| `feed` | the page agrees with transport and table; a live client is shown | 342 thousand |
| `form` | buttons agree, one click is one request | 2 thousand |
| `chat` | thread and list agree with the conversations | 822 thousand |
| `sessions` | expiry, kept and ended sessions, lockout | 836 thousand |
| `process` | import once, clean exit, a shutdown ends | 8 thousand |
| `shutdown_open_page` | refutes the order of `docs/OPERATIONS.md:65` | small |

Bounds, and why they suffice.

- `engine_one`: one job with two interchangeable recipients, all six outcomes,
  two attempts, two permits, a breaker that trips after two failures, two
  process deaths. Two recipients give every race there is between an item and
  the settlement of its job by another; the second death exercises the recovery
  of what a recovery requeued. Answers that come after the breaker opened, and
  what a death inside `cancelJob` leaves, are among its behaviours.
- `engine_two`: two jobs with two and one recipients for two permits, so that a
  job waits for another's permit. No death and a breaker whose threshold is
  never reached: the runs that refute liveness have these, and with them
  `JobsSettle` is false. Without symmetry, because it is not sound for liveness.
- `engine_wedged` takes one attempt only: backoff is at most 9.6 s and the
  cooldown 30 s, so in reality a retry is always due again before the cooldown
  ends, while the model lets it come later; with one attempt there is no backoff
  and the trace is one the code really has.
- `scheduler`: two schedules, times 0 to 2, one-time or repeating every two
  units, one death. The catch-up loop runs once or twice and
  `repeat_end_at` falls before, at and after a run.
- `send`: two submissions of one bulk send under one key, a list send and a chat
  send, two recipients each, a TTL of two steps, one death. Two submissions under
  one key are what it takes to overlap, to replay, to repeat an aborted send and
  to meet an expired row; with a TTL of two steps the fresh row of the older
  one may keep the younger one's result out and expire before it.
- `feed`: one QR code, one schedule with two versions, three messages under way,
  started on the real transport and on the mock one. Ids are independent of each
  other, the list being atomic; three messages are an update, a removal and a
  state on one wire.
- `form`: two recipients, two requests of one button at a time.
- `chat`: a conversation of one message that may get a second, and one that a
  message begins; a search that finds the second only; two requests and two
  events under way. That is an answer for each of two chats, or two answers for
  the list, in either order, with an event before, between or after them.
- `sessions`: a session and its successor in the same browser, two requests at
  once, an idle timeout of one tick, an absolute one of two, a lockout at the
  first failure for two ticks. Each limit is reached, met exactly and passed; a
  session can expire by either before the other.
- `process`: two schedules in the file (an import has a middle), one of a user,
  two items, requests and pages (one ends, one stays).

Clocks stop at `MaxTime`, the wires hold `MaxWire`, codes, versions, messages,
requests and pages end at their bounds; each is a guard named after its
constant. Symmetry is used in runs without liveness only.

### Fairness

- `JobEngine.FairSpec`: the tick interval keeps firing (`setInterval`), a send is
  answered (the transport's `protocolTimeout`), leases, backoffs and the cooldown
  pass, a draining process exits (10 s forced exit) and a dead one is started
  again by its process manager. Requests, the kill switch, pauses and process
  deaths are never fair; `JobsSettle` assumes that the switch ends up off, the
  process up and the job not paused.
- `Scheduler.FairSpec`: ticks, time and restarts. `DueFires` assumes only that the
  transport is ready again and again, not for long: the tick on `ready` is what it
  rests on. Of the job engine nothing is assumed, since a job may stay open for
  ever (`engine_wedged`, `engine_stale`, a kill switch left on): `SendingMovesOn`
  is about the schedules none of whose jobs does.
- `LiveFeed.FairSpec`: the socket delivers and reconnects (Socket.IO), encodings
  and timers end, those of the mock transport included. `LiveIsShown` assumes a
  client that stays live and a socket that stays open; the mock client gets there
  by itself.
- `ServerProcess.FairSpec`: timers expire, callbacks come, requests end. Pages
  stay open as long as their users like, and nobody has to start or stop the
  process. `ShutdownEnds` rests on the forced exit alone.

`SendForm`, `ChatView`, `Sessions` and `DirectSend` have safety properties only.

## 4. Where code and documents disagree

Each is refuted by a run that checks one property; the trace shows the case.

1. **The breaker may wedge** (`engine_wedged`). `_tick()` calls `canAttempt()`
   before it knows whether there is an item. After the cooldown that call takes
   the half-open probe; with nothing to claim it returns, and the probe flag is
   never cleared. The worker claims nothing any more until a restart. A probe
   that ends in a permanent failure has the same effect: neither `recordSuccess`
   nor a transient `recordFailure` is called for it.
2. **A quick restart strands items** (`engine_stale`). Stale claims are recovered
   at startup only; leases of the dead process that have not expired by then are
   never looked at again.
3. **An open page keeps the transport from being shut down**
   (`shutdown_open_page`). `docs/OPERATIONS.md:65` has Socket.IO closed, then the
   transport, then the exit. The code calls `io.close()` in the callback of
   `server.close()`, which waits for the websockets as well; with a page open it
   never comes, and the forced exit ends the process with code 1 and neither
   call made. (The document also says that new connections are refused first;
   the code goes on listening during the eight seconds of the drain.)

Behaviours met on the way that no run refutes, since no property claims more
than the code does:

- `docs/RECOVERY.md:9` says `max_attempts` bounds the attempts after crashes as
  well. Recovery requeues whatever the count: each death allows one attempt
  more. That, and no more, is `AttemptsBounded`, proved below.
- `cancelJob` is two statements without a transaction: a death in between leaves
  a cancelled job with queued items, which are never claimed. A death after the
  last item's UPDATE and before `checkJobCompletion` leaves a job open all of
  whose items are terminal; nothing settles it later.
- A retryable answer that comes after a cancellation puts the item back to
  `queued`; it is never claimed, for its job is not QUEUED or RUNNING.
- Two overlapping requests with one idempotency key both send: the row is
  written by the response (`docs/OPERATIONS.md:60` says a repeat replays the
  original response).
- A bulk send whose connection drops after some rows answers 409 without an
  audit row or a cached response (`docs/THREAT_MODEL.md:54` says every privileged
  action is recorded); a repetition sends those rows again. `AnsweredSendIsAudited`
  names this case.
- The kill switch is read once, before the loop over the recipients of a direct
  send; what is left of the list is sent after it was turned on
  (`docs/OPERATIONS.md:59` says it blocks the send routes immediately).
- The ready timer outlives its connection: a client that disconnects within five
  seconds of its ready event is reported as ready again, a step the state machine
  of `README.md:114-117` does not have.
- A send the library reports as an error may have gone out. `DeliveredAtMostOnce`
  counts what it reports as sent and what a death cut off.
- The schedule's `delaySeconds` goes into the job's payload; the worker does not
  use it.
- `docs/RECOVERY.md` describes the catch-up as stepping and then firing. The code
  fires the overdue occurrence first and steps when its job has settled.
- A death after a job is settled and before `onJobSettled` swallows the callback;
  nothing repeats it and the row stays `sending` (`README.md:34` says scheduled
  sends survive restarts). `SendingHasJob` and `SendingMovesOn` name this case.
- A row in the way makes a success uncacheable (`ON CONFLICT DO NOTHING`): one that
  has expired and was not swept yet, or the fresh one of an older request that
  overlapped and expires first. The key then executes again although its last
  result is younger than five minutes. `RowsAreRecent` names these cases.
- While the transport is not ready, claimed items fail at once, so a short
  disconnection can use up all attempts of an item.
- The page asks for the list of schedules once. Changes made while its socket is
  closed, and changes that overtake the answer, do not show until a reload; after
  a refused list (`res.ok` is not looked at) every schedule event throws.
- Typing, a contact, a finished upload, or the bulk form's 150 ms preview timer
  enable a send button while its request is under way. A second click then sends
  again, under a key of its own; the per-click key of `docs/OPERATIONS.md:60`
  covers retries of one request, not this. `SecondRequestNeedsRedraw` says that
  nothing else makes a double submission possible.
- The answer for a chat opened earlier is shown under the chat open now; an
  answer wipes bubbles that events have appended since it was made, and an event
  doubles one that the answer already has. The thread is not read again on a
  reconnection; the list is, but without the search the box holds. `openChat`
  draws the list before it resets the unread count. A failed send shows its error
  in whatever thread is open by then, and the text is gone.
- Plain requests (the page, polls) keep a session's row alive but not its
  `lastActivityAt`, and write back the one they read: overlapping with a request
  that counts, they may make an active session look idle. A request under way at
  a logout inserts the row anew. A socket is authenticated when it opens and not
  again. Attempts made while locked out extend the lockout; a success clears
  nothing.
- One entry of `schedules.json` that cannot be inserted rolls the import back and
  ends the process, at every start (`lib/migrateSchedulesJson.js:4` says such a
  file is skipped). An import that was cut off before the rename is repeated when
  the table is empty again (`docs/OPERATIONS.md:61` says it only ever runs once),
  and brings removed schedules back; `MigratedOnce` names this case. Rows imported
  as `sending` stay so.

## 5. Proofs

Every invariant and every action property that a passing run checks is also a
theorem, and so is the refinement of the ledger; the liveness properties are not.

All proofs assume the named ASSUME of the module they are about
(`EngineAssumption`, `SchedulerAssumption`, `DirectSendAssumption`,
`TransportConnectionAssumption`, `LiveFeedAssumption`, `SendFormAssumption`,
`ChatViewAssumption`, `SessionsAssumption`, `ServerProcessAssumption`): items are
a finite set and each belongs to one job, placeholders are not among what they
stand in for, bounds and timeouts are natural numbers, positive where the code
has a positive constant, and a chat that has a message may have one.

**JobEngineProofs** has two inductive invariants, the second on top of the first,
and the refinement on top of both.

`IInv` carries `TypeCorrect`, `NeverProcessedTwiceAtOnce`, `PermitsBalance`,
`AttemptsLimited`, `AtMostOnceUnlessCrash`, `ReceiptsRecorded` and
`NothingStartsWhileStopped`. None is inductive by itself:

- `active` stays a natural number only if it counts the executions
  (`PermitsAccounted`);
- that a tick adds exactly as many as it starts needs that a claimable item is
  not in flight (`InFlightOwned`);
- that `createJob` cannot disturb this needs that an absent job has absent items
  (`AbsentTogether`), and that `Start` cannot needs that a process that is down
  holds nothing (`DownIsEmpty`);
- the bound on attempts needs a strict bound for every item that may be claimed
  again (`AttemptsToSpare`);
- that a recipient is not served twice needs that a send reported as sent is
  recorded as succeeded whatever became of its job (`NoLostReceipt`), and that
  succeeded items are never claimed.

The proof has a lemma for each group of actions (`RequestStep`, `TickStep`,
`FinishStep`, `ExitStartStep`, `CrashStep`, `CrashInTickStep`,
`CrashInFinishStep`), each with a step for each conjunct the action can disturb.
The effect of a process death on what was in flight is stated once (`DieEffect`).

`SettlementInv` carries `SettledForGood` and `CountersMatchItems`. That the status
of a settled job follows from its items needs that items are cancelled with
their job only (`CancelledTogether`). Most steps are a `QuietStep`: no item
enters or leaves a counted status and no job settles. Left are the two that end
an attempt for good, the end of `_processItem()` and its prefixes: there exactly
one item enters the status whose counter moves, or a death keeps the counter
where it was and is counted itself.

`RefinesLedger` is the refinement of `JobLedger`, step by step: the initial states
map to its initial state, and every action, and every prefix that a death leaves
of one, to `Create`, `Settle`, `SettleUntold`, `Cancel` or to a stutter. That the callback runs for
settled jobs only, and once, is what the mapping of the end of `_processItem()` has
to show: an answer that comes after its job settled or was cancelled settles nothing.

**SchedulerProofs**: `TypeCorrect`, `OneOpenJob`, `SendingIsWaiting` and the
action property `CatchesUpOnce`. That a tick creates no second job needs that
no job lies ahead of its row's occurrence (`NoJobAhead`), since the idempotency
key would otherwise find it; that a row moves on from a settled job only needs
that the occurrence of a waiting row is not over unless a death lost its callback
(`NotOverYet`), that a row says `sending` only once its occurrence has a job
(`SendingHasBegun`), and that only settled jobs call back (`ToldIsSettled`). The lemma `LoopLands` says of
the catch-up loop that it ends on the first instant of the grid after now.

**DirectSendProofs**: `TypeCorrect`, `ReplaysOnlyCompleted`, `SendsAreAudited`,
`RowsMatchResults`. A request that has not started has sent nothing
(`NewSentNothing`) and one answered with 200 went through its list (`DoneIsWhole`).
A row has such a request, of its age (`RowHasResult`), which gives the "only while"
of `RowsMatchResults` and what is replayed; for the other half, a request that is
not shadowed finds no row while it is at work (`UnshadowedFindsNoRow`), so that
its result is the row as long as the sweep leaves it (`UnshadowedIsRow`).

**LiveFeedProofs**: `CodeMatchesState` and `MockCodeMatchesState`, inductive
together with the types, for either transport by itself; `FeedTypes`,
`CodeIsCurrent`, `PageShowsState` and `PageMirrorsTable` of the whole. The two
transports are told apart by their client (`ConnInv`), so that a step of one is
never one of the other. Neither `ShownAgrees` nor `MirrorAgrees` is inductive,
since they speak of a page with nothing under way. The invariant says what is under
way: the last state on the wire is the transport's (`LastStateCurrent`), the last
event of each schedule has its version in the table (`LastRowCurrent`), the
answer under way is right about every schedule of which no event newer than it
is under way (`AnswerFits`), and so is the mirror later (`MirrorFits`).

**SendFormProofs**: `IdleAgrees` and `DoubleClickSendsOnce`. The second becomes
inductive with `EnabledAgain`: a button that is enabled while its own request is
under way has been set by another handler.

**ChatViewProofs**: `ChatTypes`, `ThreadIsHistory`, `ListIsCurrent`. The properties
speak of the events under way as a set of messages; that taking the first of
them and appending its bubble keeps the thread a history needs that those of a
chat are in order, that none is ahead of the store and that the last message of
the chat is among them (`WireInOrder`), so that the first event is the next
message the thread lacks. That the store runs ahead of a closed socket unseen
needs that such a socket carries nothing (`WireNeedsSocket`); that an answer
finds a chat open needs that a thread is only asked for by opening one
(`OpenedChat`); and the length of a thread needs to be bounded against the
events that are still to come (`BubblesFit`). The lemmas `NewMessageWire` and
`ReceiveWire` say what a message and its arrival leave of a thread the events
continue, `StillThread` and `ListUntouched` what all other steps keep.

**SessionsProofs**: `KeptWhileUsed`, `EndedForGood`, `SessionTypes`, and the action
property `NothingExpiredAccepted`. Nothing is accepted that is expired because no row and
no copy is ever younger than the session really is (`NeverAhead`), which every
write preserves whatever the order; a session in use is kept because a request
that is alone carries the truth (`AloneKnows`); an ended one is gone because
every request of it still under way is a straggler (`LateRequests`).
`ThrottleLimits` is about the login throttle: every wrong password that was
compared is one of the failures on record (`ThrottleInv`), of which `isLockedOut`
lets no more be added than the limit. That what a tick drops are the failures
past the window and no other is the lemma `YoungerKeeps`; it needs that
failures are on record in the order they happened.

**ServerProcessProofs**: `TypeCorrect`, `ImportsOnce`, `ExitsCleanly`. Between the
start and the rename the table holds exactly the file (`ImportWhole`), and a list
that is still to come has nothing in the table and nothing removed
(`NothingImportedYet`); an exit code belongs to a process that is down
(`ExitMeansDown`), closing begins drained or late (`DrainedOrLate`), and the
transport is shut down with nothing connected (`NothingConnected`).

Only model-checked: the liveness properties `JobsSettle`, `DueFires`,
`SendingMovesOn`, `LiveIsShown` and `ShutdownEnds`. They rest on fairness, that is
on ENABLED, which is out of the prover's reach. The refuted properties are
counterexamples of TLC and have no theorem either.

## 6. Not modelled

- Scripts, benchmarks and the mock transport's deterministic data: not part of
  the program that sends.
- Validation schemas, spreadsheet parsing and building, rate limits, RBAC, error
  mapping, logging, request ids, passwords, cookies and CSRF tokens: functions or
  library configuration without state that other steps depend on. Requests of
  the models are those they let pass.
- Contacts, the live log, the kill switch panel, and rendering.
- `disconnect()` of the transports: no route calls it.
- The `.catch` of `_tick()` (`worker.js:61`): an SQL statement, or `onJobSettled`,
  that throws after the await of `_processItem()`. It logs, releases the permit and
  leaves the item as it stood at the statement that threw.
- The handlers puppeteer may install for signals: external; a process they end
  is one of the deaths of `ServerProcess`.

## 7. Plan

What is left, most useful first:

1. The safety half of the liveness properties, as invariants to prove: that an
   open job always has an item some step of the worker, the clock or a recovery
   moves on, but for the causes `engine_wedged` and `engine_stale` name; the same
   of a schedule that says `sending` and of a process that is closing. What is
   left to fairness is then scheduling alone.
2. Two processes on one database: claiming under `BEGIN IMMEDIATE`. The program
   runs as one process; the claim is written so that two would be possible.
