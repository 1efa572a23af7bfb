----------------------------- MODULE DirectSend -----------------------------
(***************************************************************************)
(* The send routes that work while the client waits (routes/messaging.js,  *)
(* routes/bulk.js, routes/chats.js), with the two middlewares in front of  *)
(* them: the kill switch (lib/killSwitch.js) and the idempotency cache     *)
(* (lib/idempotency.js).  Requests are concurrent: each gives way to the   *)
(* others at every await, that is between two recipients.                  *)
(*                                                                         *)
(* Time passes in steps of its own, TTL of which are the five minutes of   *)
(* lib/idempotency.js.  A request and a row have an age instead of the     *)
(* instants created_at and expires_at; no difference beyond the TTL is     *)
(* told apart.  Sessions, permissions, rate limits and validation let the  *)
(* modelled requests pass.                                                 *)
(***************************************************************************)
EXTENDS Naturals, FiniteSets

CONSTANTS Requests,     \* the HTTP requests
          Keys,         \* composite keys: a route and an Idempotency-Key header
          NoKey,        \* a request without that header
          RouteOf,      \* the route of a request
          KeyOf,        \* its <route>:<key>, or NoKey
          Recipients,   \* how many recipients a list route is given
          TTL,          \* steps of the clock in TTL_MS
          MaxCrashes    \* bound: process deaths in one behaviour

Routes == {"list", "bulk", "chat"}   \* /send and /send-groups are "list"

ASSUME DirectSendAssumption ==
    /\ NoKey \notin Keys
    /\ RouteOf \in [Requests -> Routes]
    /\ KeyOf \in [Requests -> Keys \cup {NoKey}]
    /\ \A r \in Requests : RouteOf[r] = "chat" => KeyOf[r] = NoKey
    /\ \A q, r \in Requests : KeyOf[q] = KeyOf[r] /\ KeyOf[r] # NoKey => RouteOf[q] = RouteOf[r]
    /\ Recipients \in Nat \ {0}
    /\ TTL \in Nat \ {0}
    /\ MaxCrashes \in Nat

VARIABLES
    pc,         \* of a request: "new", "sending", "answered", "lost"
    reply,      \* the status of its response; "replay" for a cached one
    left,       \* recipients it has still to go through
    sends,      \* sends it handed to the transport
    age,        \* time since a request with a key came in
    audited,    \* requests with a row in audit_log
    rows,       \* idempotency_keys: keys with a row
    rowAge,     \* time since created_at of a row
    disabled,   \* settings.outbound_disabled
    ready,      \* transport.getConnectionState() = 'ready'
    shadowed,   \* history: requests whose key had a row when they came in, or
                \* another request of which was answered during their own
    crashes     \* history: process deaths so far

vars == <<pc, reply, left, sends, age, audited, rows, rowAge, disabled, ready, shadowed, crashes>>
cache == <<age, rows, rowAge, shadowed>>

Total(r) == IF RouteOf[r] = "chat" THEN 1 ELSE Recipients
Running == {r \in Requests : pc[r] = "sending"}

Init ==
    /\ pc = [r \in Requests |-> "new"]
    /\ reply = [r \in Requests |-> "none"]
    /\ left = [r \in Requests |-> Total(r)]
    /\ sends = [r \in Requests |-> 0]
    /\ age = [r \in Requests |-> 0]
    /\ audited = {}
    /\ rows = {}
    /\ rowAge = [k \in Keys |-> 0]
    /\ disabled = FALSE
    /\ ready = TRUE
    /\ shadowed = {}
    /\ crashes = 0

Answer(r, s) == /\ pc' = [pc EXCEPT ![r] = "answered"]
                /\ reply' = [reply EXCEPT ![r] = s]

-----------------------------------------------------------------------------
(* A request comes in: the callback runs up to the first await.            *)

\* A row of the key that has not expired: expires_at > now.
Fresh(k) == k \in rows /\ rowAge[k] < TTL

IsCached(r) == KeyOf[r] # NoKey /\ Fresh(KeyOf[r])

\* requireOutboundEnabled comes before everything else.
Locked(r) ==
    /\ pc[r] = "new"
    /\ disabled
    /\ Answer(r, "423")
    /\ UNCHANGED <<left, sends, audited, cache, disabled, ready, crashes>>

Replay(r) ==
    /\ pc[r] = "new"
    /\ ~disabled
    /\ IsCached(r)
    /\ Answer(r, "replay")
    /\ UNCHANGED <<left, sends, audited, cache, disabled, ready, crashes>>

\* sendToNumbers, sendToGroups and sendChatMessage ask once, on entry; the
\* loop of /send-bulk calls the transport anew for every row.
MayEnter(r) == RouteOf[r] = "bulk" \/ ready

\* Mutant of Enter: the row of the key is written before the work is done.
EnterReserving(r) ==
    /\ pc[r] = "new"
    /\ ~disabled
    /\ ~IsCached(r)
    /\ MayEnter(r)
    /\ pc' = [pc EXCEPT ![r] = "sending"]
    /\ rows' = rows \cup ({KeyOf[r]} \ {NoKey})
    /\ UNCHANGED <<reply, left, sends, age, audited, rowAge, disabled, ready, shadowed, crashes>>

\* An expired row of the key that was not swept yet is not looked at.
Enter(r) ==
    /\ pc[r] = "new"
    /\ ~disabled
    /\ ~IsCached(r)
    /\ IF MayEnter(r) THEN pc' = [pc EXCEPT ![r] = "sending"] /\ UNCHANGED reply
                      ELSE Answer(r, "409")
    /\ shadowed' = IF MayEnter(r) /\ KeyOf[r] \in rows THEN shadowed \cup {r} ELSE shadowed
    /\ UNCHANGED <<left, sends, age, audited, rows, rowAge, disabled, ready, crashes>>

-----------------------------------------------------------------------------
(* A request at work.                                                      *)

\* Mutant of SendOne: the loop does not end with the list.
SendOneMore(r) ==
    /\ pc[r] = "sending"
    /\ left' = [left EXCEPT ![r] = @ - 1]
    /\ sends' = [sends EXCEPT ![r] = @ + 1]
    /\ UNCHANGED <<pc, reply, audited, cache, disabled, ready, crashes>>

\* One recipient, its failure being an entry of the results.  In /send-bulk a
\* row without number or message is skipped, the others ask the transport.
SendOne(r) ==
    /\ pc[r] = "sending"
    /\ left[r] > 0
    /\ RouteOf[r] = "bulk" => ready
    /\ left' = [left EXCEPT ![r] = @ - 1]
    /\ sends' = [sends EXCEPT ![r] = @ + 1]
    /\ UNCHANGED <<pc, reply, audited, cache, disabled, ready, crashes>>

SkipOne(r) ==
    /\ pc[r] = "sending"
    /\ left[r] > 0
    /\ RouteOf[r] = "bulk"
    /\ left' = [left EXCEPT ![r] = @ - 1]
    /\ UNCHANGED <<pc, reply, sends, audited, cache, disabled, ready, crashes>>

\* Mutant of Abort: every route asks the transport for every recipient.
AbortAny(r) ==
    /\ pc[r] = "sending"
    /\ left[r] > 0
    /\ ~ready
    /\ Answer(r, "409")
    /\ UNCHANGED <<left, sends, audited, cache, disabled, ready, crashes>>

\* /send-bulk: TransportNotReadyError for a later row ends the request.
Abort(r) ==
    /\ pc[r] = "sending"
    /\ left[r] > 0
    /\ RouteOf[r] = "bulk"
    /\ ~ready
    /\ Answer(r, "409")
    /\ UNCHANGED <<left, sends, audited, cache, disabled, ready, crashes>>

\* The INSERT of the wrapped res.json() finds no row of the key.
Stores(r) == KeyOf[r] \in Keys \ rows

\* Mutant of CacheAfter: the TTL is counted from the response.
CacheAfterFresh(r) ==
    /\ rows' = IF Stores(r) THEN rows \cup {KeyOf[r]} ELSE rows
    /\ rowAge' = rowAge

\* INSERT ... ON CONFLICT(key) DO NOTHING, created when the request came in.
CacheAfter(r) ==
    /\ rows' = IF Stores(r) THEN rows \cup {KeyOf[r]} ELSE rows
    /\ rowAge' = IF Stores(r) THEN [rowAge EXCEPT ![KeyOf[r]] = age[r]] ELSE rowAge

\* Other requests with the key of r that are under way.
Overlapping(r) == {q \in Running \ {r} : KeyOf[q] = KeyOf[r] /\ KeyOf[q] # NoKey}

\* recordAudit and res.json at the end of the route.
Succeed(r) ==
    /\ pc[r] = "sending"
    /\ left[r] = 0
    /\ audited' = audited \cup {r}
    /\ Answer(r, "200")
    /\ CacheAfter(r)
    /\ shadowed' = shadowed \cup Overlapping(r)
    /\ UNCHANGED <<left, sends, age, disabled, ready, crashes>>

\* sendChatMessage rejects: audited as a failure, answered by errorHandler.
Fail(r) ==
    /\ pc[r] = "sending"
    /\ RouteOf[r] = "chat"
    /\ left[r] = 0
    /\ audited' = audited \cup {r}
    /\ Answer(r, "500")
    /\ UNCHANGED <<left, sends, cache, disabled, ready, crashes>>

-----------------------------------------------------------------------------
(* Around the requests.                                                    *)

SetKillSwitch ==
    /\ disabled' = ~disabled
    /\ UNCHANGED <<pc, reply, left, sends, audited, cache, ready, crashes>>

ConnectionChange ==
    /\ ready' = ~ready
    /\ UNCHANGED <<pc, reply, left, sends, audited, cache, disabled, crashes>>

Older(a) == IF a > TTL THEN a ELSE a + 1

\* Requests whose time of arrival still matters: for their row, or history.
Timed == {r \in Requests : KeyOf[r] # NoKey /\ (pc[r] = "sending" \/ reply[r] = "200")}

TimePasses ==
    /\ age' = [r \in Requests |-> IF r \in Timed THEN Older(age[r]) ELSE age[r]]
    /\ rowAge' = [k \in Keys |-> IF k \in rows THEN Older(rowAge[k]) ELSE rowAge[k]]
    /\ UNCHANGED <<pc, reply, left, sends, audited, rows, disabled, ready, shadowed, crashes>>

\* sweepExpiredIdempotencyKeys, every ten minutes: expires_at < now.
Sweep ==
    /\ rows' = {k \in rows : rowAge[k] <= TTL}
    /\ rowAge' = [k \in Keys |-> IF k \in rows' THEN rowAge[k] ELSE 0]
    /\ UNCHANGED <<pc, reply, left, sends, age, audited, disabled, ready, shadowed, crashes>>

\* The process dies and is restarted; only the database survives.
Crash ==
    /\ crashes < MaxCrashes
    /\ crashes' = crashes + 1
    /\ pc' = [r \in Requests |-> IF r \in Running THEN "lost" ELSE pc[r]]
    /\ ready' = FALSE
    /\ UNCHANGED <<reply, left, sends, audited, cache, disabled>>

Receive(r) == Locked(r) \/ Replay(r) \/ Enter(r)
Work(r) == SendOne(r) \/ SkipOne(r) \/ Abort(r) \/ Succeed(r) \/ Fail(r)

Next == \/ \E r \in Requests : Receive(r) \/ Work(r)
        \/ SetKillSwitch \/ ConnectionChange
        \/ TimePasses \/ Sweep
        \/ Crash

Spec == Init /\ [][Next]_vars

-----------------------------------------------------------------------------
(* Properties.                                                             *)

TypeOK ==
    /\ pc \in [Requests -> {"new", "sending", "answered", "lost"}]
    /\ reply \in [Requests -> {"none", "200", "replay", "423", "409", "500"}]
    /\ left \in [Requests -> Nat]
    /\ sends \in [Requests -> Nat]
    /\ age \in [Requests -> 0..TTL + 1]
    /\ audited \in SUBSET Requests
    /\ rows \in SUBSET Keys
    /\ rowAge \in [Keys -> 0..TTL + 1]
    /\ disabled \in BOOLEAN
    /\ ready \in BOOLEAN
    /\ shadowed \in SUBSET Requests
    /\ crashes \in Nat

\* A replayed response is that of a request with the same key that ran to its
\* end: every recipient was gone through and the send is in the audit log.
\* An aborted or crashed request is never taken for a sent one.
ReplayIsOfCompleted ==
    \A r \in Requests : reply[r] = "replay" =>
        \E q \in Requests : /\ KeyOf[q] = KeyOf[r]
                            /\ reply[q] = "200"
                            /\ left[q] = 0
                            /\ q \in audited

\* What a route hands to the transport is in the audit log by the time it
\* answers, whatever the connection, the kill switch or a process death did
\* meanwhile.  The one exception is a bulk send that loses the connection for
\* one of its rows: it answers 409, and what it sent before is on no record.
AnsweredSendIsAudited ==
    \A r \in Requests : pc[r] = "answered" /\ sends[r] > 0 =>
        \/ r \in audited
        \/ RouteOf[r] = "bulk" /\ reply[r] = "409" /\ left[r] > 0

\* Results that were asked for less than a TTL ago.
Recent(k) == {r \in Requests : KeyOf[r] = k /\ reply[r] = "200" /\ age[r] < TTL}

\* A key is replayed only while one of its results is younger than the TTL: no
\* old one is, neither after a slow request nor after a restart.  And as long
\* as there is a result younger than the TTL the key is replayed: no sweep,
\* restart or later request takes a result away before its time.  Only results
\* of two kinds may go without: those whose request came in while a row of its
\* key was waiting for the sweep, and those of a request that overlapped
\* another one of its key, whose older row keeps the INSERT away and expires
\* first.
RowsAreRecent ==
    \A k \in Keys : /\ Fresh(k) => Recent(k) # {}
                    /\ Fresh(k) \/ Recent(k) \subseteq shadowed
=============================================================================
