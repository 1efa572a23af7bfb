------------------------------ MODULE Sessions -------------------------------
(***************************************************************************)
(* Signed-in sessions and the login throttle: lib/auth/sessionStore.js,    *)
(* lib/auth/middleware.js, routes/auth.js, and the session middleware as   *)
(* server.js configures it (external: express-session).                    *)
(*                                                                         *)
(* A request works on a copy of its row, made when it comes in; the whole  *)
(* copy is written back when its response ends, changed or not ("rolling").*)
(* Requests overlap.                                                       *)
(*                                                                         *)
(* Time.  Every instant is kept as its age, in ticks, and an age stops     *)
(* growing once it is past every limit it is compared with.  The limits    *)
(* are those of config/index.js and middleware.js in ticks.                *)
(***************************************************************************)
EXTENDS Naturals, Sequences, FiniteSets, Functions

CONSTANTS Sids,             \* session ids the server draws
          NoSid,            \* a browser without a session
          Slots,            \* bound: requests under way at once
          NoRequest,
          IdleTimeout, AbsoluteTimeout,
          Window, MaxFailures

Ages(limit) == 0..limit + 1

\* A request with its copy of the session.
Copies == [sid : Sids, api : BOOLEAN, alone : BOOLEAN,
           quiet : Ages(IdleTimeout), since : Ages(AbsoluteTimeout)]

ASSUME SessionsAssumption ==
    /\ NoSid \notin Sids
    /\ NoRequest \notin Copies
    /\ IdleTimeout \in Nat \ {0} /\ AbsoluteTimeout \in Nat \ {0}
    /\ Window \in Nat \ {0} /\ MaxFailures \in Nat \ {0}

VARIABLES
    rows,       \* the sessions table: age of lastActivityAt, of the login and
                \* of the last write, for every sid that has a row
    requests,   \* requests under way, with their copy of the session
    wrong,      \* failed rows of login_attempts within the window: ages of
    denied,     \* those whose password was compared, and of those locked out
    user,       \* history: "unknown", signed "in", or "out" again
    seen,       \* history: age of the last request that requireAuth let pass
    born,       \* history: age of the login
    mixed,      \* history: sids whose last writes overlapped or were cut off
    stragglers, \* history: sids with a request under way when they went out
    compared    \* history: wrong passwords compared within the window, by age

sessionVars  == <<rows, requests, user, seen, born, mixed, stragglers>>
throttleVars == <<wrong, denied, compared>>
vars == <<sessionVars, throttleVars>>

Older(age, limit) == IF age > limit THEN age ELSE age + 1

RequestsOf(s) == {q \in Slots : requests[q] # NoRequest /\ requests[q].sid = s}
Signed == {s \in Sids : user[s] # "unknown"}

Init ==
    /\ rows = <<>>
    /\ requests = [q \in Slots |-> NoRequest]
    /\ user = [s \in Sids |-> "unknown"]
    /\ seen = [s \in Sids |-> 0]
    /\ born = [s \in Sids |-> 0]
    /\ mixed = {}
    /\ stragglers = {}
    /\ wrong = <<>>
    /\ denied = <<>>
    /\ compared = <<>>

-----------------------------------------------------------------------------
(* The store.                                                              *)

\* get: a row whose expires_at lies in the past is not returned.
Valid(s) == s \in DOMAIN rows /\ rows[s].age <= IdleTimeout

\* Mutant of Write: touch extends the row that is there and keeps its data.
WriteExpiry(s, copy) ==
    rows' = IF s \in DOMAIN rows THEN [rows EXCEPT ![s].age = 0] ELSE rows

\* INSERT ... ON CONFLICT(sid) DO UPDATE.
With(table, s, row) == [t \in DOMAIN table \cup {s} |-> IF t = s THEN row ELSE table[t]]

\* set, and touch, which is set: expires_at is IdleTimeout from now.
Write(s, copy) ==
    rows' = With(rows, s, [quiet |-> copy.quiet, since |-> copy.since, age |-> 0])

Without(sids) == Restrict(rows, DOMAIN rows \ sids)

\* sweepExpiredSessions, every ten minutes.
Sweep ==
    /\ rows' = Without({s \in DOMAIN rows : rows[s].age > IdleTimeout})
    /\ UNCHANGED <<requests, user, seen, born, mixed, stragglers, throttleVars>>

\* destroy, with the bookkeeping of the history.
Destroy(s) ==
    /\ rows' = Without({s})
    /\ user' = IF s \in Sids THEN [user EXCEPT ![s] = "out"] ELSE user
    /\ stragglers' = IF s \in Sids /\ RequestsOf(s) # {} THEN stragglers \cup {s}
                                                       ELSE stragglers

-----------------------------------------------------------------------------
(* Requests.                                                               *)

\* requireAuth, of a row that get returned.
Expired(s) == rows[s].since > AbsoluteTimeout \/ rows[s].quiet > IdleTimeout

\* Request q of session s comes in with its copy; from now on no request of
\* this session that is under way is alone.
Enter(q, s, api, quiet) ==
    /\ requests[q] = NoRequest
    /\ requests' = [p \in Slots |->
           IF p = q THEN [sid |-> s, api |-> api, quiet |-> quiet, since |-> rows[s].since,
                          alone |-> RequestsOf(s) = {}]
           ELSE IF p \in RequestsOf(s) THEN [requests[p] EXCEPT !.alone = FALSE]
           ELSE requests[p]]

\* A request behind requireAuth: lastActivityAt of the copy is now.
Accept(q, s) ==
    /\ Valid(s) /\ ~Expired(s)
    /\ Enter(q, s, TRUE, 0)
    /\ seen' = [seen EXCEPT ![s] = 0]
    /\ UNCHANGED <<rows, user, born, mixed, stragglers, throttleVars>>

Refuse(s) ==
    /\ Valid(s) /\ Expired(s)
    /\ Destroy(s)
    /\ UNCHANGED <<requests, seen, born, mixed, throttleVars>>

\* Mutant of Plain: page loads and polls count as activity.
PlainActive(q, s) ==
    /\ Valid(s)
    /\ Enter(q, s, FALSE, 0)
    /\ UNCHANGED <<rows, user, seen, born, mixed, stragglers, throttleVars>>

\* A request that is not: the page, a static file, a poll of Socket.IO.
Plain(q, s) ==
    /\ Valid(s)
    /\ Enter(q, s, FALSE, rows[s].quiet)
    /\ UNCHANGED <<rows, user, seen, born, mixed, stragglers, throttleVars>>

\* The response ends: the copy becomes the row.
End(q) ==
    /\ requests[q] # NoRequest
    /\ LET r == requests[q]
       IN  /\ Write(r.sid, r)
           /\ mixed' = IF ~r.alone THEN mixed \cup {r.sid}
                       ELSE IF r.api THEN mixed \ {r.sid} ELSE mixed
    /\ requests' = [requests EXCEPT ![q] = NoRequest]
    /\ UNCHANGED <<user, seen, born, stragglers, throttleVars>>

\* Mutant of Logout: only the cookie is cleared.
LogoutCookie(s) ==
    /\ Valid(s) /\ ~Expired(s)
    /\ user' = [user EXCEPT ![s] = "out"]
    /\ UNCHANGED <<rows, stragglers, requests, seen, born, mixed, throttleVars>>

\* POST /logout, in one turn of the event loop.
Logout(s) ==
    /\ Valid(s) /\ ~Expired(s)
    /\ Destroy(s)
    /\ UNCHANGED <<requests, seen, born, mixed, throttleVars>>

-----------------------------------------------------------------------------
(* POST /login, in one turn of the event loop.                             *)

\* Mutant of LockedOut: one failure more is let pass.
LockedOutBeyond == Len(wrong) + Len(denied) > MaxFailures

\* isLockedOut: the rows younger than the window.
LockedOut == Len(wrong) + Len(denied) >= MaxFailures

\* Locked out: recorded as one more failure.  Of these the MaxFailures
\* youngest decide; older ones are not kept here.
LockedAttempt ==
    /\ LockedOut
    /\ denied' = Append(IF Len(denied) = MaxFailures THEN Tail(denied) ELSE denied, 0)
    /\ UNCHANGED <<sessionVars, wrong, compared>>

WrongPassword ==
    /\ ~LockedOut
    /\ wrong' = Append(wrong, 0)
    /\ compared' = Append(compared, 0)
    /\ UNCHANGED <<sessionVars, denied>>

\* regenerateSession destroys the session the browser came with, if any; the
\* new one is written as the response ends.  Failures stay on record.
Login(old, s) ==
    /\ ~LockedOut
    /\ user[s] = "unknown"
    /\ rows' = With(Without({old}), s, [quiet |-> 0, since |-> 0, age |-> 0])
    /\ user' = [t \in Sids |-> IF t = s THEN "in" ELSE IF t = old THEN "out" ELSE user[t]]
    /\ stragglers' = IF old \in Sids /\ RequestsOf(old) # {} THEN stragglers \cup {old}
                                                           ELSE stragglers
    /\ seen' = [seen EXCEPT ![s] = 0]
    /\ born' = [born EXCEPT ![s] = 0]
    /\ UNCHANGED <<requests, mixed, throttleVars>>

-----------------------------------------------------------------------------
(* Time and the process.                                                   *)

AgeAll(ages) == [i \in DOMAIN ages |-> ages[i] + 1]

\* Of ages in the order of their events, the oldest first, those below limit.
Younger(ages, limit) ==
    SubSeq(ages, Cardinality({i \in DOMAIN ages : ages[i] >= limit}) + 1, Len(ages))

\* Mutant of Recent: what failed almost a window ago no longer counts.
RecentButOldest(ages) == Younger(ages, Window - 1)

\* The rows that recentFailuresStmt counts, ts > now - WINDOW_MS.
Recent(ages) == Younger(ages, Window)

\* Ages of an activity, of a login.
Quieter(r) == [r EXCEPT !.quiet = Older(@, IdleTimeout), !.since = Older(@, AbsoluteTimeout)]

\* A session that is over and left nothing behind has no history.
Present == {s \in Sids : user[s] = "in" \/ s \in DOMAIN rows \/ RequestsOf(s) # {}}

Tick ==
    /\ rows' = [s \in DOMAIN rows |-> [Quieter(rows[s]) EXCEPT !.age = Older(@, IdleTimeout)]]
    /\ requests' = [q \in Slots |-> IF requests[q] = NoRequest THEN NoRequest
                                    ELSE Quieter(requests[q])]
    /\ seen' = [s \in Sids |-> IF s \in Present THEN Older(seen[s], IdleTimeout) ELSE 0]
    /\ born' = [s \in Sids |-> IF s \in Present THEN Older(born[s], AbsoluteTimeout) ELSE 0]
    /\ wrong' = Recent(AgeAll(wrong))
    /\ denied' = Recent(AgeAll(denied))
    /\ compared' = Younger(AgeAll(compared), Window)
    /\ UNCHANGED <<user, mixed, stragglers>>

\* The process dies and is restarted: requests are cut off, tables survive.
Crash ==
    /\ \E q \in Slots : requests[q] # NoRequest
    /\ requests' = [q \in Slots |-> NoRequest]
    /\ mixed' = mixed \cup {s \in Sids : RequestsOf(s) # {}}
    /\ UNCHANGED <<rows, user, seen, born, stragglers, throttleVars>>

-----------------------------------------------------------------------------
Request == \E s \in Signed :
              \/ \E q \in Slots : Accept(q, s) \/ Plain(q, s)
              \/ Refuse(s) \/ Logout(s)
Attempt == \/ LockedAttempt \/ WrongPassword
           \/ \E s \in Sids, old \in Signed \cup {NoSid} : Login(old, s)

Next == Request \/ Attempt \/ Sweep \/ Tick \/ Crash \/ \E q \in Slots : End(q)

Spec == Init /\ [][Next]_vars

-----------------------------------------------------------------------------
(* Properties.                                                             *)

Rows == [quiet : Ages(IdleTimeout), since : Ages(AbsoluteTimeout), age : Ages(IdleTimeout)]

TypeOK ==
    /\ DOMAIN rows \subseteq Signed
    /\ \A s \in DOMAIN rows : rows[s] \in Rows
    /\ \A q \in Slots : \/ requests[q] = NoRequest
                        \/ requests[q] \in Copies /\ requests[q].sid \in Signed
    /\ wrong \in Seq(0..Window - 1) /\ Len(wrong) <= MaxFailures
    /\ denied \in Seq(0..Window - 1) /\ Len(denied) <= MaxFailures
    /\ compared \in Seq(0..Window - 1)
    /\ user \in [Sids -> {"unknown", "in", "out"}]
    /\ seen \in [Sids -> Ages(IdleTimeout)]
    /\ born \in [Sids -> Ages(AbsoluteTimeout)]
    /\ mixed \subseteq Sids /\ stragglers \subseteq Sids

\* No request is let through for a session that was quiet for longer than the
\* idle timeout or began longer ago than the absolute one: copies written back
\* late, page loads and polls, sweeps and restarts keep no session going.
OnlyActiveAccepted ==
    [][\A q \in Slots, s \in Sids :
         requests[q] = NoRequest /\ requests'[q] # NoRequest
           /\ requests'[q].sid = s /\ requests'[q].api
         => seen[s] <= IdleTimeout /\ born[s] <= AbsoluteTimeout]_vars

\* A session used within the idle timeout is there, and knows when it was last
\* used, whatever plain requests, sweeps and restarts came since; only while
\* a request of it is under way, after requests of it overlapped, or after a
\* death cut one off, it may be refused as idle too early.
ActiveIsKept ==
    \A s \in Sids :
        user[s] = "in" /\ RequestsOf(s) = {} /\ s \notin mixed /\ seen[s] <= IdleTimeout
            => Valid(s) /\ rows[s].quiet = seen[s]

\* A session that ended, by logout, by a new login of its browser or by
\* expiry, does not come back, unless one of its requests was under way at
\* that moment: the end of that request inserts the row anew.
EndedStaysEnded ==
    \A s \in DOMAIN rows : user[s] = "out" => s \in stragglers

\* However attempts, restarts and the passing of time interleave, no more than
\* MaxFailures wrong passwords are compared within a window.
ChecksLimited == Len(compared) <= MaxFailures
=============================================================================
