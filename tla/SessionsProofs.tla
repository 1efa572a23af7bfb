---------------------------- MODULE SessionsProofs ----------------------------
(***************************************************************************)
(* The safety of signed-in sessions, for any number of sessions and of     *)
(* overlapping requests and for any timeouts, and of the login throttle,   *)
(* for any window and number of failures.  The two share no state but the  *)
(* lock, so each has an invariant of its own.                              *)
(***************************************************************************)
EXTENDS Sessions, FiniteSetTheorems, SequenceTheorems, TLAPS

\* The session half of TypeOK.
SessionTypeOK ==
    /\ DOMAIN rows \subseteq Signed
    /\ \A s \in DOMAIN rows : rows[s] \in Rows
    /\ requests \in [Slots -> Copies \cup {NoRequest}]
    /\ \A q \in Slots : requests[q] # NoRequest => requests[q].sid \in Signed
    /\ user \in [Sids -> {"unknown", "in", "out"}]
    /\ seen \in [Sids -> Ages(IdleTimeout)]
    /\ born \in [Sids -> Ages(AbsoluteTimeout)]
    /\ mixed \subseteq Sids

\* No row and no copy says that its session was used later than it was, or
\* that it began later; a row was written no earlier than it was used.
NeverAhead ==
    /\ \A s \in DOMAIN rows : /\ seen[s] <= rows[s].quiet
                              /\ born[s] <= rows[s].since
                              /\ rows[s].age <= rows[s].quiet
    /\ \A q \in Slots : requests[q] # NoRequest =>
          /\ seen[requests[q].sid] <= requests[q].quiet
          /\ born[requests[q].sid] <= requests[q].since

\* A request that is alone knows when its session was last used, unless it is
\* a plain one of a session whose row does not know either.
AloneKnows ==
    \A q \in Slots : \A s \in Sids :
        requests[q] # NoRequest /\ requests[q].sid = s /\ requests[q].alone =>
            /\ \A p \in Slots : requests[p] # NoRequest /\ requests[p].sid = s => p = q
            /\ user[s] = "in" /\ seen[s] <= IdleTimeout /\ (requests[q].api \/ s \notin mixed)
                  => requests[q].quiet = seen[s]

\* A request of a session that ended was under way at that moment.
LateRequests ==
    \A q \in Slots :
        requests[q] # NoRequest /\ user[requests[q].sid] = "out"
            => requests[q].sid \in stragglers

IInv == SessionTypeOK /\ NeverAhead /\ ActiveIsKept /\ AloneKnows
        /\ EndedStaysEnded /\ LateRequests

-----------------------------------------------------------------------------
(* The operators of the model.                                             *)

LEMMA Limits == IdleTimeout \in Nat /\ AbsoluteTimeout \in Nat /\ NoSid \notin Sids
BY SessionsAssumption

\* Time brings no age past another.
LEMMA OlderIsMonotone ==
    ASSUME NEW limit \in Nat, NEW a \in Ages(limit), NEW b \in Ages(limit)
    PROVE  /\ Older(a, limit) \in Ages(limit)
           /\ a <= b => Older(a, limit) <= Older(b, limit)
           /\ a <= Older(a, limit)
BY DEF Older, Ages

LEMMA WithoutEffect ==
    ASSUME NEW S
    PROVE  /\ DOMAIN Without(S) = DOMAIN rows \ S
           /\ \A t \in DOMAIN rows \ S : Without(S)[t] = rows[t]
BY DEF Without, Restrict

\* Who comes in, and what that does to the other requests of its session.
LEMMA EnterEffect ==
    ASSUME IInv, NEW q \in Slots, NEW s \in DOMAIN rows, NEW api \in BOOLEAN,
           NEW n \in Ages(IdleTimeout), Enter(q, s, api, n)
    PROVE  /\ requests[q] = NoRequest
           /\ requests' \in [Slots -> Copies \cup {NoRequest}]
           /\ requests'[q] # NoRequest /\ requests'[q].sid = s /\ requests'[q].api = api
           /\ requests'[q].quiet = n /\ requests'[q].since = rows[s].since
           /\ requests'[q].alone => \A p \in Slots : requests[p] = NoRequest
                                                       \/ requests[p].sid # s
           /\ \A p \in Slots \ {q} :
                 \/ requests'[p] = requests[p]
                    /\ (requests[p] = NoRequest \/ requests[p].sid # s)
                 \/ /\ requests[p] # NoRequest /\ requests'[p] # NoRequest
                    /\ requests[p].sid = s /\ requests'[p].sid = s
                    /\ ~requests'[p].alone
                    /\ requests'[p].api = requests[p].api
                    /\ requests'[p].quiet = requests[p].quiet
                    /\ requests'[p].since = requests[p].since
<1> DEFINE new == [sid |-> s, api |-> api, quiet |-> n, since |-> rows[s].since,
                   alone |-> RequestsOf(s) = {}]
<1>1. new \in Copies
  BY DEF Copies, IInv, SessionTypeOK, Rows, Signed
<1>2. new # NoRequest
  BY <1>1, SessionsAssumption
<1>3. requests'[q] = new /\ requests[q] = NoRequest
  <2> HIDE DEF RequestsOf
  <2> QED BY DEF Enter
<1>4. ASSUME NEW p \in Slots, p # q, p \in RequestsOf(s)
      PROVE  /\ requests[p] \in Copies /\ requests[p].sid = s
             /\ requests'[p] \in Copies /\ requests'[p] # NoRequest
             /\ requests'[p] = [requests[p] EXCEPT !.alone = FALSE]
  <2>1. requests[p] \in Copies /\ requests[p].sid = s
    BY <1>4 DEF RequestsOf, IInv, SessionTypeOK
  <2>2. requests'[p] = [requests[p] EXCEPT !.alone = FALSE]
    BY <1>4 DEF Enter
  <2>3. requests'[p] \in Copies
    BY <2>1, <2>2 DEF Copies
  <2> QED BY <2>1, <2>2, <2>3, SessionsAssumption
<1>5. \A p \in Slots \ {q} : p \notin RequestsOf(s) => requests'[p] = requests[p]
  BY DEF Enter
<1>6. requests' \in [Slots -> Copies \cup {NoRequest}]
  <2>1. \A p \in Slots : requests'[p] \in Copies \cup {NoRequest}
    BY <1>1, <1>3, <1>4, <1>5 DEF IInv, SessionTypeOK
  <2>2. requests' = [p \in Slots |-> requests'[p]]
    BY DEF Enter
  <2> QED BY <2>1, <2>2
<1>7. requests'[q].alone => \A p \in Slots : requests[p] = NoRequest \/ requests[p].sid # s
  <2>1. CASE RequestsOf(s) = {}
    BY <2>1 DEF RequestsOf
  <2>2. CASE RequestsOf(s) # {}
    <3>1. new.alone = FALSE
      BY <2>2
    <3> QED BY <3>1, <1>3
  <2> QED BY <2>1, <2>2
<1>8. \A p \in Slots \ {q} : p \in RequestsOf(s) =>
         /\ requests[p] # NoRequest /\ requests'[p] # NoRequest
         /\ requests[p].sid = s /\ requests'[p].sid = s
         /\ ~requests'[p].alone
         /\ requests'[p].api = requests[p].api
         /\ requests'[p].quiet = requests[p].quiet
         /\ requests'[p].since = requests[p].since
  <2> SUFFICES ASSUME NEW p \in Slots, p # q, p \in RequestsOf(s)
               PROVE  /\ requests[p] # NoRequest /\ requests'[p] # NoRequest
                      /\ requests[p].sid = s /\ requests'[p].sid = s
                      /\ ~requests'[p].alone
                      /\ requests'[p].api = requests[p].api
                      /\ requests'[p].quiet = requests[p].quiet
                      /\ requests'[p].since = requests[p].since
    OBVIOUS
  <2> DEFINE old == requests[p]
  <2>1. old \in Copies /\ old.sid = s /\ requests'[p] = [old EXCEPT !.alone = FALSE]
        /\ requests'[p] # NoRequest
    BY <1>4
  <2> HIDE DEF old
  <2>2. /\ requests'[p].sid = s /\ requests'[p].alone = FALSE
        /\ requests'[p].api = old.api /\ requests'[p].quiet = old.quiet
        /\ requests'[p].since = old.since
    BY <2>1 DEF Copies
  <2> QED BY <2>1, <2>2, SessionsAssumption DEF old
<1>9. \A p \in Slots : p \notin RequestsOf(s) => requests[p] = NoRequest \/ requests[p].sid # s
  BY DEF RequestsOf
<1> QED BY <1>2, <1>3, <1>5, <1>6, <1>7, <1>8, <1>9

-----------------------------------------------------------------------------
(* The steps.                                                              *)

LEMMA InvHoldsInitially == Init => IInv
<1> SUFFICES ASSUME Init PROVE IInv
  OBVIOUS
<1>1. DOMAIN rows = {}
  BY DEF Init
<1>2. SessionTypeOK
  BY <1>1, Limits DEF Init, SessionTypeOK, Ages
<1>3. NeverAhead /\ AloneKnows /\ EndedStaysEnded /\ LateRequests
  BY <1>1 DEF Init, NeverAhead, AloneKnows, EndedStaysEnded, LateRequests
<1>4. ActiveIsKept
  BY DEF Init, ActiveIsKept
<1> QED BY <1>2, <1>3, <1>4 DEF IInv

\* What a request does that is let in, behind requireAuth or not: it brings
\* the time of its own use, or that of the row.
LEMMA EnterStep ==
    ASSUME IInv, NEW q \in Slots, NEW s \in DOMAIN rows, NEW api \in BOOLEAN,
           NEW n \in Ages(IdleTimeout), Enter(q, s, api, n),
           UNCHANGED <<rows, user, born, mixed, stragglers>>,
           seen' \in [Sids -> Ages(IdleTimeout)],
           \A t \in Sids : t # s => seen'[t] = seen[t],
           seen'[s] <= seen[s], seen'[s] <= n,
           (/\ user[s] = "in" /\ seen'[s] <= IdleTimeout
            /\ \A p \in Slots : requests[p] = NoRequest \/ requests[p].sid # s
            /\ api \/ s \notin mixed) => n = seen'[s]
    PROVE  IInv'
<1>1. /\ s \in Sids /\ s \in Signed /\ rows[s] \in Rows
      /\ \A t \in DOMAIN rows : t \in Sids /\ rows[t] \in Rows
      /\ \A p \in Slots : requests[p] # NoRequest =>
            /\ requests[p] \in Copies /\ requests[p].sid \in Sids
            /\ requests[p].quiet \in Ages(IdleTimeout)
            /\ requests[p].since \in Ages(AbsoluteTimeout)
  BY DEF IInv, SessionTypeOK, Signed, Copies
<1>2. SessionTypeOK'
  <2>1. \A p \in Slots : requests'[p] # NoRequest => requests'[p].sid \in Signed
    BY EnterEffect, <1>1 DEF IInv, SessionTypeOK
  <2> QED BY <2>1, EnterEffect DEF IInv, SessionTypeOK, Signed
<1>3. NeverAhead'
  <2>1. ASSUME NEW t \in DOMAIN rows
        PROVE  seen'[t] <= rows[t].quiet /\ born[t] <= rows[t].since
               /\ rows[t].age <= rows[t].quiet
    <3>1. seen[t] \in Nat /\ seen'[t] \in Nat /\ rows[t].quiet \in Nat /\ seen'[t] <= seen[t]
      BY <1>1, Limits DEF IInv, SessionTypeOK, Rows, Ages
    <3>2. seen[t] <= rows[t].quiet /\ born[t] <= rows[t].since /\ rows[t].age <= rows[t].quiet
      BY DEF IInv, NeverAhead
    <3> QED BY <3>1, <3>2
  <2>2. ASSUME NEW p \in Slots, requests'[p] # NoRequest
        PROVE  seen'[requests'[p].sid] <= requests'[p].quiet
               /\ born[requests'[p].sid] <= requests'[p].since
    <3>1. CASE p = q
      BY <3>1, EnterEffect DEF IInv, NeverAhead
    <3>2. CASE p # q
      <4>1. /\ requests[p] # NoRequest /\ requests'[p].sid = requests[p].sid
            /\ requests'[p].quiet = requests[p].quiet /\ requests'[p].since = requests[p].since
        BY <2>2, <3>2, EnterEffect
      <4>2. seen[requests[p].sid] <= requests[p].quiet
            /\ born[requests[p].sid] <= requests[p].since
        BY <4>1 DEF IInv, NeverAhead
      <4>3. /\ seen[requests[p].sid] \in Nat /\ seen'[requests[p].sid] \in Nat
            /\ requests[p].quiet \in Nat
            /\ seen'[requests[p].sid] <= seen[requests[p].sid]
        BY <1>1, <4>1, Limits DEF IInv, SessionTypeOK, Ages
      <4> QED BY <4>1, <4>2, <4>3
    <3> QED BY <3>1, <3>2
  <2> QED BY <2>1, <2>2 DEF NeverAhead
<1>4. ActiveIsKept'
  <2> SUFFICES ASSUME NEW t \in Sids, user[t] = "in", RequestsOf(t)' = {}, t \notin mixed,
                      seen'[t] <= IdleTimeout
               PROVE  Valid(t) /\ rows[t].quiet = seen'[t]
    BY DEF ActiveIsKept, Valid
  <2>1. t # s
    BY EnterEffect DEF RequestsOf
  <2>2. RequestsOf(t) = {}
    BY <2>1, EnterEffect DEF RequestsOf
  <2> QED BY <2>1, <2>2 DEF IInv, ActiveIsKept
<1>5. AloneKnows'
  <2> SUFFICES ASSUME NEW p \in Slots, NEW t \in Sids, requests'[p] # NoRequest,
                      requests'[p].sid = t, requests'[p].alone
               PROVE  /\ \A r \in Slots : requests'[r] # NoRequest /\ requests'[r].sid = t
                                              => r = p
                      /\ user[t] = "in" /\ seen'[t] <= IdleTimeout
                            /\ (requests'[p].api \/ t \notin mixed)
                            => requests'[p].quiet = seen'[t]
    BY DEF AloneKnows
  <2>1. CASE p = q
    BY <2>1, EnterEffect
  <2>2. CASE p # q
    <3>1. requests'[p] = requests[p] /\ t # s
      BY <2>2, EnterEffect
    <3>2. \A r \in Slots : requests'[r] # NoRequest /\ requests'[r].sid = t
                             => requests[r] # NoRequest /\ requests[r].sid = t
      BY <3>1, EnterEffect
    <3> QED BY <3>1, <3>2 DEF IInv, AloneKnows
  <2> QED BY <2>1, <2>2
<1>6. EndedStaysEnded' /\ LateRequests'
  <2>1. user[s] = "out" => s \in stragglers
    BY DEF IInv, EndedStaysEnded
  <2>2. \A p \in Slots : requests'[p] # NoRequest =>
           requests'[p].sid = s \/ requests'[p] = requests[p]
    BY EnterEffect
  <2> QED BY <2>1, <2>2 DEF IInv, EndedStaysEnded, LateRequests
<1> QED BY <1>2, <1>3, <1>4, <1>5, <1>6 DEF IInv

LEMMA AcceptStep ==
    ASSUME IInv, NEW q \in Slots, NEW s \in Signed, Accept(q, s)
    PROVE  IInv'
<1>1. s \in DOMAIN rows /\ s \in Sids /\ 0 \in Ages(IdleTimeout) /\ TRUE \in BOOLEAN
  BY Limits DEF Accept, Valid, Signed, Ages
<1>2. /\ seen' \in [Sids -> Ages(IdleTimeout)] /\ 0 = seen'[s]
      /\ seen'[s] <= seen[s] /\ seen'[s] <= 0
      /\ \A t \in Sids : t # s => seen'[t] = seen[t]
  BY <1>1, Limits DEF Accept, IInv, SessionTypeOK, Ages
<1>3. Enter(q, s, TRUE, 0) /\ UNCHANGED <<rows, user, born, mixed, stragglers>>
  BY DEF Accept
<1> QED BY <1>1, <1>2, <1>3, EnterStep

LEMMA PlainStep ==
    ASSUME IInv, NEW q \in Slots, NEW s \in Signed, Plain(q, s)
    PROVE  IInv'
<1>1. s \in DOMAIN rows /\ s \in Sids /\ FALSE \in BOOLEAN
  BY DEF Plain, Valid, Signed
<1>2. rows[s].quiet \in Ages(IdleTimeout) /\ seen[s] \in Nat /\ seen[s] <= rows[s].quiet
  BY <1>1, Limits DEF IInv, SessionTypeOK, Rows, NeverAhead, Ages
<1>3. (/\ user[s] = "in" /\ seen[s] <= IdleTimeout
       /\ \A p \in Slots : requests[p] = NoRequest \/ requests[p].sid # s
       /\ s \notin mixed) => rows[s].quiet = seen[s]
  BY <1>1 DEF IInv, ActiveIsKept, RequestsOf
<1>4. Enter(q, s, FALSE, rows[s].quiet) /\ UNCHANGED <<rows, user, born, mixed, stragglers, seen>>
  BY DEF Plain
<1>5. /\ seen' \in [Sids -> Ages(IdleTimeout)] /\ seen'[s] = seen[s] /\ seen[s] <= seen[s]
      /\ \A t \in Sids : t # s => seen'[t] = seen[t]
  BY <1>2, <1>4 DEF IInv, SessionTypeOK
<1> QED BY <1>1, <1>2, <1>3, <1>4, <1>5, EnterStep

\* The types of what a step reads, and whom a row or a request belongs to.
LEMMA Typed ==
    ASSUME IInv
    PROVE  /\ \A t \in DOMAIN rows :
                 /\ t \in Sids /\ t \in Signed /\ rows[t] \in Rows
                 /\ rows[t].quiet \in Ages(IdleTimeout) /\ rows[t].age \in Ages(IdleTimeout)
                 /\ rows[t].since \in Ages(AbsoluteTimeout)
           /\ \A p \in Slots : requests[p] # NoRequest =>
                 /\ requests[p] \in Copies
                 /\ requests[p].sid \in Sids /\ requests[p].sid \in Signed
                 /\ requests[p].quiet \in Ages(IdleTimeout)
                 /\ requests[p].since \in Ages(AbsoluteTimeout)
                 /\ requests[p].api \in BOOLEAN /\ requests[p].alone \in BOOLEAN
           /\ \A t \in Sids : seen[t] \in Ages(IdleTimeout) /\ born[t] \in Ages(AbsoluteTimeout)
BY DEF IInv, SessionTypeOK, Signed, Copies, Rows

\* The end of a response: the row becomes what the copy knows.
LEMMA EndStep ==
    ASSUME IInv, NEW q \in Slots, End(q)
    PROVE  IInv'
<1> DEFINE r == requests[q]
           s == r.sid
           new == [quiet |-> r.quiet, since |-> r.since, age |-> 0]
<1>1. /\ r # NoRequest /\ r \in Copies /\ s \in Sids /\ s \in Signed
      /\ r.api \in BOOLEAN /\ r.alone \in BOOLEAN
      /\ r.quiet \in Ages(IdleTimeout) /\ r.since \in Ages(AbsoluteTimeout)
  BY Typed DEF End
<1>2. /\ rows' = With(rows, s, new)
      /\ requests' = [requests EXCEPT ![q] = NoRequest]
      /\ UNCHANGED <<user, seen, born, stragglers>>
      /\ mixed' = IF ~r.alone THEN mixed \cup {s}
                  ELSE IF r.api THEN mixed \ {s} ELSE mixed
  BY DEF End, Write
<1>3. /\ DOMAIN rows' = DOMAIN rows \cup {s} /\ rows'[s] = new
      /\ \A t \in DOMAIN rows : t # s => rows'[t] = rows[t]
  <2> HIDE DEF r, s, new
  <2>1. /\ DOMAIN With(rows, s, new) = DOMAIN rows \cup {s} /\ With(rows, s, new)[s] = new
        /\ \A t \in DOMAIN rows : t # s => With(rows, s, new)[t] = rows[t]
    BY DEF With
  <2> QED BY <1>2, <2>1
<1>4. /\ requests'[q] = NoRequest
      /\ \A p \in Slots : p # q => requests'[p] = requests[p]
      /\ requests' \in [Slots -> Copies \cup {NoRequest}]
  BY <1>2 DEF IInv, SessionTypeOK
<1>5. new \in Rows
  BY <1>1, Limits DEF Rows, Ages
<1>6. new.quiet = r.quiet /\ new.since = r.since /\ new.age = 0
  OBVIOUS
<1> HIDE DEF r, s, new
<1>7. SessionTypeOK'
  BY <1>1, <1>2, <1>3, <1>4, <1>5 DEF IInv, SessionTypeOK, Signed
<1>8. NeverAhead'
  <2>1. seen[s] <= new.quiet /\ born[s] <= new.since /\ new.age <= new.quiet
    BY <1>1, <1>6, Limits DEF IInv, NeverAhead, r, s, Ages
  <2> QED BY <1>2, <1>3, <1>4, <2>1 DEF IInv, NeverAhead
<1>9. ActiveIsKept'
  <2> SUFFICES ASSUME NEW t \in Sids, user[t] = "in", RequestsOf(t)' = {}, t \notin mixed',
                      seen[t] <= IdleTimeout
               PROVE  t \in DOMAIN rows' /\ rows'[t].age <= IdleTimeout /\ rows'[t].quiet = seen[t]
    BY <1>2 DEF ActiveIsKept, Valid
  <2>1. CASE t = s
    <3>1. r.alone /\ (r.api \/ s \notin mixed)
      BY <2>1, <1>2
    <3>2. r.quiet = seen[t]
      BY <2>1, <3>1, <1>1 DEF IInv, AloneKnows, r, s
    <3> QED BY <2>1, <3>2, <1>3, <1>6, Limits
  <2>2. CASE t # s
    <3>1. RequestsOf(t) = {}
      BY <2>2, <1>4 DEF RequestsOf, r, s
    <3>2. t \notin mixed
      BY <2>2, <1>2
    <3>3. Valid(t) /\ rows[t].quiet = seen[t]
      BY <3>1, <3>2 DEF IInv, ActiveIsKept
    <3> QED BY <2>2, <3>3, <1>3 DEF Valid
  <2> QED BY <2>1, <2>2
<1>10. AloneKnows'
  <2> SUFFICES ASSUME NEW p \in Slots, NEW t \in Sids, requests'[p] # NoRequest,
                      requests'[p].sid = t, requests'[p].alone
               PROVE  /\ \A x \in Slots : requests'[x] # NoRequest /\ requests'[x].sid = t
                                              => x = p
                      /\ user[t] = "in" /\ seen[t] <= IdleTimeout
                            /\ (requests'[p].api \/ t \notin mixed')
                            => requests'[p].quiet = seen[t]
    BY <1>2 DEF AloneKnows
  <2>1. p # q /\ requests'[p] = requests[p]
    BY <1>4
  <2>2. t # s
    BY <2>1, <1>1 DEF IInv, AloneKnows, r, s
  <2>3. t \in mixed' <=> t \in mixed
    BY <2>2, <1>2
  <2> QED BY <2>1, <2>3, <1>4 DEF IInv, AloneKnows
<1>11. EndedStaysEnded' /\ LateRequests'
  <2>1. user[s] = "out" => s \in stragglers
    BY <1>1 DEF IInv, LateRequests, r, s
  <2> QED BY <2>1, <1>2, <1>3, <1>4 DEF IInv, EndedStaysEnded, LateRequests
<1> QED BY <1>7, <1>8, <1>9, <1>10, <1>11 DEF IInv

\* What removes rows of sessions that are over, or that ends some: the others
\* notice nothing.
LEMMA LeaveStep ==
    ASSUME IInv, NEW D, NEW E \in SUBSET Signed,
           rows' = Without(D),
           UNCHANGED <<requests, seen, born, mixed>>,
           user' = [t \in Sids |-> IF t \in E THEN "out" ELSE user[t]],
           stragglers' = stragglers \cup {t \in E : RequestsOf(t) # {}},
           E \subseteq D,
           \A t \in (D \cap DOMAIN rows) \ E : rows[t].age > IdleTimeout
    PROVE  IInv'
<1>1. /\ DOMAIN rows' = DOMAIN rows \ D
      /\ \A t \in DOMAIN rows \ D : rows'[t] = rows[t]
  BY WithoutEffect
<1>2. \A t \in Sids : user'[t] = IF t \in E THEN "out" ELSE user[t]
  OBVIOUS
<1>3. SessionTypeOK'
  <2>1. Signed' = Signed
    BY <1>2 DEF Signed
  <2>2. user' \in [Sids -> {"unknown", "in", "out"}]
    BY <1>2 DEF IInv, SessionTypeOK
  <2> QED BY <1>1, <2>1, <2>2 DEF IInv, SessionTypeOK
<1>4. NeverAhead'
  BY <1>1 DEF IInv, NeverAhead
<1>5. ActiveIsKept'
  <2> SUFFICES ASSUME NEW t \in Sids, user'[t] = "in", RequestsOf(t)' = {}, t \notin mixed,
                      seen[t] <= IdleTimeout
               PROVE  t \in DOMAIN rows' /\ rows'[t].age <= IdleTimeout /\ rows'[t].quiet = seen[t]
    BY DEF ActiveIsKept, Valid
  <2>1. user[t] = "in" /\ t \notin E /\ RequestsOf(t) = {}
    BY <1>2 DEF RequestsOf
  <2>2. t \in DOMAIN rows /\ rows[t].age <= IdleTimeout /\ rows[t].quiet = seen[t]
    BY <2>1 DEF IInv, ActiveIsKept, Valid
  <2>3. rows[t].age \in Nat
    BY <2>2, Typed, Limits DEF Ages
  <2>4. t \notin D
    BY <2>1, <2>2, <2>3, Limits
  <2> QED BY <2>2, <2>4, <1>1
<1>6. AloneKnows'
  BY <1>2 DEF IInv, AloneKnows
<1>7. EndedStaysEnded'
  <2>1. \A t \in DOMAIN rows' : t \in Sids /\ t \in DOMAIN rows /\ t \notin E
    BY <1>1, Typed
  <2> QED BY <2>1, <1>2 DEF IInv, EndedStaysEnded
<1>8. LateRequests'
  <2> SUFFICES ASSUME NEW q \in Slots, requests[q] # NoRequest, user'[requests[q].sid] = "out"
               PROVE  requests[q].sid \in stragglers'
    BY DEF LateRequests
  <2>1. requests[q].sid \in Sids
    BY Typed
  <2>2. CASE requests[q].sid \in E
    BY <2>2 DEF RequestsOf
  <2>3. CASE requests[q].sid \notin E
    BY <2>1, <2>3, <1>2 DEF IInv, LateRequests
  <2> QED BY <2>2, <2>3
<1> QED BY <1>3, <1>4, <1>5, <1>6, <1>7, <1>8 DEF IInv

LEMMA RefuseStep ==
    ASSUME IInv, NEW s \in Signed, Refuse(s) \/ Logout(s)
    PROVE  IInv'
<1>1. s \in Sids /\ Destroy(s) /\ UNCHANGED <<requests, seen, born, mixed>>
  BY DEF Refuse, Logout, Signed
<1>2. rows' = Without({s})
  BY <1>1 DEF Destroy
<1>3. user' = [t \in Sids |-> IF t \in {s} THEN "out" ELSE user[t]]
  BY <1>1 DEF Destroy, IInv, SessionTypeOK
<1>4. stragglers' = stragglers \cup {t \in {s} : RequestsOf(t) # {}}
  BY <1>1 DEF Destroy
<1> QED BY <1>1, <1>2, <1>3, <1>4, LeaveStep

LEMMA SweepStep ==
    ASSUME IInv, Sweep
    PROVE  IInv'
<1> DEFINE D == {s \in DOMAIN rows : rows[s].age > IdleTimeout}
<1>1. rows' = Without(D) /\ UNCHANGED <<requests, user, seen, born, mixed, stragglers>>
  BY DEF Sweep
<1>2. user' = [t \in Sids |-> IF t \in {} THEN "out" ELSE user[t]]
  BY <1>1 DEF IInv, SessionTypeOK
<1>3. \A t \in (D \cap DOMAIN rows) \ {} : rows[t].age > IdleTimeout
  OBVIOUS
<1> HIDE DEF D
<1>4. {} \in SUBSET Signed /\ {} \subseteq D
      /\ stragglers' = stragglers \cup {t \in {} : RequestsOf(t) # {}}
  BY <1>1
<1> QED BY <1>1, <1>2, <1>3, <1>4, LeaveStep

\* A login: the session the browser came with goes, the new one comes.
LEMMA LoginStep ==
    ASSUME IInv, NEW s \in Sids, NEW old \in Signed \cup {NoSid}, Login(old, s)
    PROVE  IInv'
<1> DEFINE new == [quiet |-> 0, since |-> 0, age |-> 0]
           left == Without({old})
<1>1. /\ user[s] = "unknown" /\ s \notin Signed /\ s # old
      /\ rows' = With(left, s, new)
      /\ UNCHANGED <<requests, mixed>>
  BY Limits DEF Login, Signed
<1>2. /\ \A t \in Sids : user'[t] = IF t = s THEN "in" ELSE IF t = old THEN "out" ELSE user[t]
      /\ user' \in [Sids -> {"unknown", "in", "out"}]
  BY DEF Login, IInv, SessionTypeOK
<1>3. /\ \A t \in Sids : t # s => seen'[t] = seen[t] /\ born'[t] = born[t]
      /\ seen'[s] = 0 /\ born'[s] = 0
      /\ seen' \in [Sids -> Ages(IdleTimeout)] /\ born' \in [Sids -> Ages(AbsoluteTimeout)]
  BY Limits DEF Login, IInv, SessionTypeOK, Ages
<1>4. /\ stragglers \subseteq stragglers'
      /\ old \in Sids /\ RequestsOf(old) # {} => old \in stragglers'
  BY DEF Login
<1>5. /\ DOMAIN left = DOMAIN rows \ {old}
      /\ \A t \in DOMAIN rows : t # old => left[t] = rows[t]
  BY WithoutEffect
<1>6. new \in Rows /\ new.quiet = 0 /\ new.since = 0 /\ new.age = 0
  BY Limits DEF Rows, Ages
<1>7. s \notin DOMAIN rows /\ \A p \in Slots : requests[p] # NoRequest => requests[p].sid # s
  BY <1>1, Typed
<1> HIDE DEF new, left
<1>8. /\ DOMAIN rows' = (DOMAIN rows \ {old}) \cup {s} /\ rows'[s] = new
      /\ \A t \in DOMAIN rows' : t # s => t \in DOMAIN rows /\ t # old /\ rows'[t] = rows[t]
  <2>1. /\ DOMAIN rows' = DOMAIN left \cup {s} /\ rows'[s] = new
        /\ \A t \in DOMAIN left : t # s => rows'[t] = left[t]
    BY <1>1 DEF With
  <2> QED BY <2>1, <1>5
<1>9. SessionTypeOK'
  <2>1. \A t \in Signed : t \in Signed'
    BY <1>2 DEF Signed
  <2>2. s \in Signed'
    BY <1>2 DEF Signed
  <2>3. \A t \in DOMAIN rows' : t \in Signed' /\ rows'[t] \in Rows
    BY <2>1, <2>2, <1>6, <1>8, Typed
  <2> QED BY <2>1, <2>3, <1>1, <1>2, <1>3 DEF IInv, SessionTypeOK
<1>10. NeverAhead'
  <2>1. \A t \in DOMAIN rows' : t # s => t \in Sids
    BY <1>8, Typed
  <2>2. ASSUME NEW p \in Slots, requests[p] # NoRequest
        PROVE  seen'[requests[p].sid] <= requests[p].quiet
               /\ born'[requests[p].sid] <= requests[p].since
    <3>1. requests[p].sid \in Sids /\ requests[p].sid # s
      BY <2>2, <1>7, Typed
    <3> QED BY <2>2, <3>1, <1>3 DEF IInv, NeverAhead
  <2>3. ASSUME NEW t \in DOMAIN rows'
        PROVE  seen'[t] <= rows'[t].quiet /\ born'[t] <= rows'[t].since
               /\ rows'[t].age <= rows'[t].quiet
    <3>1. CASE t = s
      BY <3>1, <1>3, <1>6, <1>8
    <3>2. CASE t # s
      BY <3>2, <2>1, <1>3, <1>8 DEF IInv, NeverAhead
    <3> QED BY <3>1, <3>2
  <2> QED BY <2>2, <2>3, <1>1 DEF NeverAhead
<1>11. ActiveIsKept'
  <2> SUFFICES ASSUME NEW t \in Sids, user'[t] = "in", RequestsOf(t)' = {}, t \notin mixed,
                      seen'[t] <= IdleTimeout
               PROVE  t \in DOMAIN rows' /\ rows'[t].age <= IdleTimeout /\ rows'[t].quiet = seen'[t]
    BY <1>1 DEF ActiveIsKept, Valid
  <2>1. CASE t = s
    BY <2>1, <1>3, <1>6, <1>8, Limits
  <2>2. CASE t # s
    <3>1. user[t] = "in" /\ t # old /\ RequestsOf(t) = {} /\ seen[t] <= IdleTimeout
      BY <2>2, <1>1, <1>2, <1>3 DEF RequestsOf
    <3>2. t \in DOMAIN rows /\ rows[t].age <= IdleTimeout /\ rows[t].quiet = seen[t]
      BY <3>1 DEF IInv, ActiveIsKept, Valid
    <3> QED BY <2>2, <3>1, <3>2, <1>3, <1>8
  <2> QED BY <2>1, <2>2
<1>12. AloneKnows'
  <2> SUFFICES ASSUME NEW p \in Slots, NEW t \in Sids, requests[p] # NoRequest,
                      requests[p].sid = t, requests[p].alone
               PROVE  /\ \A x \in Slots : requests[x] # NoRequest /\ requests[x].sid = t
                                              => x = p
                      /\ user'[t] = "in" /\ seen'[t] <= IdleTimeout
                            /\ (requests[p].api \/ t \notin mixed)
                            => requests[p].quiet = seen'[t]
    BY <1>1 DEF AloneKnows
  <2>1. t # s
    BY <1>7
  <2> QED BY <2>1, <1>2, <1>3 DEF IInv, AloneKnows
<1>13. EndedStaysEnded'
  BY <1>2, <1>4, <1>8, Typed DEF IInv, EndedStaysEnded
<1>14. LateRequests'
  <2> SUFFICES ASSUME NEW q \in Slots, requests[q] # NoRequest, user'[requests[q].sid] = "out"
               PROVE  requests[q].sid \in stragglers'
    BY <1>1 DEF LateRequests
  <2>1. requests[q].sid \in Sids
    BY Typed
  <2>2. CASE requests[q].sid = old
    BY <2>1, <2>2, <1>4 DEF RequestsOf
  <2>3. CASE requests[q].sid # old
    BY <2>1, <2>3, <1>2, <1>4 DEF IInv, LateRequests
  <2> QED BY <2>2, <2>3
<1> QED BY <1>9, <1>10, <1>11, <1>12, <1>13, <1>14 DEF IInv

\* Time passes: rows, copies and what is true age alike.
LEMMA TickStep ==
    ASSUME IInv, Tick
    PROVE  IInv'
<1> DEFINE I(a) == Older(a, IdleTimeout)
           A(a) == Older(a, AbsoluteTimeout)
<1>1. /\ \A a \in Ages(IdleTimeout) : I(a) \in Ages(IdleTimeout)
      /\ \A a, b \in Ages(IdleTimeout) : a <= b => I(a) <= I(b)
      /\ \A a \in Ages(IdleTimeout) : a <= I(a) /\ 0 <= I(a)
      /\ \A a \in Ages(IdleTimeout) : I(a) <= IdleTimeout => a <= IdleTimeout
      /\ \A a, b \in Ages(IdleTimeout) : a <= b /\ I(b) <= IdleTimeout => I(a) <= IdleTimeout
      /\ 0 \in Ages(IdleTimeout)
  BY Limits DEF Older, Ages
<1>2. /\ \A a \in Ages(AbsoluteTimeout) : A(a) \in Ages(AbsoluteTimeout) /\ 0 <= A(a)
      /\ \A a, b \in Ages(AbsoluteTimeout) : a <= b => A(a) <= A(b)
      /\ 0 \in Ages(AbsoluteTimeout)
  BY Limits DEF Older, Ages
<1>3. /\ DOMAIN rows' = DOMAIN rows
      /\ \A t \in DOMAIN rows : /\ rows'[t] \in Rows
                                 /\ rows'[t].quiet = I(rows[t].quiet)
                                 /\ rows'[t].since = A(rows[t].since)
                                 /\ rows'[t].age = I(rows[t].age)
  <2>1. /\ DOMAIN rows' = DOMAIN rows
        /\ \A t \in DOMAIN rows :
              rows'[t] = [Quieter(rows[t]) EXCEPT !.age = Older(@, IdleTimeout)]
    BY DEF Tick
  <2>2. ASSUME NEW x \in Rows
        PROVE  LET y == [Quieter(x) EXCEPT !.age = Older(@, IdleTimeout)]
               IN  /\ y \in Rows /\ y.quiet = I(x.quiet) /\ y.since = A(x.since)
                   /\ y.age = I(x.age)
    BY <1>1, <1>2 DEF Rows, Quieter
  <2> QED BY <2>1, <2>2, Typed
<1>4. /\ requests' \in [Slots -> Copies \cup {NoRequest}]
      /\ \A q \in Slots : /\ requests[q] = NoRequest => requests'[q] = NoRequest
                          /\ requests[q] # NoRequest =>
                                /\ requests'[q] # NoRequest
                                /\ requests'[q].sid = requests[q].sid
                                /\ requests'[q].api = requests[q].api
                                /\ requests'[q].alone = requests[q].alone
                                /\ requests'[q].quiet = I(requests[q].quiet)
                                /\ requests'[q].since = A(requests[q].since)
  <2>1. requests' = [q \in Slots |-> IF requests[q] = NoRequest THEN NoRequest
                                      ELSE Quieter(requests[q])]
    BY DEF Tick
  <2>2. ASSUME NEW x \in Copies
        PROVE  /\ Quieter(x) \in Copies /\ Quieter(x) # NoRequest
               /\ Quieter(x).sid = x.sid /\ Quieter(x).api = x.api
               /\ Quieter(x).alone = x.alone
               /\ Quieter(x).quiet = I(x.quiet) /\ Quieter(x).since = A(x.since)
    <3>1. Quieter(x) \in Copies
      BY <1>1, <1>2 DEF Copies, Quieter
    <3>2. Quieter(x) # NoRequest
      BY <3>1, SessionsAssumption
    <3> QED BY <3>1, <3>2 DEF Copies, Quieter
  <2>3. \A q \in Slots : requests'[q] \in Copies \cup {NoRequest}
    BY <2>1, <2>2, Typed
  <2> HIDE DEF I, A
  <2> QED BY <2>1, <2>2, <2>3, Typed
<1>5. \A s \in Sids : /\ seen'[s] = IF s \in Present THEN I(seen[s]) ELSE 0
                      /\ born'[s] = IF s \in Present THEN A(born[s]) ELSE 0
  BY DEF Tick
<1>6. /\ seen' \in [Sids -> Ages(IdleTimeout)] /\ born' \in [Sids -> Ages(AbsoluteTimeout)]
      /\ UNCHANGED <<user, mixed, stragglers>>
  <2>1. /\ seen' = [s \in Sids |-> seen'[s]] /\ born' = [s \in Sids |-> born'[s]]
        /\ UNCHANGED <<user, mixed, stragglers>>
    BY DEF Tick
  <2>2. \A s \in Sids : seen'[s] \in Ages(IdleTimeout) /\ born'[s] \in Ages(AbsoluteTimeout)
    BY <1>1, <1>2, <1>5, Typed
  <2> QED BY <2>1, <2>2
<1>7. /\ \A s \in Sids : user[s] = "in" => s \in Present
      /\ \A t \in DOMAIN rows : t \in Present /\ t \in Sids
      /\ \A q \in Slots : requests[q] # NoRequest =>
            requests[q].sid \in Present /\ requests[q].sid \in Sids
  BY Typed DEF Present, RequestsOf
<1> HIDE DEF I, A
<1>8. SessionTypeOK'
  <2>1. Signed' = Signed
    BY <1>6 DEF Signed
  <2> QED BY <2>1, <1>3, <1>4, <1>6 DEF IInv, SessionTypeOK
<1>9. NeverAhead'
  <2>1. ASSUME NEW t \in DOMAIN rows'
        PROVE  seen'[t] <= rows'[t].quiet /\ born'[t] <= rows'[t].since
               /\ rows'[t].age <= rows'[t].quiet
    <3>1. seen[t] <= rows[t].quiet /\ born[t] <= rows[t].since /\ rows[t].age <= rows[t].quiet
      BY <1>3 DEF IInv, NeverAhead
    <3> QED BY <3>1, <1>1, <1>2, <1>3, <1>5, <1>7, Typed
  <2>2. ASSUME NEW p \in Slots, requests'[p] # NoRequest
        PROVE  seen'[requests'[p].sid] <= requests'[p].quiet
               /\ born'[requests'[p].sid] <= requests'[p].since
    <3>1. requests[p] # NoRequest
      BY <2>2, <1>4
    <3>2. seen[requests[p].sid] <= requests[p].quiet /\ born[requests[p].sid] <= requests[p].since
      BY <3>1 DEF IInv, NeverAhead
    <3> QED BY <3>1, <3>2, <1>1, <1>2, <1>4, <1>5, <1>7, Typed
  <2> QED BY <2>1, <2>2 DEF NeverAhead
<1>10. ActiveIsKept'
  <2> SUFFICES ASSUME NEW t \in Sids, user[t] = "in", RequestsOf(t)' = {}, t \notin mixed,
                      seen'[t] <= IdleTimeout
               PROVE  t \in DOMAIN rows' /\ rows'[t].age <= IdleTimeout /\ rows'[t].quiet = seen'[t]
    BY <1>6 DEF ActiveIsKept, Valid
  <2>1. RequestsOf(t) = {}
    BY <1>4 DEF RequestsOf
  <2>2. seen'[t] = I(seen[t]) /\ seen[t] <= IdleTimeout
    BY <1>1, <1>5, <1>7, Typed
  <2>3. t \in DOMAIN rows /\ rows[t].quiet = seen[t]
    BY <2>1, <2>2 DEF IInv, ActiveIsKept, Valid
  <2>4. rows[t].age <= rows[t].quiet
    BY <2>3 DEF IInv, NeverAhead
  <2> QED BY <2>2, <2>3, <2>4, <1>1, <1>3, Typed
<1>11. AloneKnows'
  <2> SUFFICES ASSUME NEW p \in Slots, NEW t \in Sids, requests'[p] # NoRequest,
                      requests'[p].sid = t, requests'[p].alone
               PROVE  /\ \A x \in Slots : requests'[x] # NoRequest /\ requests'[x].sid = t
                                              => x = p
                      /\ user[t] = "in" /\ seen'[t] <= IdleTimeout
                            /\ (requests'[p].api \/ t \notin mixed)
                            => requests'[p].quiet = seen'[t]
    BY <1>6 DEF AloneKnows
  <2>1. requests[p] # NoRequest /\ requests[p].sid = t /\ requests[p].alone
    BY <1>4
  <2>2. \A x \in Slots : requests'[x] # NoRequest /\ requests'[x].sid = t => x = p
    BY <2>1, <1>4 DEF IInv, AloneKnows
  <2>3. ASSUME user[t] = "in", seen'[t] <= IdleTimeout, requests'[p].api \/ t \notin mixed
        PROVE  requests'[p].quiet = seen'[t]
    <3>1. seen'[t] = I(seen[t]) /\ seen[t] <= IdleTimeout
      BY <2>3, <1>1, <1>5, <1>7, Typed
    <3>2. requests[p].api \/ t \notin mixed
      BY <2>1, <2>3, <1>4
    <3>3. requests[p].quiet = seen[t]
      BY <2>1, <2>3, <3>1, <3>2 DEF IInv, AloneKnows
    <3> QED BY <2>1, <3>1, <3>3, <1>4
  <2> QED BY <2>2, <2>3
<1>12. EndedStaysEnded' /\ LateRequests'
  BY <1>3, <1>4, <1>6 DEF IInv, EndedStaysEnded, LateRequests
<1> QED BY <1>8, <1>9, <1>10, <1>11, <1>12 DEF IInv

\* A death leaves the rows as they were, and no request.
LEMMA CrashStep ==
    ASSUME IInv, Crash
    PROVE  IInv'
<1>1. /\ \A q \in Slots : requests'[q] = NoRequest
      /\ requests' \in [Slots -> Copies \cup {NoRequest}]
      /\ mixed' = mixed \cup {s \in Sids : RequestsOf(s) # {}}
      /\ UNCHANGED <<rows, user, seen, born, stragglers>>
  BY DEF Crash
<1>2. SessionTypeOK'
  BY <1>1 DEF IInv, SessionTypeOK, Signed
<1>3. NeverAhead' /\ AloneKnows' /\ EndedStaysEnded' /\ LateRequests'
  BY <1>1 DEF IInv, NeverAhead, AloneKnows, EndedStaysEnded, LateRequests
<1>4. ActiveIsKept'
  BY <1>1 DEF IInv, ActiveIsKept, Valid
<1> QED BY <1>2, <1>3, <1>4 DEF IInv

LEMMA ThrottleStep ==
    ASSUME IInv, UNCHANGED sessionVars
    PROVE  IInv'
BY DEF sessionVars, IInv, SessionTypeOK, NeverAhead, ActiveIsKept, AloneKnows,
       EndedStaysEnded, LateRequests, Valid, RequestsOf, Signed

LEMMA NextStep == IInv /\ [Next]_vars => IInv'
<1> SUFFICES ASSUME IInv, [Next]_vars PROVE IInv'
  OBVIOUS
<1>1. CASE Request
  BY <1>1, AcceptStep, PlainStep, RefuseStep DEF Request
<1>2. CASE Attempt
  <2>1. CASE LockedAttempt \/ WrongPassword
    BY <2>1, ThrottleStep DEF LockedAttempt, WrongPassword
  <2> QED BY <1>2, <2>1, LoginStep DEF Attempt
<1>3. CASE Sweep \/ Tick \/ Crash
  BY <1>3, SweepStep, TickStep, CrashStep
<1>4. CASE \E q \in Slots : End(q)
  BY <1>4, EndStep
<1>5. CASE UNCHANGED vars
  BY <1>5, ThrottleStep DEF vars
<1> QED BY <1>1, <1>2, <1>3, <1>4, <1>5 DEF Next

-----------------------------------------------------------------------------
(* The login throttle.                                                     *)

\* Ages of failures within the window.
Failures == 0..Window - 1

\* In the order of their events.
OldestFirst(ages) == \A i, j \in DOMAIN ages : i < j => ages[i] >= ages[j]

\* The failures on record are in order and no more than the lock lets pass,
\* and each wrong password that was compared is one of them.
ThrottleInv ==
    /\ wrong \in Seq(Failures) /\ Len(wrong) <= MaxFailures /\ OldestFirst(wrong)
    /\ denied \in Seq(Failures) /\ Len(denied) <= MaxFailures /\ OldestFirst(denied)
    /\ compared = wrong

\* The bounds, and the youngest age.
LEMMA WindowBounds ==
    /\ MaxFailures \in Nat \ {0} /\ Window \in Nat \ {0}
    /\ 0 \in Failures /\ Failures \subseteq Nat
BY SessionsAssumption DEF SessionsAssumption, Failures

\* A new failure goes behind the older ones.
LEMMA FailureAppended ==
    ASSUME NEW ages \in Seq(Failures), OldestFirst(ages)
    PROVE  /\ Append(ages, 0) \in Seq(Failures) /\ Len(Append(ages, 0)) = Len(ages) + 1
           /\ OldestFirst(Append(ages, 0))
<1>1. PICK l \in Nat : l = Len(ages) /\ DOMAIN ages = 1..l
  BY LenProperties
<1>2. /\ Append(ages, 0) \in Seq(Failures) /\ Len(Append(ages, 0)) = l + 1
      /\ \A i \in 1..l : Append(ages, 0)[i] = ages[i]
      /\ Append(ages, 0)[l + 1] = 0
  BY <1>1, WindowBounds, AppendProperties
<1>3. DOMAIN Append(ages, 0) = 1..(l + 1)
  BY <1>2, LenProperties
<1>4. \A i \in 1..l : ages[i] \in Nat
  BY <1>1, WindowBounds, ElementOfSeq
<1>5. OldestFirst(Append(ages, 0))
  <2> SUFFICES ASSUME NEW i \in 1..(l + 1), NEW j \in 1..(l + 1), i < j
               PROVE  Append(ages, 0)[i] >= Append(ages, 0)[j]
    BY <1>3 DEF OldestFirst
  <2>1. i \in 1..l /\ (j = l + 1 \/ j \in 1..l)
    OBVIOUS
  <2>2. CASE j = l + 1
    BY <1>2, <1>4, <2>1, <2>2
  <2>3. CASE j \in 1..l
    BY <1>1, <1>2, <2>1, <2>3 DEF OldestFirst
  <2> QED BY <2>1, <2>2, <2>3
<1> QED BY <1>1, <1>2, <1>5

\* The oldest failure is forgotten.
LEMMA OldestForgotten ==
    ASSUME NEW ages \in Seq(Failures), OldestFirst(ages), Len(ages) # 0
    PROVE  /\ Tail(ages) \in Seq(Failures) /\ Len(Tail(ages)) = Len(ages) - 1
           /\ OldestFirst(Tail(ages))
<1>1. PICK l \in Nat : l + 1 = Len(ages) /\ DOMAIN ages = 1..(l + 1)
  <2>1. Len(ages) \in Nat /\ DOMAIN ages = 1..Len(ages)
    BY LenProperties
  <2>2. Len(ages) - 1 \in Nat /\ (Len(ages) - 1) + 1 = Len(ages)
    BY <2>1
  <2> QED BY <2>1, <2>2
<1>2. /\ Tail(ages) \in Seq(Failures) /\ Len(Tail(ages)) = Len(ages) - 1
      /\ \A i \in 1..Len(Tail(ages)) : Tail(ages)[i] = ages[i + 1]
  BY EmptySeq, HeadTailProperties
<1>3. DOMAIN Tail(ages) = 1..l /\ Len(Tail(ages)) = l
  BY <1>1, <1>2, LenProperties
<1>4. OldestFirst(Tail(ages))
  <2> SUFFICES ASSUME NEW i \in 1..l, NEW j \in 1..l, i < j
               PROVE  Tail(ages)[i] >= Tail(ages)[j]
    BY <1>3 DEF OldestFirst
  <2>1. i + 1 \in 1..(l + 1) /\ j + 1 \in 1..(l + 1) /\ i + 1 < j + 1
    OBVIOUS
  <2>2. ages[i + 1] >= ages[j + 1]
    BY <1>1, <2>1 DEF OldestFirst
  <2> QED BY <1>2, <1>3, <2>2
<1> QED BY <1>2, <1>4

\* A tick ages all failures alike.
LEMMA AllAge ==
    ASSUME NEW ages \in Seq(Failures), OldestFirst(ages)
    PROVE  /\ AgeAll(ages) \in Seq(Nat) /\ Len(AgeAll(ages)) = Len(ages)
           /\ OldestFirst(AgeAll(ages))
<1>1. PICK l \in Nat : l = Len(ages) /\ DOMAIN ages = 1..l
  BY LenProperties
<1>2. \A i \in 1..l : ages[i] \in Nat
  BY <1>1, WindowBounds, ElementOfSeq
<1>3. AgeAll(ages) \in [1..l -> Nat]
  BY <1>1, <1>2 DEF AgeAll
<1>4. AgeAll(ages) \in Seq(Nat)
  BY <1>3, SeqDef
<1>5. PICK k \in Nat : k = Len(AgeAll(ages)) /\ DOMAIN AgeAll(ages) = 1..k
  BY <1>4, LenProperties
<1>6. k = l
  <2>1. 1..k = 1..l
    BY <1>3, <1>5
  <2>2. k < l => l \in 1..l /\ l \notin 1..k
    OBVIOUS
  <2>3. l < k => k \in 1..k /\ k \notin 1..l
    OBVIOUS
  <2> QED BY <2>1, <2>2, <2>3
<1>7. OldestFirst(AgeAll(ages))
  <2> SUFFICES ASSUME NEW i \in 1..l, NEW j \in 1..l, i < j
               PROVE  ages[i] + 1 >= ages[j] + 1
    BY <1>1 DEF OldestFirst, AgeAll
  <2>1. ages[i] >= ages[j]
    BY <1>1 DEF OldestFirst
  <2> QED BY <1>2, <2>1
<1> QED BY <1>1, <1>4, <1>5, <1>6, <1>7

\* Of ages in order, Younger keeps those below the limit, all of them and no
\* other, in their order.
LEMMA YoungerKeeps ==
    ASSUME NEW ages \in Seq(Nat), OldestFirst(ages), NEW limit \in Nat \ {0}
    PROVE  /\ Younger(ages, limit) \in Seq(0..limit - 1)
           /\ Len(Younger(ages, limit)) <= Len(ages)
           /\ OldestFirst(Younger(ages, limit))
           /\ \E k \in 0..Len(ages) :
                 /\ \A i \in DOMAIN ages : ages[i] < limit <=> i > k
                 /\ Younger(ages, limit) = SubSeq(ages, k + 1, Len(ages))
<1> DEFINE old == {i \in DOMAIN ages : ages[i] >= limit}
           y == Younger(ages, limit)
<1>1. PICK l \in Nat : l = Len(ages) /\ DOMAIN ages = 1..l
  BY LenProperties
<1>2. \A i \in 1..l : ages[i] \in Nat
  BY <1>1, ElementOfSeq
<1>3. \A a \in Nat, b \in Nat : IsFiniteSet(a..b) /\ Cardinality(a..b) = IF a > b THEN 0 ELSE b - a + 1
  BY FS_Interval
<1>4. old \in SUBSET (1..l) /\ IsFiniteSet(old)
  BY <1>1, <1>3, FS_Subset
<1>5. PICK k \in Nat : k = Cardinality(old)
  BY <1>4, FS_CardinalityType
<1>6. k <= l
  <2>1. IsFiniteSet(1..l) /\ Cardinality(1..l) = l
    BY <1>3
  <2> QED BY <1>4, <1>5, <2>1, FS_Subset
\* A failure that is too old has only such before it.
<1>7. ASSUME NEW i \in 1..l, ages[i] >= limit
      PROVE  i <= k
  <2>1. 1..i \in SUBSET old
    <3> SUFFICES ASSUME NEW j \in 1..i PROVE j \in 1..l /\ ages[j] >= limit
      BY <1>1
    <3>1. j \in 1..l /\ (j = i \/ j < i)
      OBVIOUS
    <3>2. ages[j] >= ages[i]
      BY <1>1, <1>2, <3>1 DEF OldestFirst
    <3> QED BY <1>2, <1>7, <3>1, <3>2
  <2>2. Cardinality(1..i) = i
    BY <1>3
  <2>3. Cardinality(1..i) <= Cardinality(old)
    BY <1>4, <2>1, FS_Subset
  <2> QED BY <1>5, <2>2, <2>3
\* One that is not has only such behind it.
<1>8. ASSUME NEW i \in 1..l, ages[i] < limit
      PROVE  i > k
  <2>1. old \in SUBSET (1..(i - 1))
    <3> SUFFICES ASSUME NEW j \in 1..l, ages[j] >= limit PROVE j < i
      BY <1>1
    <3>1. j >= i => ages[i] >= ages[j]
      BY <1>1, <1>2 DEF OldestFirst
    <3> QED BY <1>2, <1>8, <3>1
  <2>2. IsFiniteSet(1..(i - 1)) /\ Cardinality(1..(i - 1)) = i - 1
    BY <1>3
  <2>3. Cardinality(old) <= i - 1
    BY <2>1, <2>2, FS_Subset
  <2> QED BY <1>5, <2>3
<1>9. y = SubSeq(ages, k + 1, l)
  BY <1>1, <1>5 DEF Younger
<1> HIDE DEF old, y
<1>10. \A i \in (k + 1)..l : i \in 1..l /\ ages[i] \in 0..limit - 1
  BY <1>2, <1>7
<1>11. /\ y \in Seq(0..limit - 1)
       /\ Len(y) = IF k + 1 <= l THEN l - (k + 1) + 1 ELSE 0
       /\ \A i \in 1..(l - (k + 1) + 1) : y[i] = ages[(k + 1) + i - 1]
  BY <1>9, <1>10, SubSeqProperties
<1>12. PICK n \in Nat : n = l - k /\ Len(y) = n /\ DOMAIN y = 1..n
  <2>1. l - k \in Nat /\ Len(y) = l - k
    BY <1>6, <1>11
  <2> QED BY <1>11, <2>1, LenProperties
<1>13. \A i \in 1..n : y[i] = ages[k + i] /\ k + i \in 1..l
  BY <1>6, <1>11, <1>12
<1>14. OldestFirst(y)
  <2> SUFFICES ASSUME NEW i \in 1..n, NEW j \in 1..n, i < j
               PROVE  y[i] >= y[j]
    BY <1>12 DEF OldestFirst
  <2>1. k + i < k + j
    OBVIOUS
  <2> QED BY <1>1, <1>13, <2>1 DEF OldestFirst
<1>15. /\ \A i \in DOMAIN ages : ages[i] < limit <=> i > k
       /\ k \in 0..Len(ages)
  <2>1. \A i \in 1..l : ages[i] < limit \/ ages[i] >= limit
    BY <1>2
  <2>2. \A i \in 1..l : ages[i] < limit <=> i > k
    BY <1>7, <1>8, <2>1
  <2> QED BY <1>1, <1>6, <2>2
<1>16. Len(y) <= Len(ages)
  BY <1>1, <1>12
<1> QED BY <1>1, <1>9, <1>11, <1>14, <1>15, <1>16 DEF y

\* What a tick leaves on record.
LEMMA RecentKeeps ==
    ASSUME NEW ages \in Seq(Failures), OldestFirst(ages)
    PROVE  /\ Recent(AgeAll(ages)) \in Seq(Failures)
           /\ Len(Recent(AgeAll(ages))) <= Len(ages)
           /\ OldestFirst(Recent(AgeAll(ages)))
<1>1. /\ AgeAll(ages) \in Seq(Nat) /\ Len(AgeAll(ages)) = Len(ages)
      /\ OldestFirst(AgeAll(ages))
  BY AllAge
<1> QED BY <1>1, WindowBounds, YoungerKeeps DEF Recent, Failures

\* The invariant of the throttle.
LEMMA ThrottleKeeps == ThrottleInv /\ [Next]_vars => ThrottleInv'
<1> SUFFICES ASSUME ThrottleInv, [Next]_vars PROVE ThrottleInv'
  OBVIOUS
<1>1. Len(wrong) \in Nat /\ Len(denied) \in Nat
  BY LenProperties DEF ThrottleInv
<1>2. CASE UNCHANGED throttleVars
  BY <1>2 DEF throttleVars, ThrottleInv
<1>3. CASE LockedAttempt
  <2> DEFINE kept == IF Len(denied) = MaxFailures THEN Tail(denied) ELSE denied
  <2>1. kept \in Seq(Failures) /\ OldestFirst(kept) /\ Len(kept) + 1 <= MaxFailures
    <3>1. CASE Len(denied) = MaxFailures
      <4>1. Len(denied) # 0
        BY <3>1, WindowBounds
      <4> QED BY <1>1, <3>1, <4>1, WindowBounds, OldestForgotten DEF ThrottleInv
    <3>2. CASE Len(denied) # MaxFailures
      BY <1>1, <3>2, WindowBounds DEF ThrottleInv
    <3> QED BY <3>1, <3>2
  <2>2. denied' = Append(kept, 0) /\ UNCHANGED <<wrong, compared>>
    BY <1>3 DEF LockedAttempt
  <2> HIDE DEF kept
  <2>3. denied' \in Seq(Failures) /\ Len(denied') <= MaxFailures /\ OldestFirst(denied')
    BY <2>1, <2>2, FailureAppended
  <2> QED BY <2>2, <2>3 DEF ThrottleInv, OldestFirst
<1>4. CASE WrongPassword
  <2>1. wrong' = Append(wrong, 0) /\ compared' = Append(compared, 0) /\ denied' = denied
    BY <1>4 DEF WrongPassword
  <2>2. Len(wrong) + 1 <= MaxFailures
    BY <1>1, <1>4, WindowBounds DEF WrongPassword, LockedOut
  <2>3. wrong' \in Seq(Failures) /\ Len(wrong') <= MaxFailures /\ OldestFirst(wrong')
    BY <2>1, <2>2, FailureAppended DEF ThrottleInv
  <2> QED BY <2>1, <2>3 DEF ThrottleInv, OldestFirst
<1>5. CASE Tick
  <2>1. /\ wrong' = Recent(AgeAll(wrong)) /\ denied' = Recent(AgeAll(denied))
        /\ compared' = Recent(AgeAll(compared))
    BY <1>5 DEF Tick, Recent
  <2>2. wrong' \in Seq(Failures) /\ Len(wrong') <= Len(wrong) /\ OldestFirst(wrong')
    BY <2>1, RecentKeeps DEF ThrottleInv
  <2>3. denied' \in Seq(Failures) /\ Len(denied') <= Len(denied) /\ OldestFirst(denied')
    BY <2>1, RecentKeeps DEF ThrottleInv
  <2>4. Len(wrong') \in Nat /\ Len(denied') \in Nat
    BY <2>2, <2>3, LenProperties
  <2>5. Len(wrong') <= MaxFailures /\ Len(denied') <= MaxFailures
    BY <1>1, <2>2, <2>3, <2>4, WindowBounds DEF ThrottleInv
  <2> QED BY <2>1, <2>2, <2>3, <2>5 DEF ThrottleInv, OldestFirst
<1>6. CASE Request \/ Sweep \/ Crash \/ (\E q \in Slots : End(q))
  BY <1>2, <1>6 DEF Request, Accept, Plain, Refuse, Logout, Sweep, Crash, End
<1>7. CASE \E s \in Sids, old \in Signed \cup {NoSid} : Login(old, s)
  BY <1>2, <1>7 DEF Login
<1>8. CASE UNCHANGED vars
  BY <1>2, <1>8 DEF vars
<1> QED BY <1>3, <1>4, <1>5, <1>6, <1>7, <1>8 DEF Next, Attempt

\* Sessions of which a request straggled are sessions.
LEMMA StragglersAre ==
    ASSUME stragglers \subseteq Sids, [Next]_vars
    PROVE  stragglers' \subseteq Sids
<1>1. CASE Request
  BY <1>1 DEF Request, Accept, Plain, Refuse, Logout, Destroy
<1>2. CASE Attempt
  BY <1>2 DEF Attempt, LockedAttempt, WrongPassword, Login, sessionVars
<1>3. CASE Sweep \/ Tick \/ Crash \/ \E q \in Slots : End(q)
  BY <1>3 DEF Sweep, Tick, Crash, End
<1>4. CASE UNCHANGED vars
  BY <1>4 DEF vars, sessionVars
<1> QED BY <1>1, <1>2, <1>3, <1>4 DEF Next

-----------------------------------------------------------------------------

\* The invariant of the sessions.
THEOREM Invariant == Spec => []IInv
BY InvHoldsInitially, NextStep, PTL DEF Spec

\* For any number of overlapping requests: a session used within the idle
\* timeout has a valid row that knows when, unless the copies of overlapping
\* or cut-off requests were the last to be written (sessionStore.touch).
THEOREM KeptWhileUsed == Spec => []ActiveIsKept
<1>1. IInv => ActiveIsKept BY DEF IInv
<1> QED BY Invariant, <1>1, PTL

\* A session that ended is brought back only by the end of a request that was
\* under way when it ended.
THEOREM EndedForGood == Spec => []EndedStaysEnded
<1>1. IInv => EndedStaysEnded BY DEF IInv
<1> QED BY Invariant, <1>1, PTL

\* requireAuth lets no request of a session through that was quiet for longer
\* than the idle timeout or is older than the absolute one.
THEOREM NothingExpiredAccepted == Spec => OnlyActiveAccepted
<1> DEFINE Step == \A q \in Slots, s \in Sids :
                      requests[q] = NoRequest /\ requests'[q] # NoRequest
                        /\ requests'[q].sid = s /\ requests'[q].api
                      => seen[s] <= IdleTimeout /\ born[s] <= AbsoluteTimeout
<1>1. IInv /\ Next => Step
  <2> SUFFICES ASSUME IInv, Next, NEW q \in Slots, NEW s \in Sids,
                      requests[q] = NoRequest, requests'[q] # NoRequest,
                      requests'[q].sid = s, requests'[q].api
               PROVE  seen[s] <= IdleTimeout /\ born[s] <= AbsoluteTimeout
    OBVIOUS
  <2>1. PICK t \in Signed : \E p \in Slots : Accept(p, t) \/ Plain(p, t)
    BY DEF Next, Request, Attempt, Refuse, Logout, LockedAttempt, WrongPassword, Login,
           Sweep, Tick, Crash, End, sessionVars, IInv, SessionTypeOK
  <2>2. PICK p \in Slots : Accept(p, t) \/ Plain(p, t)
    BY <2>1
  <2>3. t \in DOMAIN rows
    BY <2>2 DEF Accept, Plain, Valid
  <2>4. CASE Accept(p, t)
    <3>1. 0 \in Ages(IdleTimeout) /\ TRUE \in BOOLEAN
      BY Limits DEF Ages
    <3>2. Enter(p, t, TRUE, 0)
      BY <2>4, Zenon DEF Accept
    <3>3. p = q /\ s = t
      BY <2>3, <3>1, <3>2, EnterEffect
    <3>4. ~(rows[t].since > AbsoluteTimeout) /\ ~(rows[t].quiet > IdleTimeout)
      BY <2>4 DEF Accept, Expired
    <3>5. seen[t] <= rows[t].quiet /\ born[t] <= rows[t].since
      BY <2>3 DEF IInv, NeverAhead
    <3> QED BY <2>3, <3>3, <3>4, <3>5, Typed, Limits DEF Ages
  <2>5. CASE Plain(p, t)
    <3>1. rows[t].quiet \in Ages(IdleTimeout) /\ Enter(p, t, FALSE, rows[t].quiet)
      BY <2>3, <2>5, Typed DEF Plain
    <3>2. p = q /\ ~requests'[p].api
      BY <2>3, <3>1, EnterEffect
    <3> QED BY <3>2
  <2> QED BY <2>2, <2>4, <2>5
<1>2. IInv /\ [Next]_vars => [Step]_vars
  BY <1>1
<1> QED BY Invariant, <1>2, PTL DEF Spec, OnlyActiveAccepted

\* The invariant of the login throttle.
THEOREM ThrottleHolds == Spec => []ThrottleInv
<1>1. Init => ThrottleInv
  <2> SUFFICES ASSUME Init PROVE ThrottleInv
    OBVIOUS
  <2>1. wrong = <<>> /\ denied = <<>> /\ compared = <<>>
    BY DEF Init
  <2>2. <<>> \in Seq(Failures) /\ Len(<<>>) = 0 /\ OldestFirst(<<>>)
    BY DEF OldestFirst
  <2>3. 0 <= MaxFailures
    BY WindowBounds
  <2> QED BY <2>1, <2>2, <2>3 DEF ThrottleInv
<1> QED BY <1>1, ThrottleKeeps, PTL DEF Spec

\* For any window and number of failures, and however attempts, restarts and
\* the passing of time interleave: isLockedOut lets no more than MaxFailures
\* wrong passwords be compared within a window.
THEOREM ThrottleLimits == Spec => []ChecksLimited
<1>1. ThrottleInv => ChecksLimited
  BY DEF ThrottleInv, ChecksLimited
<1> QED BY ThrottleHolds, <1>1, PTL

\* Rows, copies and failures keep their type; a row or a request belongs to a
\* session that was signed in, and no failure is older than the window.
THEOREM SessionTypes == Spec => []TypeOK
<1>1. Init => stragglers \subseteq Sids
  BY DEF Init
<1>2. stragglers \subseteq Sids /\ [Next]_vars => (stragglers \subseteq Sids)'
  BY StragglersAre
<1>3. IInv /\ ThrottleInv /\ stragglers \subseteq Sids => TypeOK
  <2> SUFFICES ASSUME IInv, ThrottleInv, stragglers \subseteq Sids PROVE TypeOK
    OBVIOUS
  <2>1. /\ wrong \in Seq(0..Window - 1) /\ Len(wrong) <= MaxFailures
        /\ denied \in Seq(0..Window - 1) /\ Len(denied) <= MaxFailures
        /\ compared \in Seq(0..Window - 1)
    BY DEF ThrottleInv, Failures
  <2>2. \A q \in Slots : requests[q] = NoRequest
                            \/ (requests[q] \in Copies /\ requests[q].sid \in Signed)
    BY DEF IInv, SessionTypeOK
  <2> QED BY <2>1, <2>2 DEF TypeOK, IInv, SessionTypeOK
<1> QED BY <1>1, <1>2, <1>3, Invariant, ThrottleHolds, PTL DEF Spec
=============================================================================
