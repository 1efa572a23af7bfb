--------------------------- MODULE DirectSendProofs ---------------------------
(***************************************************************************)
(* The safety of the send routes, for any number of requests, keys and     *)
(* recipients, any TTL and any number of process deaths.                   *)
(***************************************************************************)
EXTENDS DirectSend, TLAPS

\* A request that has not begun has sent nothing.
NewSentNothing == \A r \in Requests : pc[r] = "new" => sends[r] = 0

\* A request that answered 200 has gone through its list and is audited.
DoneIsWhole ==
    \A r \in Requests : reply[r] = "200" => left[r] = 0 /\ r \in audited /\ pc[r] = "answered"

\* A row is the result of a request that came in when it says.
RowHasResult ==
    \A k \in rows : \E q \in Requests : KeyOf[q] = k /\ reply[q] = "200" /\ age[q] = rowAge[k]

\* A request under way to which nothing of its key has happened will find the
\* place of its row free.
UnshadowedFindsNoRow ==
    \A r \in Requests : pc[r] = "sending" /\ KeyOf[r] \in Keys /\ r \notin shadowed
                        => KeyOf[r] \notin rows

\* And its result is the row, until the sweep may remove it.
UnshadowedIsRow ==
    \A r \in Requests : /\ reply[r] = "200" /\ KeyOf[r] \in Keys
                        /\ r \notin shadowed /\ age[r] <= TTL
                        => KeyOf[r] \in rows /\ rowAge[KeyOf[r]] = age[r]

RowInv == RowHasResult /\ UnshadowedFindsNoRow /\ UnshadowedIsRow

IInv == /\ TypeOK
        /\ NewSentNothing /\ DoneIsWhole /\ RowInv
        /\ ReplayIsOfCompleted /\ AnsweredSendIsAudited

LEMMA Constants ==
    /\ NoKey \notin Keys
    /\ \A r \in Requests : RouteOf[r] \in Routes /\ KeyOf[r] \in Keys \cup {NoKey}
    /\ Recipients \in Nat /\ TTL \in Nat
BY DirectSendAssumption

LEMMA InvHoldsInitially == Init => IInv
<1> SUFFICES ASSUME Init PROVE IInv
  OBVIOUS
<1> USE DEF Init
<1>1. TypeOK
  <2>1. disabled \in BOOLEAN /\ ready \in BOOLEAN
    BY Zenon
  <2>2. \A r \in Requests : Total(r) \in Nat
    BY Constants DEF Total
  <2> QED BY <2>1, <2>2, Constants DEF TypeOK
<1>2. NewSentNothing /\ DoneIsWhole /\ AnsweredSendIsAudited
  BY DEF NewSentNothing, DoneIsWhole, AnsweredSendIsAudited
<1>3. RowInv /\ ReplayIsOfCompleted
  BY DEF RowInv, RowHasResult, UnshadowedFindsNoRow, UnshadowedIsRow, ReplayIsOfCompleted
<1> QED BY <1>1, <1>2, <1>3 DEF IInv

\* Rows and their requests are undisturbed by a step that adds no result and
\* starts no request whose key has a row but as a shadowed one.
LEMMA RowsAreKept ==
    ASSUME IInv, UNCHANGED <<age, rows, rowAge>>, shadowed \subseteq shadowed',
           \A q \in Requests : reply[q] = "200" <=> reply'[q] = "200",
           \A q \in Requests : /\ pc'[q] = "sending" /\ pc[q] # "sending"
                               /\ KeyOf[q] \in rows
                               => q \in shadowed'
    PROVE  RowInv'
<1>1. RowHasResult'
  BY DEF IInv, RowInv, RowHasResult
<1>2. UnshadowedFindsNoRow'
  BY DEF IInv, RowInv, UnshadowedFindsNoRow
<1>3. UnshadowedIsRow'
  BY DEF IInv, RowInv, UnshadowedIsRow
<1> QED BY <1>1, <1>2, <1>3 DEF RowInv

\* Requests whose answer another one has been given keep what they earned.
LEMMA ReplaysAreKept ==
    ASSUME IInv, UNCHANGED left, audited \subseteq audited',
           \A q \in Requests : reply[q] = "200" => reply'[q] = "200",
           \A q \in Requests : reply'[q] = "replay" /\ reply[q] # "replay" => IsCached(q)
    PROVE  ReplayIsOfCompleted'
<1> SUFFICES ASSUME NEW r \in Requests, reply'[r] = "replay"
             PROVE  \E q \in Requests : /\ KeyOf[q] = KeyOf[r]
                                        /\ reply'[q] = "200"
                                        /\ left'[q] = 0
                                        /\ q \in audited'
  BY DEF ReplayIsOfCompleted
<1>1. CASE reply[r] = "replay"
  BY <1>1 DEF IInv, ReplayIsOfCompleted
<1>2. CASE reply[r] # "replay"
  <2>1. KeyOf[r] \in rows
    BY <1>2 DEF IsCached, Fresh
  <2>2. PICK q \in Requests : KeyOf[q] = KeyOf[r] /\ reply[q] = "200"
    BY <2>1 DEF IInv, RowInv, RowHasResult
  <2> QED BY <2>2 DEF IInv, DoneIsWhole
<1> QED BY <1>1, <1>2

\* A request comes in.
LEMMA ReceiveStep == ASSUME IInv, NEW r \in Requests, Receive(r) PROVE IInv'
<1>1. /\ pc[r] = "new"
      /\ UNCHANGED <<left, sends, age, audited, rows, rowAge, disabled, ready, crashes>>
      /\ \/ /\ pc' = [pc EXCEPT ![r] = "sending"] /\ reply' = reply
            /\ shadowed' = IF KeyOf[r] \in rows THEN shadowed \cup {r} ELSE shadowed
         \/ /\ pc' = [pc EXCEPT ![r] = "answered"] /\ shadowed' = shadowed
            /\ \E s \in {"423", "409", "replay"} :
                  reply' = [reply EXCEPT ![r] = s] /\ (s = "replay" => IsCached(r))
  BY DEF Receive, Locked, Replay, Enter, Answer, cache
<1>2. reply[r] # "200"
  BY <1>1 DEF IInv, DoneIsWhole
<1>3. TypeOK'
  BY <1>1 DEF IInv, TypeOK
<1>4. NewSentNothing' /\ DoneIsWhole' /\ AnsweredSendIsAudited'
  BY <1>1, <1>2 DEF IInv, TypeOK, NewSentNothing, DoneIsWhole, AnsweredSendIsAudited
<1>5. /\ \A q \in Requests : reply[q] = "200" <=> reply'[q] = "200"
      /\ \A q \in Requests : reply'[q] = "replay" /\ reply[q] # "replay" => IsCached(q)
      /\ \A q \in Requests : /\ pc'[q] = "sending" /\ pc[q] # "sending"
                             /\ KeyOf[q] \in rows
                             => q \in shadowed'
  BY <1>1, <1>2 DEF IInv, TypeOK
<1>6. RowInv' /\ ReplayIsOfCompleted'
  BY <1>1, <1>5, RowsAreKept, ReplaysAreKept
<1> QED BY <1>3, <1>4, <1>6 DEF IInv

\* A recipient is gone through.
LEMMA RecipientStep ==
    ASSUME IInv, NEW r \in Requests, SendOne(r) \/ SkipOne(r)
    PROVE  IInv'
<1>1. /\ pc[r] = "sending" /\ left[r] > 0
      /\ UNCHANGED <<pc, reply, age, audited, rows, rowAge, disabled, ready, shadowed, crashes>>
      /\ left' = [left EXCEPT ![r] = @ - 1]
      /\ sends' = [sends EXCEPT ![r] = @ + 1] \/ UNCHANGED sends
  BY DEF SendOne, SkipOne, cache
<1>2. reply[r] # "200"
  BY <1>1 DEF IInv, DoneIsWhole
<1>3. TypeOK'
  BY <1>1 DEF IInv, TypeOK
<1>4. NewSentNothing' /\ DoneIsWhole' /\ AnsweredSendIsAudited'
  BY <1>1, <1>2 DEF IInv, TypeOK, NewSentNothing, DoneIsWhole, AnsweredSendIsAudited
<1>5. RowInv'
  BY <1>1, RowsAreKept
<1>6. ReplayIsOfCompleted'
  BY <1>1, <1>2 DEF IInv, TypeOK, ReplayIsOfCompleted
<1> QED BY <1>3, <1>4, <1>5, <1>6 DEF IInv

\* A request that ends without a result to cache.
LEMMA FailStep ==
    ASSUME IInv, NEW r \in Requests, Abort(r) \/ Fail(r)
    PROVE  IInv'
<1>1. /\ pc[r] = "sending"
      /\ UNCHANGED <<left, sends, age, rows, rowAge, disabled, ready, shadowed, crashes>>
      /\ pc' = [pc EXCEPT ![r] = "answered"]
      /\ \/ /\ RouteOf[r] = "bulk" /\ left[r] > 0
            /\ reply' = [reply EXCEPT ![r] = "409"] /\ audited' = audited
         \/ reply' = [reply EXCEPT ![r] = "500"] /\ audited' = audited \cup {r}
  BY DEF Abort, Fail, Answer, cache
<1>2. reply[r] # "200"
  BY <1>1 DEF IInv, DoneIsWhole
<1>3. TypeOK'
  BY <1>1 DEF IInv, TypeOK
<1>4. NewSentNothing' /\ DoneIsWhole' /\ AnsweredSendIsAudited'
  BY <1>1, <1>2 DEF IInv, TypeOK, NewSentNothing, DoneIsWhole, AnsweredSendIsAudited
<1>5. /\ \A q \in Requests : reply[q] = "200" <=> reply'[q] = "200"
      /\ \A q \in Requests : reply'[q] = "replay" => reply[q] = "replay"
      /\ \A q \in Requests : pc'[q] = "sending" => pc[q] = "sending"
      /\ audited \subseteq audited'
  BY <1>1, <1>2 DEF IInv, TypeOK
<1>6. RowInv' /\ ReplayIsOfCompleted'
  BY <1>1, <1>5, RowsAreKept, ReplaysAreKept
<1> QED BY <1>3, <1>4, <1>6 DEF IInv

\* A request that ends with 200: its result is its key's row, unless the key
\* has one; then it is shadowed, as are the requests it overtook.
LEMMA SucceedStep == ASSUME IInv, NEW r \in Requests, Succeed(r) PROVE IInv'
<1>1. /\ pc[r] = "sending" /\ left[r] = 0
      /\ UNCHANGED <<left, sends, age, disabled, ready, crashes>>
      /\ pc' = [pc EXCEPT ![r] = "answered"] /\ reply' = [reply EXCEPT ![r] = "200"]
      /\ audited' = audited \cup {r}
      /\ shadowed' = shadowed \cup Overlapping(r)
      /\ CacheAfter(r)
  BY DEF Succeed, Answer
<1>2. reply[r] # "200" /\ age \in [Requests -> 0..TTL + 1]
  BY <1>1 DEF IInv, DoneIsWhole, TypeOK
<1>3. /\ rows' \in SUBSET Keys /\ rowAge' \in [Keys -> 0..TTL + 1]
      /\ \/ KeyOf[r] \in rows \cup {NoKey} /\ UNCHANGED <<rows, rowAge>>
         \/ /\ KeyOf[r] \in Keys \ rows /\ rows' = rows \cup {KeyOf[r]}
            /\ rowAge'[KeyOf[r]] = age[r]
            /\ \A k \in Keys \ {KeyOf[r]} : rowAge'[k] = rowAge[k]
  BY <1>1, <1>2, Constants DEF CacheAfter, Stores, IInv, TypeOK
<1>4. /\ \A q \in Requests \ {r} : /\ reply'[q] = reply[q] /\ pc'[q] = pc[q]
                                   /\ q \in shadowed' /\ q \notin shadowed
                                      => pc[q] = "sending"
      /\ reply'[r] = "200" /\ pc'[r] = "answered" /\ (r \in shadowed' => r \in shadowed)
  BY <1>1 DEF IInv, TypeOK, Overlapping, Running
<1>5. TypeOK'
  BY <1>1, <1>3 DEF IInv, TypeOK, Overlapping, Running
<1>6. NewSentNothing' /\ DoneIsWhole' /\ AnsweredSendIsAudited'
  BY <1>1 DEF IInv, TypeOK, NewSentNothing, DoneIsWhole, AnsweredSendIsAudited
<1>7. RowHasResult'
  <2> SUFFICES ASSUME NEW k \in rows'
               PROVE  \E q \in Requests : KeyOf[q] = k /\ reply'[q] = "200" /\ age'[q] = rowAge'[k]
    BY DEF RowHasResult
  <2>1. CASE k \notin rows
    BY <2>1, <1>1, <1>3, <1>4
  <2>2. CASE k \in rows
    <3>1. PICK q \in Requests : KeyOf[q] = k /\ reply[q] = "200" /\ age[q] = rowAge[k]
      BY <2>2 DEF IInv, RowInv, RowHasResult
    <3>2. rowAge'[k] = rowAge[k]
      BY <2>2, <1>3 DEF IInv, TypeOK
    <3> QED BY <3>1, <3>2, <1>1, <1>2, <1>4
  <2> QED BY <2>1, <2>2
<1>8. UnshadowedFindsNoRow'
  <2> SUFFICES ASSUME NEW q \in Requests, pc'[q] = "sending", KeyOf[q] \in Keys, q \notin shadowed'
               PROVE  KeyOf[q] \notin rows'
    BY DEF UnshadowedFindsNoRow
  <2>1. q # r /\ pc[q] = "sending" /\ q \notin shadowed
    BY <1>1, <1>4
  <2>2. KeyOf[q] \notin rows
    BY <2>1 DEF IInv, RowInv, UnshadowedFindsNoRow
  <2>3. KeyOf[q] # KeyOf[r]
    BY <2>1, <1>1, Constants DEF Overlapping, Running
  <2> QED BY <2>2, <2>3, <1>3
<1>9. UnshadowedIsRow'
  <2> SUFFICES ASSUME NEW q \in Requests, reply'[q] = "200", KeyOf[q] \in Keys,
                      q \notin shadowed', age'[q] <= TTL
               PROVE  KeyOf[q] \in rows' /\ rowAge'[KeyOf[q]] = age'[q]
    BY DEF UnshadowedIsRow
  <2>1. CASE q = r
    <3>1. KeyOf[r] \notin rows
      BY <2>1, <1>1 DEF IInv, RowInv, UnshadowedFindsNoRow
    <3> QED BY <2>1, <3>1, <1>1, <1>3, Constants
  <2>2. CASE q # r
    <3>1. KeyOf[q] \in rows /\ rowAge[KeyOf[q]] = age[q]
      BY <2>2, <1>1, <1>4 DEF IInv, RowInv, UnshadowedIsRow
    <3> QED BY <3>1, <1>1, <1>3
  <2> QED BY <2>1, <2>2
<1>10. ReplayIsOfCompleted'
  <2>1. \A q \in Requests : /\ reply[q] = "200" => reply'[q] = "200"
                            /\ reply'[q] = "replay" => reply[q] = "replay"
    BY <1>4
  <2> QED BY <2>1, <1>1, ReplaysAreKept
<1> QED BY <1>5, <1>6, <1>7, <1>8, <1>9, <1>10 DEF IInv, RowInv

\* The operator and the connection.
LEMMA AroundStep ==
    ASSUME IInv, SetKillSwitch \/ ConnectionChange
    PROVE  IInv'
<1>1. UNCHANGED <<pc, reply, left, sends, age, audited, rows, rowAge, shadowed, crashes>>
  BY DEF SetKillSwitch, ConnectionChange, cache
<1>2. disabled' \in BOOLEAN /\ ready' \in BOOLEAN
  BY Zenon DEF SetKillSwitch, ConnectionChange, IInv, TypeOK
<1>3. TypeOK'
  BY <1>1, <1>2 DEF IInv, TypeOK
<1>4. NewSentNothing' /\ DoneIsWhole' /\ AnsweredSendIsAudited' /\ ReplayIsOfCompleted'
  BY <1>1 DEF IInv, NewSentNothing, DoneIsWhole, AnsweredSendIsAudited, ReplayIsOfCompleted
<1>5. RowInv'
  BY <1>1, RowsAreKept
<1> QED BY <1>3, <1>4, <1>5 DEF IInv

LEMMA OlderIsAge ==
    \A a \in 0..TTL + 1 : Older(a) \in 0..TTL + 1 /\ (Older(a) <= TTL => a <= TTL)
BY Constants DEF Older

\* A row and the request it is the result of grow older together.
LEMMA TimeStep == ASSUME IInv, TimePasses PROVE IInv'
<1>1. /\ UNCHANGED <<pc, reply, left, sends, audited, rows, disabled, ready, shadowed, crashes>>
      /\ age' = [r \in Requests |-> IF r \in Timed THEN Older(age[r]) ELSE age[r]]
      /\ rowAge' = [k \in Keys |-> IF k \in rows THEN Older(rowAge[k]) ELSE rowAge[k]]
  BY DEF TimePasses
<1>2. rows \subseteq Keys /\ age \in [Requests -> 0..TTL + 1] /\ rowAge \in [Keys -> 0..TTL + 1]
  BY DEF IInv, TypeOK
<1>3. \A q \in Requests : reply[q] = "200" /\ KeyOf[q] \in Keys => age'[q] = Older(age[q])
  BY <1>1, Constants DEF Timed
<1>4. TypeOK'
  <2>1. age' \in [Requests -> 0..TTL + 1] /\ rowAge' \in [Keys -> 0..TTL + 1]
    BY <1>1, <1>2, OlderIsAge
  <2> QED BY <1>1, <2>1 DEF IInv, TypeOK
<1>5. NewSentNothing' /\ DoneIsWhole' /\ AnsweredSendIsAudited' /\ ReplayIsOfCompleted'
  BY <1>1 DEF IInv, NewSentNothing, DoneIsWhole, AnsweredSendIsAudited, ReplayIsOfCompleted
<1>6. RowHasResult'
  <2> SUFFICES ASSUME NEW k \in rows
               PROVE  \E q \in Requests : KeyOf[q] = k /\ reply[q] = "200" /\ age'[q] = rowAge'[k]
    BY <1>1 DEF RowHasResult
  <2>1. PICK q \in Requests : KeyOf[q] = k /\ reply[q] = "200" /\ age[q] = rowAge[k]
    BY DEF IInv, RowInv, RowHasResult
  <2>2. age'[q] = Older(age[q]) /\ rowAge'[k] = Older(rowAge[k])
    BY <2>1, <1>1, <1>2, <1>3
  <2> QED BY <2>1, <2>2
<1>7. UnshadowedFindsNoRow'
  BY <1>1 DEF IInv, RowInv, UnshadowedFindsNoRow
<1>8. UnshadowedIsRow'
  <2> SUFFICES ASSUME NEW q \in Requests, reply[q] = "200", KeyOf[q] \in Keys,
                      q \notin shadowed, age'[q] <= TTL
               PROVE  KeyOf[q] \in rows /\ rowAge'[KeyOf[q]] = age'[q]
    BY <1>1 DEF UnshadowedIsRow
  <2>1. age'[q] = Older(age[q]) /\ age[q] <= TTL
    BY <1>2, <1>3, OlderIsAge
  <2>2. KeyOf[q] \in rows /\ rowAge[KeyOf[q]] = age[q]
    BY <2>1 DEF IInv, RowInv, UnshadowedIsRow
  <2> QED BY <2>1, <2>2, <1>1
<1> QED BY <1>4, <1>5, <1>6, <1>7, <1>8 DEF IInv, RowInv

LEMMA SweepStep == ASSUME IInv, Sweep PROVE IInv'
<1>1. /\ UNCHANGED <<pc, reply, left, sends, age, audited, disabled, ready, shadowed, crashes>>
      /\ rows' = {k \in rows : rowAge[k] <= TTL}
      /\ rowAge' = [k \in Keys |-> IF k \in rows' THEN rowAge[k] ELSE 0]
  BY DEF Sweep
<1>2. rows \subseteq Keys /\ rowAge \in [Keys -> 0..TTL + 1] /\ TTL \in Nat
  BY Constants DEF IInv, TypeOK
<1>3. rowAge' \in [Keys -> 0..TTL + 1] /\ \A k \in rows' : rowAge'[k] = rowAge[k]
  BY <1>1, <1>2
<1>4. TypeOK'
  BY <1>1, <1>3 DEF IInv, TypeOK
<1>5. NewSentNothing' /\ DoneIsWhole' /\ AnsweredSendIsAudited' /\ ReplayIsOfCompleted'
  BY <1>1 DEF IInv, NewSentNothing, DoneIsWhole, AnsweredSendIsAudited, ReplayIsOfCompleted
<1>6. RowHasResult'
  BY <1>1, <1>3 DEF IInv, RowInv, RowHasResult
<1>7. UnshadowedFindsNoRow'
  BY <1>1 DEF IInv, RowInv, UnshadowedFindsNoRow
<1>8. UnshadowedIsRow'
  BY <1>1, <1>3 DEF IInv, RowInv, UnshadowedIsRow
<1> QED BY <1>4, <1>5, <1>6, <1>7, <1>8 DEF IInv, RowInv

LEMMA CrashStep == ASSUME IInv, Crash PROVE IInv'
<1>1. /\ UNCHANGED <<reply, left, sends, age, audited, rows, rowAge, disabled, shadowed>>
      /\ pc' = [r \in Requests |-> IF r \in Running THEN "lost" ELSE pc[r]]
      /\ crashes' = crashes + 1
  BY DEF Crash, cache
<1>2. ready' \in BOOLEAN
  BY Zenon DEF Crash
<1>3. TypeOK'
  BY <1>1, <1>2 DEF IInv, TypeOK
<1>4. NewSentNothing' /\ DoneIsWhole' /\ AnsweredSendIsAudited' /\ ReplayIsOfCompleted'
  BY <1>1 DEF IInv, Running, NewSentNothing, DoneIsWhole, AnsweredSendIsAudited, ReplayIsOfCompleted
<1>5. RowInv'
  BY <1>1, RowsAreKept
<1> QED BY <1>3, <1>4, <1>5 DEF IInv

LEMMA Stutter == ASSUME IInv, UNCHANGED vars PROVE IInv'
BY DEF vars, IInv, TypeOK, NewSentNothing, DoneIsWhole, RowInv, RowHasResult,
       UnshadowedFindsNoRow, UnshadowedIsRow, ReplayIsOfCompleted, AnsweredSendIsAudited

\* Every step of the routes and of what is around them preserves the invariant.
THEOREM Invariant == Spec => []IInv
<1>1. IInv /\ [Next]_vars => IInv'
  BY ReceiveStep, RecipientStep, FailStep, SucceedStep, AroundStep, TimeStep, SweepStep,
     CrashStep, Stutter
     DEF Next, Work
<1> QED BY InvHoldsInitially, <1>1, PTL DEF Spec

\* The requests, the audit log and the cache keep their types: no request goes
\* through more recipients than it was given.
THEOREM TypeCorrect == Spec => []TypeOK
<1>1. IInv => TypeOK BY DEF IInv
<1> QED BY Invariant, <1>1, PTL

\* idempotent(): what is replayed is the answer of a request with the same key
\* that went through all of its recipients and was audited.
THEOREM ReplaysOnlyCompleted == Spec => []ReplayIsOfCompleted
<1>1. IInv => ReplayIsOfCompleted BY DEF IInv
<1> QED BY Invariant, <1>1, PTL

\* The routes answer after recordAudit whenever they have handed anything to the
\* transport, but for a bulk send that loses the connection half-way.
THEOREM SendsAreAudited == Spec => []AnsweredSendIsAudited
<1>1. IInv => AnsweredSendIsAudited BY DEF IInv
<1> QED BY Invariant, <1>1, PTL

\* A key is replayed only while one of its results is younger than the TTL, and
\* as long as it has one, whatever is swept or dies, but for results of requests
\* that found a row waiting for the sweep or overlapped another one of the key.
THEOREM RowsMatchResults == Spec => []RowsAreRecent
<1>1. IInv => RowsAreRecent
  <2> SUFFICES ASSUME IInv, NEW k \in Keys
               PROVE  /\ Fresh(k) => Recent(k) # {}
                      /\ Fresh(k) \/ Recent(k) \subseteq shadowed
    BY DEF RowsAreRecent
  <2>1. Fresh(k) => Recent(k) # {}
    BY DEF IInv, RowInv, RowHasResult, Fresh, Recent
  <2>2. ASSUME NEW r \in Recent(k), r \notin shadowed PROVE Fresh(k)
    <3>1. /\ r \in Requests /\ KeyOf[r] = k /\ reply[r] = "200" /\ age[r] < TTL
          /\ age[r] \in 0..TTL + 1
      BY DEF Recent, IInv, TypeOK
    <3>2. KeyOf[r] \in rows /\ rowAge[KeyOf[r]] = age[r]
      BY <2>2, <3>1, Constants DEF IInv, RowInv, UnshadowedIsRow
    <3> QED BY <3>1, <3>2 DEF Fresh
  <2> QED BY <2>1, <2>2
<1> QED BY Invariant, <1>1, PTL
=============================================================================
