--------------------------- MODULE LiveFeedProofs ---------------------------
(***************************************************************************)
(* For any number of QR codes: the types of TransportConnection and of     *)
(* MockTransport, and that the code each holds goes with the state it      *)
(* reports.  For any schedules, versions and length of the wire: that the  *)
(* page shows the state of the transport and the table of schedules.       *)
(*                                                                         *)
(* Neither ShownAgrees nor MirrorAgrees is inductive: both speak of a page *)
(* with nothing under way.  The invariant says what is under way: the last *)
(* state on the wire is the transport's, the last event of a schedule has  *)
(* its version in the table, and the answer to the page is right about     *)
(* the schedules of which no event newer than it is under way.             *)
(***************************************************************************)
EXTENDS LiveFeed, SequenceTheorems, TLAPS

\* The invariant of WhatsAppWebTransport.
RealInv == TransportTypeOK /\ CodeGoesWithState

\* A step that reports a state leaves a consistent pair behind.
LEMMA StateEventKeeps ==
    ASSUME RealInv, StateEvent
    PROVE  RealInv'
<1> USE TransportConnectionAssumption DEF TransportConnectionAssumption, SetState
<1> USE DEF RealInv, TransportTypeOK, CodeGoesWithState
<1>1. CASE CodeEncoded
  BY <1>1 DEF CodeEncoded
<1>2. CASE Authenticated
  BY <1>2 DEF Authenticated
<1>3. ASSUME NEW t \in timers, ReadyTimer(t)
      PROVE  RealInv'
  BY <1>3 DEF ReadyTimer
<1>4. CASE AuthFailure
  BY <1>4 DEF AuthFailure
<1>5. CASE Disconnected
  BY <1>5 DEF Disconnected
<1>6. CASE LoadingScreen
  BY <1>6 DEF LoadingScreen
<1>7. QED
  BY <1>1, <1>2, <1>3, <1>4, <1>5, <1>6 DEF StateEvent

\* So does every other step of the real transport.
LEMMA StepKeeps ==
    ASSUME RealInv, [TransportNext]_transportVars
    PROVE  RealInv'
<1> USE TransportConnectionAssumption DEF TransportConnectionAssumption
<1>1. CASE StateEvent
  BY <1>1, StateEventKeeps
<1>2. CASE ShowCode
  BY <1>2 DEF ShowCode, RealInv, TransportTypeOK, CodeGoesWithState
<1>3. CASE BecomeLive
  BY <1>3 DEF BecomeLive, RealInv, TransportTypeOK, CodeGoesWithState
<1>4. CASE UNCHANGED transportVars
  BY <1>4 DEF transportVars, RealInv, TransportTypeOK, CodeGoesWithState
<1>5. QED
  BY <1>1, <1>2, <1>3, <1>4 DEF TransportNext, Silent

\* Whatever the order of encodings, timers and client events, a page told
\* "qr" gets an image, and a used-up code is kept only by a client that is
\* shown as disconnected.
THEOREM CodeMatchesState == TransportSpec => []CodeGoesWithState
<1>1. TransportInit => RealInv
  BY TransportConnectionAssumption
  DEF TransportConnectionAssumption, TransportInit, RealInv, TransportTypeOK, CodeGoesWithState
<1>2. RealInv /\ [TransportNext]_transportVars => RealInv'
  BY StepKeeps
<1>3. RealInv => CodeGoesWithState
  BY DEF RealInv
<1>4. QED
  BY <1>1, <1>2, <1>3, PTL DEF TransportSpec

-----------------------------------------------------------------------------
(* The mock transport.                                                     *)

\* Once its second timer has fired, no code is held or being encoded.
MockInv ==
    /\ MockTypeOK
    /\ CodeGoesWithState
    /\ client \in {"mockPaired", "mockLive"} => encoding = 0 /\ qr = 0

\* The three timers keep it, in the order they are set in.
LEMMA MockStepKeeps ==
    ASSUME MockInv, [MockNext]_transportVars
    PROVE  MockInv'
<1> USE TransportConnectionAssumption DEF TransportConnectionAssumption
<1> USE DEF MockInv, MockTypeOK, MockClients, CodeGoesWithState, SetState
<1>1. CASE CodeEncoded
  BY <1>1 DEF CodeEncoded
<1>2. CASE MockAuthenticated
  BY <1>2 DEF MockAuthenticated
<1>3. CASE MockReady
  BY <1>3 DEF MockReady
<1>4. CASE MockShowCode
  BY <1>4 DEF MockShowCode
<1>5. CASE UNCHANGED transportVars
  BY <1>5 DEF transportVars
<1>6. QED
  BY <1>1, <1>2, <1>3, <1>4, <1>5 DEF MockNext, MockStateEvent

\* The mock transport, too, has an image when it says "qr" and holds no code
\* afterwards.
THEOREM MockCodeMatchesState == MockSpec => []CodeGoesWithState
<1>1. MockInit => MockInv
  BY TransportConnectionAssumption
  DEF TransportConnectionAssumption, MockInit, MockInv, MockTypeOK, MockClients,
      CodeGoesWithState
<1>2. MockInv /\ [MockNext]_transportVars => MockInv'
  BY MockStepKeeps
<1>3. MockInv => CodeGoesWithState
  BY DEF MockInv
<1>4. QED
  BY <1>1, <1>2, <1>3, PTL DEF MockSpec

-----------------------------------------------------------------------------
(* The connection under the page's server: either transport.               *)

\* createTransport() takes one of the two.
ConnInv == RealInv \/ MockInv

\* Whichever it is, its state and code are of the kinds a page is sent.
LEMMA ConnType ==
    ASSUME ConnInv
    PROVE  /\ TransportTypeOK \/ MockTypeOK
           /\ conn \in ConnStates /\ qr \in 0..MaxCodes
           /\ CodeGoesWithState
BY DEF ConnInv, RealInv, MockInv, TransportTypeOK, MockTypeOK, ConnStates

\* The clients of the two are never in each other's states, so that a step
\* of one is no step of the other.
LEMMA ConnKeeps ==
    ASSUME ConnInv,
           \/ StateEvent \/ MockStateEvent
           \/ Silent \/ MockShowCode
           \/ UNCHANGED transportVars
    PROVE  ConnInv'
<1>1. CASE RealInv
  <2>1. client \notin MockClients
    BY <1>1 DEF RealInv, TransportTypeOK, MockClients
  <2>2. ~MockAuthenticated /\ ~MockReady /\ ~MockShowCode
    BY <2>1 DEF MockAuthenticated, MockReady, MockShowCode, MockClients
  <2>3. MockStateEvent => StateEvent
    BY <2>2 DEF MockStateEvent, StateEvent
  <2> QED BY <1>1, <2>2, <2>3, StepKeeps DEF ConnInv, TransportNext
<1>2. CASE MockInv
  <2>1. client \in MockClients /\ timers = {}
    BY <1>2 DEF MockInv, MockTypeOK
  <2>2. /\ ~Authenticated /\ ~AuthFailure /\ ~Disconnected /\ ~LoadingScreen
        /\ ~ShowCode /\ ~BecomeLive
    BY <2>1 DEF Authenticated, AuthFailure, Disconnected, LoadingScreen, ShowCode,
                BecomeLive, MockClients
  <2>3. StateEvent => MockStateEvent
    BY <2>1, <2>2 DEF StateEvent, MockStateEvent
  <2> QED BY <1>2, <2>2, <2>3, MockStepKeeps DEF ConnInv, MockNext, Silent
<1> QED BY <1>1, <1>2 DEF ConnInv

-----------------------------------------------------------------------------
(* The invariant of the page.                                              *)

IsState(i)  == OfKind(wire[i], "state")
IsRow(i, s) == OfKind(wire[i], "row") /\ wire[i].id = s

\* An event on s is under way; one that the answer to the page lacks is.
Pending(s)      == \E i \in DOMAIN wire : IsRow(i, s)
PendingAfter(s) == \E i \in DOMAIN wire : IsRow(i, s) /\ ~wire[i].listed

\* What the transport reported last is the last word on the wire.
LastStateCurrent ==
    \A i \in DOMAIN wire :
        IsState(i) /\ (\A k \in DOMAIN wire : IsState(k) => k <= i)
            => wire[i].state = conn /\ wire[i].qr = qr

\* So is, of every schedule, the last version.
LastRowCurrent ==
    \A i \in DOMAIN wire, s \in Schedules :
        IsRow(i, s) /\ (\A k \in DOMAIN wire : IsRow(k, s) => k <= i)
            => wire[i].version = table[s]

OfflineIsSilent == ~online => wire = <<>>

\* An answer under way, and later the mirror, is right about every schedule
\* of which no newer event is under way.
AnswerFits ==
    list = "served" /\ ~missed =>
        \A s \in Schedules : PendingAfter(s) \/ answer[s] = table[s]
MirrorFits ==
    list = "in" /\ ~missed =>
        \A s \in Schedules : Pending(s) \/ mirror[s] = table[s]

\* The types, but for those of the transport.
PageTypeOK ==
    /\ table \in Rows
    /\ used \in SUBSET Schedules
    /\ online \in BOOLEAN
    /\ wire \in Seq(Message) /\ Len(wire) <= MaxWire
    /\ shown \in [state : ConnStates, qr : 0..MaxCodes]
    /\ list \in {"asked", "served", "denied", "in", "refused", "failed"}
    /\ answer \in Rows
    /\ mirror \in Rows
    /\ missed \in BOOLEAN

FeedInv ==
    /\ ConnInv
    /\ PageTypeOK
    /\ OfflineIsSilent
    /\ LastStateCurrent /\ ShownAgrees
    /\ LastRowCurrent /\ AnswerFits /\ MirrorFits

\* The bounds, as the provers use them.
LEMMA Bounds == /\ MaxVersion \in Nat /\ MaxVersion >= 1
                /\ MaxWire \in Nat /\ MaxWire >= 1
                /\ MaxCodes \in Nat
BY LiveFeedAssumption, TransportConnectionAssumption
DEF LiveFeedAssumption, TransportConnectionAssumption

\* A message is of one of two kinds.
LEMMA Kinds ==
    ASSUME NEW m \in Message
    PROVE  /\ OfKind(m, "state") => m.state \in ConnStates /\ m.qr \in 0..MaxCodes
           /\ ~OfKind(m, "state") <=> OfKind(m, "row")
           /\ OfKind(m, "row") => /\ m.id \in Schedules /\ m.version \in 0..MaxVersion
                                  /\ m.listed \in BOOLEAN
BY DEF Message, OfKind

\* A page that has received nothing: an empty mirror and the initial header.
LEMMA Blank == /\ NoRows \in Rows
               /\ \A h : h = [state |-> "initializing", qr |-> 0]
                           => h \in [state : ConnStates, qr : 0..MaxCodes]
<1>1. 0 \in 0..MaxVersion /\ 0 \in 0..MaxCodes
  BY Bounds
<1> QED BY <1>1 DEF NoRows, Rows, ConnStates

\* What is sent, and what of it the handlers look at.
LEMMA SentMessages ==
    /\ \A c \in ConnStates, q \in 0..MaxCodes :
          LET m == StateMessage(c, q)
          IN  m \in Message /\ OfKind(m, "state") /\ m.state = c /\ m.qr = q
    /\ \A s \in Schedules, v \in 0..MaxVersion :
          LET m == RowMessage(s, v)
          IN  /\ m \in Message /\ OfKind(m, "row") /\ m.id = s /\ m.version = v
              /\ m.listed = (list = "asked")
BY DEF StateMessage, RowMessage, Message, OfKind

\* io.emit on an open socket puts a message behind the others.
LEMMA BroadcastWire ==
    ASSUME PageTypeOK, NEW m \in Message, Broadcast(m)
    PROVE  /\ wire' \in Seq(Message) /\ Len(wire') <= MaxWire
           /\ ~online => wire' = wire
           /\ DOMAIN wire = 1..Len(wire)
           /\ Len(wire) \in Nat
           /\ online => /\ DOMAIN wire' = 1..(Len(wire) + 1)
                        /\ wire'[Len(wire) + 1] = m
                        /\ \A i \in DOMAIN wire : wire'[i] = wire[i]
<1>1. wire \in Seq(Message) /\ Len(wire) \in Nat /\ DOMAIN wire = 1..Len(wire)
  BY DEF PageTypeOK
<1>2. Len(wire) < MaxWire /\ wire' = IF online THEN Append(wire, m) ELSE wire
  BY DEF Broadcast
<1>3. /\ Append(wire, m) \in Seq(Message)
      /\ Len(Append(wire, m)) = Len(wire) + 1
      /\ Append(wire, m)[Len(wire) + 1] = m
      /\ \A i \in 1..Len(wire) : Append(wire, m)[i] = wire[i]
  BY <1>1, AppendProperties
<1>4. DOMAIN Append(wire, m) = 1..(Len(wire) + 1)
  BY <1>3, LenProperties
<1>5. CASE online
  <2>1. wire' = Append(wire, m)
    BY <1>2, <1>5
  <2>2. Len(wire) + 1 <= MaxWire
    BY <1>1, <1>2, Bounds
  <2> QED BY <1>1, <1>3, <1>4, <1>5, <2>1, <2>2
<1>6. CASE ~online
  <2>1. wire' = wire
    BY <1>2, <1>6
  <2>2. Len(wire) <= MaxWire
    BY <1>1, <1>2, Bounds
  <2> QED BY <1>1, <1>6, <2>1, <2>2
<1> QED BY <1>5, <1>6

\* The page takes the first message and the others move up.
LEMMA TailWire ==
    ASSUME PageTypeOK, wire # <<>>, wire' = Tail(wire)
    PROVE  /\ wire' \in Seq(Message) /\ Len(wire') <= MaxWire
           /\ Len(wire) \in Nat \ {0}
           /\ DOMAIN wire = 1..Len(wire) /\ DOMAIN wire' = 1..(Len(wire) - 1)
           /\ Head(wire) = wire[1] /\ Head(wire) \in Message
           /\ \A i \in DOMAIN wire' : wire'[i] = wire[i + 1]
<1>1. wire \in Seq(Message) /\ Len(wire) \in Nat \ {0} /\ DOMAIN wire = 1..Len(wire)
      /\ Len(wire) <= MaxWire
  BY EmptySeq DEF PageTypeOK
<1>2. /\ Head(wire) = wire[1] /\ Head(wire) \in Message
      /\ Tail(wire) \in Seq(Message) /\ Len(Tail(wire)) = Len(wire) - 1
      /\ \A i \in 1..Len(Tail(wire)) : Tail(wire)[i] = wire[i + 1]
  BY <1>1, HeadTailProperties
<1>3. DOMAIN Tail(wire) = 1..(Len(wire) - 1)
  BY <1>2, LenProperties
<1> QED BY <1>1, <1>2, <1>3, Bounds

-----------------------------------------------------------------------------
(* The steps.                                                              *)

\* What both parts of the wire's invariant say of the messages of a kind, or
\* of a schedule: the last of the messages in D is right.  A message m that
\* is put behind the others is the last of them if it is one of them.
LEMMA LastAppended ==
    ASSUME PageTypeOK, NEW m \in Message, Broadcast(m), online, NEW i \in DOMAIN wire'
    PROVE  /\ \/ i \in DOMAIN wire /\ wire'[i] = wire[i]
              \/ i = Len(wire) + 1 /\ wire'[i] = m
           /\ \A k \in DOMAIN wire : k \in DOMAIN wire' /\ wire'[k] = wire[k] /\ k < Len(wire) + 1
           /\ Len(wire) + 1 \in DOMAIN wire'
<1>1. /\ DOMAIN wire = 1..Len(wire) /\ Len(wire) \in Nat
      /\ DOMAIN wire' = 1..(Len(wire) + 1)
      /\ wire'[Len(wire) + 1] = m
      /\ \A k \in DOMAIN wire : wire'[k] = wire[k]
  BY BroadcastWire
<1> QED BY <1>1

\* The transport reports a state: it is the last word on the wire.
LEMMA StateChangesKeeps ==
    ASSUME FeedInv, StateChanges
    PROVE  FeedInv'
<1> DEFINE m == StateMessage(conn', qr')
<1>1. ConnInv'
  BY ConnKeeps DEF FeedInv, StateChanges
<1>2. conn' \in ConnStates /\ qr' \in 0..MaxCodes
  BY <1>1 DEF ConnInv, RealInv, MockInv, TransportTypeOK, MockTypeOK, ConnStates
<1>3. /\ m \in Message /\ OfKind(m, "state") /\ ~OfKind(m, "row")
      /\ m.state = conn' /\ m.qr = qr'
  BY <1>2, SentMessages, Kinds
<1>4. Broadcast(m) /\ UNCHANGED <<table, used, online, shown, list, answer, mirror, missed>>
  BY DEF StateChanges, rowVars, pageVars
<1> HIDE DEF m
<1>5. PageTypeOK
  BY DEF FeedInv
<1>6. PageTypeOK'
  BY <1>3, <1>4, <1>5, BroadcastWire DEF PageTypeOK, Rows
<1>7. CASE ~online
  <2>1. wire' = wire /\ wire = <<>>
    BY <1>3, <1>4, <1>5, <1>7, BroadcastWire DEF FeedInv, OfflineIsSilent
  <2>2. DOMAIN wire = {}
    BY <2>1
  <2>3. OfflineIsSilent' /\ LastStateCurrent' /\ ShownAgrees' /\ LastRowCurrent'
    BY <1>4, <1>7, <2>1, <2>2
    DEF OfflineIsSilent, LastStateCurrent, ShownAgrees, LastRowCurrent
  <2>4. AnswerFits' /\ MirrorFits'
    BY <1>4, <2>1 DEF FeedInv, AnswerFits, MirrorFits, PendingAfter, Pending, IsRow
  <2> QED BY <1>1, <1>6, <2>3, <2>4 DEF FeedInv
<1>8. CASE online
  <2>0. PICK n \in Nat : n = Len(wire) + 1
    BY <1>5 DEF PageTypeOK
  <2>1. \A i \in DOMAIN wire' : \/ i \in DOMAIN wire /\ wire'[i] = wire[i]
                                \/ i = n /\ wire'[i] = m
    BY <1>3, <1>4, <1>5, <1>8, <2>0, LastAppended
  <2>2. /\ \A i \in DOMAIN wire : i \in DOMAIN wire' /\ wire'[i] = wire[i] /\ i < n
        /\ DOMAIN wire = 1..Len(wire) /\ Len(wire) \in Nat
        /\ n \in DOMAIN wire' /\ wire'[n] = m
    BY <1>3, <1>4, <1>5, <1>8, <2>0, BroadcastWire
  <2>3. LastStateCurrent'
    <3> SUFFICES ASSUME NEW i \in DOMAIN wire', IsState(i)',
                        \A k \in DOMAIN wire' : IsState(k)' => k <= i
                 PROVE  wire'[i].state = conn' /\ wire'[i].qr = qr'
      BY DEF LastStateCurrent
    <3>1. IsState(n)'
      BY <1>3, <2>2 DEF IsState
    <3>2. i = n
      <4>1. CASE i \in DOMAIN wire
        <5>1. i \in Nat /\ i < n /\ n <= i /\ n \in Nat
          BY <2>2, <3>1, <4>1
        <5> QED BY <5>1
      <4> QED BY <2>1, <4>1
    <3> QED BY <1>3, <2>2, <3>2
  <2>4. ShownAgrees'
    BY <1>3, <2>2 DEF ShownAgrees
  <2>5. LastRowCurrent'
    <3> SUFFICES ASSUME NEW i \in DOMAIN wire', NEW s \in Schedules, IsRow(i, s)',
                        \A k \in DOMAIN wire' : IsRow(k, s)' => k <= i
                 PROVE  wire'[i].version = table'[s]
      BY DEF LastRowCurrent
    <3>1. i \in DOMAIN wire /\ wire'[i] = wire[i]
      BY <1>3, <2>1 DEF IsRow
    <3>2. \A k \in DOMAIN wire : IsRow(k, s) => k <= i
      BY <2>2 DEF IsRow
    <3> QED BY <1>4, <3>1, <3>2 DEF FeedInv, LastRowCurrent, IsRow
  <2>6. AnswerFits' /\ MirrorFits'
    BY <1>4, <2>2 DEF FeedInv, AnswerFits, MirrorFits, PendingAfter, Pending, IsRow
  <2> QED BY <1>1, <1>4, <1>6, <1>8, <2>3, <2>4, <2>5, <2>6 DEF FeedInv, OfflineIsSilent
<1> QED BY <1>5, <1>7, <1>8 DEF PageTypeOK

\* A row changes: the event that says so is the last on its schedule, or the
\* page misses the change.
LEMMA SaveRowKeeps ==
    ASSUME FeedInv, NEW s \in Schedules, NEW v \in 0..MaxVersion,
           SaveRow(s, v), used' \in SUBSET Schedules
    PROVE  FeedInv'
<1> DEFINE m == RowMessage(s, v)
<1>1. ConnInv'
  BY ConnKeeps DEF FeedInv, SaveRow
<1>3. /\ m \in Message /\ OfKind(m, "row") /\ ~OfKind(m, "state")
      /\ m.id = s /\ m.version = v /\ m.listed = (list = "asked")
  BY SentMessages, Kinds
<1>4. /\ Broadcast(m) /\ table' = [table EXCEPT ![s] = v]
      /\ missed' = MissesChange
      /\ UNCHANGED <<conn, qr, online, shown, list, answer, mirror>>
  BY DEF SaveRow, transportVars
<1> HIDE DEF m
<1>5. PageTypeOK
  BY DEF FeedInv
<1>6. PageTypeOK'
  BY <1>3, <1>4, <1>5, BroadcastWire DEF PageTypeOK, Rows, MissesChange
<1>7. CASE ~online
  <2>1. wire' = wire /\ wire = <<>>
    BY <1>3, <1>4, <1>5, <1>7, BroadcastWire DEF FeedInv, OfflineIsSilent
  <2>2. DOMAIN wire = {}
    BY <2>1
  <2>3. OfflineIsSilent' /\ LastStateCurrent' /\ ShownAgrees' /\ LastRowCurrent'
    BY <1>4, <1>7, <2>1, <2>2
    DEF OfflineIsSilent, LastStateCurrent, ShownAgrees, LastRowCurrent
  <2>4. AnswerFits' /\ MirrorFits'
    BY <1>4, <1>7 DEF AnswerFits, MirrorFits, MissesChange
  <2> QED BY <1>1, <1>6, <2>3, <2>4 DEF FeedInv
<1>8. CASE online
  <2>0. PICK n \in Nat : n = Len(wire) + 1
    BY <1>5 DEF PageTypeOK
  <2>1. \A i \in DOMAIN wire' : \/ i \in DOMAIN wire /\ wire'[i] = wire[i]
                                \/ i = n /\ wire'[i] = m
    BY <1>3, <1>4, <1>5, <1>8, <2>0, LastAppended
  <2>2. /\ \A i \in DOMAIN wire : i \in DOMAIN wire' /\ wire'[i] = wire[i] /\ i < n
        /\ DOMAIN wire = 1..Len(wire) /\ Len(wire) \in Nat
        /\ n \in DOMAIN wire' /\ wire'[n] = m
    BY <1>3, <1>4, <1>5, <1>8, <2>0, BroadcastWire
  <2>3. LastStateCurrent'
    <3> SUFFICES ASSUME NEW i \in DOMAIN wire', IsState(i)',
                        \A k \in DOMAIN wire' : IsState(k)' => k <= i
                 PROVE  wire'[i].state = conn' /\ wire'[i].qr = qr'
      BY DEF LastStateCurrent
    <3>1. i \in DOMAIN wire /\ wire'[i] = wire[i]
      BY <1>3, <2>1 DEF IsState
    <3>2. \A k \in DOMAIN wire : IsState(k) => k <= i
      BY <2>2 DEF IsState
    <3> QED BY <1>4, <3>1, <3>2 DEF FeedInv, LastStateCurrent, IsState
  <2>4. ShownAgrees'
    BY <1>4, <2>2 DEF FeedInv, ShownAgrees
  <2>5. LastRowCurrent'
    <3> SUFFICES ASSUME NEW i \in DOMAIN wire', NEW t \in Schedules, IsRow(i, t)',
                        \A k \in DOMAIN wire' : IsRow(k, t)' => k <= i
                 PROVE  wire'[i].version = table'[t]
      BY DEF LastRowCurrent
    <3>1. CASE t = s
      <4>1. IsRow(n, t)'
        BY <1>3, <2>2, <3>1 DEF IsRow
      <4>2. i = n
        <5>1. CASE i \in DOMAIN wire
          <6>1. i \in Nat /\ i < n /\ n <= i /\ n \in Nat
            BY <2>2, <4>1, <5>1
          <6> QED BY <6>1
        <5> QED BY <2>1, <5>1
      <4> QED BY <1>3, <1>4, <1>5, <2>2, <3>1, <4>2 DEF PageTypeOK, Rows
    <3>2. CASE t # s
      <4>1. i \in DOMAIN wire /\ wire'[i] = wire[i]
        BY <1>3, <2>1, <3>2 DEF IsRow
      <4>2. \A k \in DOMAIN wire : IsRow(k, t) => k <= i
        BY <2>2 DEF IsRow
      <4>3. wire[i].version = table[t]
        BY <4>1, <4>2 DEF FeedInv, LastRowCurrent, IsRow
      <4> QED BY <1>4, <1>5, <3>2, <4>1, <4>3 DEF PageTypeOK, Rows
    <3> QED BY <3>1, <3>2
  <2>6. \A t \in Schedules \ {s} : table'[t] = table[t]
    BY <1>4, <1>5 DEF PageTypeOK, Rows
  <2>7. missed' = missed /\ (list # "asked" => ~m.listed)
    BY <1>3, <1>4, <1>5, <1>8 DEF MissesChange, PageTypeOK
  <2>8. AnswerFits'
    <3> SUFFICES ASSUME list = "served", ~missed, NEW t \in Schedules
                 PROVE  PendingAfter(t)' \/ answer'[t] = table'[t]
      BY <1>4, <2>7 DEF AnswerFits
    <3>1. t = s => PendingAfter(t)'
      BY <1>3, <2>2, <2>7 DEF PendingAfter, IsRow
    <3>2. PendingAfter(t) => PendingAfter(t)'
      BY <2>2 DEF PendingAfter, IsRow
    <3>3. PendingAfter(t) \/ answer[t] = table[t]
      BY DEF FeedInv, AnswerFits
    <3> QED BY <1>4, <2>6, <3>1, <3>2, <3>3
  <2>9. MirrorFits'
    <3> SUFFICES ASSUME list = "in", ~missed, NEW t \in Schedules
                 PROVE  Pending(t)' \/ mirror'[t] = table'[t]
      BY <1>4, <2>7 DEF MirrorFits
    <3>1. t = s => Pending(t)'
      BY <1>3, <2>2 DEF Pending, IsRow
    <3>2. Pending(t) => Pending(t)'
      BY <2>2 DEF Pending, IsRow
    <3>3. Pending(t) \/ mirror[t] = table[t]
      BY DEF FeedInv, MirrorFits
    <3> QED BY <1>4, <2>6, <3>1, <3>2, <3>3
  <2> QED BY <1>1, <1>4, <1>6, <1>8, <2>3, <2>4, <2>5, <2>8, <2>9 DEF FeedInv, OfflineIsSilent
<1> QED BY <1>5, <1>7, <1>8 DEF PageTypeOK

\* The page takes the first message on the wire.
LEMMA ReceiveKeeps ==
    ASSUME FeedInv, Receive
    PROVE  FeedInv'
<1> DEFINE m == Head(wire)
<1>1. ConnInv'
  BY ConnKeeps DEF FeedInv, Receive
<1>2. /\ wire # <<>> /\ wire' = Tail(wire)
      /\ IF OfKind(m, "state") THEN ShowState(m) ELSE MergeRow(m)
      /\ UNCHANGED <<conn, qr, table, used, online, list, answer>>
  BY DEF Receive, transportVars, rowVars
<1>3. PageTypeOK
  BY DEF FeedInv
<1>4. /\ wire' \in Seq(Message) /\ Len(wire') <= MaxWire
      /\ Len(wire) \in Nat \ {0}
      /\ DOMAIN wire = 1..Len(wire) /\ DOMAIN wire' = 1..(Len(wire) - 1)
      /\ m = wire[1] /\ m \in Message
      /\ \A i \in DOMAIN wire' : wire'[i] = wire[i + 1]
  BY <1>2, <1>3, TailWire
<1> HIDE DEF m
<1>5. /\ 1 \in DOMAIN wire
      /\ \A i \in DOMAIN wire' : i + 1 \in DOMAIN wire /\ wire'[i] = wire[i + 1]
      /\ \A i \in DOMAIN wire : i # 1 => i - 1 \in DOMAIN wire' /\ wire'[i - 1] = wire[i]
  BY <1>4
<1>6. PageTypeOK'
  <2>1. shown' \in [state : ConnStates, qr : 0..MaxCodes]
    BY <1>2, <1>3, <1>4, Kinds DEF PageTypeOK, ShowState, MergeRow
  <2>2. mirror' \in Rows
    BY <1>2, <1>3, <1>4, Kinds DEF PageTypeOK, Rows, ShowState, MergeRow, Merge
  <2>3. missed' \in BOOLEAN
    BY <1>2, <1>3, <1>4, Kinds DEF PageTypeOK, ShowState, MergeRow
  <2> QED BY <1>2, <1>3, <1>4, <2>1, <2>2, <2>3 DEF PageTypeOK, Rows
<1>7. LastStateCurrent'
  <2> SUFFICES ASSUME NEW i \in DOMAIN wire', IsState(i)',
                      \A k \in DOMAIN wire' : IsState(k)' => k <= i
               PROVE  wire'[i].state = conn' /\ wire'[i].qr = qr'
    BY DEF LastStateCurrent
  <2>1. IsState(i + 1)
    BY <1>5 DEF IsState
  <2>2. ASSUME NEW k \in DOMAIN wire, IsState(k) PROVE k <= i + 1
    <3>1. CASE k # 1
      <4>1. k - 1 \in DOMAIN wire' /\ IsState(k - 1)'
        BY <1>5, <2>2, <3>1 DEF IsState
      <4>2. k - 1 <= i
        BY <4>1
      <4> QED BY <1>4, <4>2
    <3> QED BY <1>4, <3>1
  <2> QED BY <1>2, <1>5, <2>1, <2>2 DEF FeedInv, LastStateCurrent
<1>8. LastRowCurrent'
  <2> SUFFICES ASSUME NEW i \in DOMAIN wire', NEW s \in Schedules, IsRow(i, s)',
                      \A k \in DOMAIN wire' : IsRow(k, s)' => k <= i
               PROVE  wire'[i].version = table'[s]
    BY DEF LastRowCurrent
  <2>1. IsRow(i + 1, s)
    BY <1>5 DEF IsRow
  <2>2. ASSUME NEW k \in DOMAIN wire, IsRow(k, s) PROVE k <= i + 1
    <3>1. CASE k # 1
      <4>1. k - 1 \in DOMAIN wire' /\ IsRow(k - 1, s)'
        BY <1>5, <2>2, <3>1 DEF IsRow
      <4>2. k - 1 <= i
        BY <4>1
      <4> QED BY <1>4, <4>2
    <3> QED BY <1>4, <3>1
  <2> QED BY <1>2, <1>5, <2>1, <2>2 DEF FeedInv, LastRowCurrent
<1>9. CASE OfKind(m, "state")
  <2>1. ShowState(m)
    BY <1>2, <1>9
  <2>2. \A s \in Schedules : /\ Pending(s)' <=> Pending(s)
                             /\ PendingAfter(s)' <=> PendingAfter(s)
    <3>1. ~OfKind(wire[1], "row")
      BY <1>4, <1>9, Kinds
    <3> QED BY <1>5, <3>1 DEF Pending, PendingAfter, IsRow
  <2>3. AnswerFits' /\ MirrorFits'
    BY <1>2, <2>1, <2>2 DEF FeedInv, AnswerFits, MirrorFits, ShowState
  <2>4. ShownAgrees'
    <3> SUFFICES ASSUME \A i \in DOMAIN wire' : ~OfKind(wire'[i], "state")
                 PROVE  shown'.state = conn' /\ (conn' # "ready" => shown'.qr = qr')
      BY DEF ShownAgrees
    <3>1. \A k \in DOMAIN wire : IsState(k) => k <= 1
      BY <1>4, <1>5 DEF IsState
    <3>2. IsState(1)
      BY <1>4, <1>9 DEF IsState
    <3>3. m.state = conn /\ m.qr = qr
      BY <1>4, <1>5, <3>1, <3>2 DEF FeedInv, LastStateCurrent
    <3> QED BY <1>2, <2>1, <3>3 DEF ShowState
  <2> QED BY <1>1, <1>2, <1>6, <1>7, <1>8, <2>3, <2>4, <1>4 DEF FeedInv, OfflineIsSilent
<1>10. CASE ~OfKind(m, "state")
  <2>1. MergeRow(m) /\ OfKind(m, "row") /\ m.id \in Schedules /\ m.listed \in BOOLEAN
    BY <1>2, <1>4, <1>10, Kinds
  <2>2. ShownAgrees'
    <3>1. (\A i \in DOMAIN wire' : ~OfKind(wire'[i], "state"))
             => \A i \in DOMAIN wire : ~OfKind(wire[i], "state")
      BY <1>4, <1>5, <1>10
    <3> QED BY <1>2, <2>1, <3>1 DEF FeedInv, ShownAgrees, MergeRow
  <2>3. \A s \in Schedules : Pending(s) /\ ~Pending(s)' => m.id = s /\ m.version = table[s]
    <3> SUFFICES ASSUME NEW s \in Schedules, Pending(s), ~Pending(s)'
                 PROVE  m.id = s /\ m.version = table[s]
      OBVIOUS
    <3>1. \A k \in DOMAIN wire : IsRow(k, s) => k = 1
      BY <1>5 DEF Pending, IsRow
    <3>2. IsRow(1, s) /\ 1 \in DOMAIN wire
      BY <3>1 DEF Pending
    <3>3. wire[1].version = table[s]
      BY <3>1, <3>2 DEF FeedInv, LastRowCurrent
    <3> QED BY <1>4, <3>2, <3>3 DEF IsRow
  <2>4. AnswerFits'
    <3> SUFFICES ASSUME list = "served", ~missed', NEW s \in Schedules
                 PROVE  PendingAfter(s)' \/ answer'[s] = table'[s]
      BY <1>2 DEF AnswerFits
    <3>1. ~missed /\ m.listed
      BY <2>1 DEF MergeRow
    <3>2. PendingAfter(s) => PendingAfter(s)'
      BY <1>4, <1>5, <3>1 DEF PendingAfter, IsRow
    <3> QED BY <1>2, <3>1, <3>2 DEF FeedInv, AnswerFits
  <2>5. MirrorFits'
    <3> SUFFICES ASSUME list = "in", ~missed', NEW s \in Schedules, ~Pending(s)'
                 PROVE  mirror'[s] = table'[s]
      BY <1>2 DEF MirrorFits
    <3>1. mirror' = [mirror EXCEPT ![m.id] = m.version] /\ ~missed
      BY <2>1 DEF MergeRow, Merge
    <3>2. CASE m.id = s
      <4>1. Pending(s)
        BY <1>4, <1>5, <2>1, <3>2 DEF Pending, IsRow
      <4> QED BY <1>2, <1>3, <2>3, <3>1, <3>2, <4>1 DEF PageTypeOK, Rows
    <3>3. CASE m.id # s
      <4>1. mirror[s] = table[s]
        BY <2>3, <3>1, <3>3 DEF FeedInv, MirrorFits
      <4> QED BY <1>2, <1>3, <3>1, <3>3, <4>1 DEF PageTypeOK, Rows
    <3> QED BY <3>2, <3>3
  <2> QED BY <1>1, <1>2, <1>4, <1>6, <1>7, <1>8, <2>2, <2>4, <2>5 DEF FeedInv, OfflineIsSilent
<1> QED BY <1>9, <1>10

\* What the other steps of the server, the socket and the request leave.
LEMMA WireUntouched ==
    ASSUME FeedInv, UNCHANGED <<conn, qr, table, used, online, wire, shown>>
    PROVE  /\ OfflineIsSilent' /\ LastStateCurrent' /\ ShownAgrees' /\ LastRowCurrent'
           /\ \A s \in Schedules : /\ Pending(s)' <=> Pending(s)
                                   /\ PendingAfter(s)' <=> PendingAfter(s)
BY DEF FeedInv, OfflineIsSilent, LastStateCurrent, ShownAgrees, LastRowCurrent, IsState, IsRow,
       Pending, PendingAfter

\* A move of the client that the transport does not report, or nothing.
LEMMA QuietKeeps ==
    ASSUME FeedInv, ClientMoves \/ UNCHANGED vars
    PROVE  FeedInv'
<1>1. ConnInv'
  BY ConnKeeps DEF FeedInv, ClientMoves, vars
<1>2. UNCHANGED <<conn, qr, table, used, online, wire, shown, list, answer, mirror, missed>>
  BY DEF ClientMoves, Silent, ShowCode, BecomeLive, MockShowCode, vars, transportVars, rowVars,
         pageVars
<1>3. PageTypeOK'
  BY <1>2 DEF FeedInv, PageTypeOK, Rows
<1>4. AnswerFits' /\ MirrorFits'
  BY <1>2, WireUntouched DEF FeedInv, AnswerFits, MirrorFits
<1> QED BY <1>1, <1>2, <1>3, <1>4, WireUntouched DEF FeedInv

\* A new socket starts with the snapshot, and nothing else is on it.
LEMMA SocketOpensKeeps ==
    ASSUME FeedInv, SocketOpens
    PROVE  FeedInv'
<1> DEFINE m == StateMessage(conn, qr)
<1>1. ConnInv'
  BY ConnKeeps DEF FeedInv, SocketOpens
<1>2. /\ ~online /\ online' /\ online' \in BOOLEAN /\ wire' = <<m>> /\ wire = <<>>
      /\ UNCHANGED <<conn, qr, table, used, shown, list, answer, mirror, missed>>
  BY DEF SocketOpens, transportVars, rowVars, pageVars, FeedInv, OfflineIsSilent
<1>3. /\ m \in Message /\ OfKind(m, "state") /\ ~OfKind(m, "row")
      /\ m.state = conn /\ m.qr = qr
  BY ConnType, SentMessages, Kinds DEF FeedInv
<1> HIDE DEF m
<1>4. /\ wire' \in Seq(Message) /\ Len(wire') = 1 /\ DOMAIN wire' = {1} /\ wire'[1] = m
      /\ DOMAIN wire = {}
  BY <1>2, <1>3
<1>5. PageTypeOK'
  BY <1>2, <1>4, Bounds DEF FeedInv, PageTypeOK, Rows
<1>6. OfflineIsSilent' /\ LastStateCurrent' /\ ShownAgrees' /\ LastRowCurrent'
  BY <1>2, <1>3, <1>4
  DEF OfflineIsSilent, LastStateCurrent, ShownAgrees, LastRowCurrent, IsState, IsRow
<1>7. \A s \in Schedules : ~Pending(s) /\ ~PendingAfter(s)
  BY <1>4 DEF Pending, PendingAfter
<1>8. AnswerFits' /\ MirrorFits'
  BY <1>2, <1>7 DEF FeedInv, AnswerFits, MirrorFits
<1> QED BY <1>1, <1>5, <1>6, <1>8 DEF FeedInv

\* What a socket that closes, or a page that is loaded again, leaves.
LEMMA SilentWire ==
    ASSUME ~online', wire' = <<>>
    PROVE  /\ OfflineIsSilent' /\ LastStateCurrent' /\ ShownAgrees' /\ LastRowCurrent'
           /\ wire' \in Seq(Message) /\ Len(wire') = 0
<1>1. DOMAIN wire' = {} /\ wire' \in Seq(Message) /\ Len(wire') = 0
  OBVIOUS
<1> QED BY <1>1 DEF OfflineIsSilent, LastStateCurrent, ShownAgrees, LastRowCurrent

\* Events under way are lost with the socket, and the page misses them.
LEMMA SocketClosesKeeps ==
    ASSUME FeedInv, SocketCloses
    PROVE  FeedInv'
<1>1. ConnInv'
  BY ConnKeeps DEF FeedInv, SocketCloses
<1>2. /\ ~online' /\ online' \in BOOLEAN /\ wire' = <<>>
      /\ missed' = (missed \/ (list # "asked" /\ RowsUnderWay))
      /\ UNCHANGED <<table, used, shown, list, answer, mirror>>
  BY DEF SocketCloses, rowVars
<1>3. PageTypeOK'
  BY <1>2, SilentWire, Bounds DEF FeedInv, PageTypeOK, Rows
<1>4. ~RowsUnderWay => \A s \in Schedules : ~Pending(s) /\ ~PendingAfter(s)
  BY DEF RowsUnderWay, Pending, PendingAfter, IsRow
<1>5. AnswerFits' /\ MirrorFits'
  BY <1>2, <1>4 DEF FeedInv, AnswerFits, MirrorFits
<1> QED BY <1>1, <1>2, <1>3, <1>5, SilentWire DEF FeedInv

\* The one HTTP request: its answer is the table, and then the mirror.
LEMMA RequestKeeps ==
    ASSUME FeedInv, ServeList \/ ListArrives \/ ListFails
    PROVE  FeedInv'
<1>1. ConnInv'
  BY ConnKeeps DEF FeedInv, ServeList, ListArrives, ListFails
<1>2. UNCHANGED <<conn, qr, table, used, online, wire, shown, missed>>
  BY DEF ServeList, ListArrives, ListFails, transportVars, rowVars
<1>4. PageTypeOK'
  BY <1>2, Blank DEF FeedInv, PageTypeOK, ServeList, ListArrives, ListFails
<1>5. AnswerFits' /\ MirrorFits'
  <2>1. CASE ServeList
    BY <1>2, <2>1, WireUntouched DEF ServeList, FeedInv, AnswerFits, MirrorFits
  <2>2. CASE ListArrives
    <3>1. \A s \in Schedules : PendingAfter(s) => Pending(s)
      BY DEF PendingAfter, Pending
    <3> QED BY <1>2, <2>2, <3>1, WireUntouched DEF ListArrives, FeedInv, AnswerFits, MirrorFits
  <2>3. CASE ListFails
    BY <2>3 DEF ListFails, AnswerFits, MirrorFits
  <2> QED BY <2>1, <2>2, <2>3
<1> QED BY <1>1, <1>2, <1>4, <1>5, WireUntouched DEF FeedInv

\* A page that is loaded again starts from nothing.
LEMMA ReloadKeeps ==
    ASSUME FeedInv, Reload
    PROVE  FeedInv'
<1>1. ConnInv'
  BY ConnKeeps DEF FeedInv, Reload
<1>2. PageTypeOK'
  <2>0. wire' \in Seq(Message) /\ Len(wire') <= MaxWire
    BY SilentWire, Bounds DEF Reload
  <2>1. /\ online' \in BOOLEAN /\ missed' \in BOOLEAN
        /\ list' \in {"asked", "served", "denied", "in", "refused", "failed"}
    BY DEF Reload
  <2>2. shown' = [state |-> "initializing", qr |-> 0] /\ answer' = NoRows /\ mirror' = NoRows
    BY DEF Reload
  <2>3. shown' \in [state : ConnStates, qr : 0..MaxCodes]
    BY <2>2, Blank
  <2>4. answer' \in Rows /\ mirror' \in Rows
    BY <2>2, Blank
  <2> QED BY <2>0, <2>1, <2>3, <2>4 DEF Reload, FeedInv, PageTypeOK, Rows, rowVars
<1>3. AnswerFits' /\ MirrorFits'
  BY DEF Reload, AnswerFits, MirrorFits
<1> QED BY <1>1, <1>2, <1>3, SilentWire DEF FeedInv, Reload

\* A server that starts, and a page that has received nothing.
LEMMA FeedInitInv == FeedInit => FeedInv
<1> SUFFICES ASSUME FeedInit PROVE FeedInv
  OBVIOUS
<1>1. ConnInv
  BY Bounds DEF FeedInit, TransportInit, MockInit, ConnInv, RealInv, MockInv, TransportTypeOK,
                MockTypeOK, MockClients, CodeGoesWithState
<1>2. DOMAIN wire = {} /\ wire \in Seq(Message) /\ Len(wire) = 0
  BY DEF FeedInit
<1>3. PageTypeOK
  <2>0. wire \in Seq(Message) /\ Len(wire) <= MaxWire
    BY <1>2, Bounds
  <2>1. /\ online \in BOOLEAN /\ missed \in BOOLEAN /\ used \in SUBSET Schedules
        /\ list \in {"asked", "served", "denied", "in", "refused", "failed"}
    BY DEF FeedInit
  <2>2. /\ shown \in [state : ConnStates, qr : 0..MaxCodes]
        /\ table \in Rows /\ answer \in Rows /\ mirror \in Rows
    BY Blank DEF FeedInit
  <2> QED BY <2>0, <2>1, <2>2 DEF PageTypeOK
<1>4. OfflineIsSilent /\ LastStateCurrent /\ ShownAgrees /\ LastRowCurrent
  BY <1>2 DEF FeedInit, OfflineIsSilent, LastStateCurrent, ShownAgrees, LastRowCurrent
<1>5. AnswerFits /\ MirrorFits
  BY DEF FeedInit, AnswerFits, MirrorFits
<1> QED BY <1>1, <1>3, <1>4, <1>5 DEF FeedInv

\* No step of server, socket, request or page breaks it.
LEMMA FeedStep == FeedInv /\ [Next]_vars => FeedInv'
<1> SUFFICES ASSUME FeedInv, [Next]_vars PROVE FeedInv'
  OBVIOUS
<1>1. ASSUME NEW s \in Schedules, Create(s) \/ Update(s) \/ Remove(s)
      PROVE  FeedInv'
  <2>1. PICK v \in 0..MaxVersion : SaveRow(s, v)
    <3>1. table[s] \in Nat
      BY DEF FeedInv, PageTypeOK, Rows
    <3>2. 0 \in 0..MaxVersion /\ 1 \in 0..MaxVersion
      BY Bounds
    <3>3. table[s] \in 1..(MaxVersion - 1) => table[s] + 1 \in 0..MaxVersion
      BY <3>1, Bounds
    <3> QED BY <1>1, <3>2, <3>3 DEF Create, Update, Remove
  <2>2. used' \in SUBSET Schedules
    BY <1>1 DEF Create, Update, Remove, FeedInv, PageTypeOK
  <2> QED BY <2>1, <2>2, SaveRowKeeps
<1> QED BY <1>1, StateChangesKeeps, QuietKeeps, SocketOpensKeeps, SocketClosesKeeps,
           RequestKeeps, ReceiveKeeps, ReloadKeeps DEF Next

\* What is on the wire is right in every reachable state.
THEOREM WireIsRight == Spec => []FeedInv
<1> QED BY FeedInitInv, FeedStep, PTL DEF Spec

\* The page's state has its types, and the wire holds messages only.
THEOREM FeedTypes == Spec => []TypeOK
<1>1. FeedInv => TypeOK
  BY ConnType DEF FeedInv, PageTypeOK, TypeOK
<1> QED BY <1>1, WireIsRight, PTL

\* The server's transport, whichever it is, has an image when it says "qr"
\* and holds no code that was used up.
THEOREM CodeIsCurrent == Spec => []CodeGoesWithState
<1>1. FeedInv => CodeGoesWithState
  BY ConnType DEF FeedInv
<1> QED BY <1>1, WireIsRight, PTL

\* A connected page shows the state of the transport and the current code as
\* soon as no state is under way, after any reconnections and reloads.
THEOREM PageShowsState == Spec => []ShownAgrees
<1>1. FeedInv => ShownAgrees
  BY DEF FeedInv
<1> QED BY <1>1, WireIsRight, PTL

\* The page's list is the table once no event is under way, in whatever order
\* events and the answer to the request came, unless it missed a change.
THEOREM PageMirrorsTable == Spec => []MirrorAgrees
<1>1. FeedInv => MirrorAgrees
  <2> SUFFICES ASSUME FeedInv, list = "in", ~missed, ~RowsUnderWay
               PROVE  mirror = table
    BY DEF MirrorAgrees
  <2>1. \A s \in Schedules : mirror[s] = table[s]
    BY DEF FeedInv, MirrorFits, Pending, IsRow, RowsUnderWay
  <2> QED BY <2>1 DEF FeedInv, PageTypeOK, Rows
<1> QED BY <1>1, WireIsRight, PTL
=============================================================================
