------------------------------ MODULE LiveFeed ------------------------------
(***************************************************************************)
(* What an open page shows of the server: the connection state, sent over  *)
(* Socket.IO and as a snapshot to every new socket, and the list of        *)
(* schedules, read once over HTTP and kept up to date by events            *)
(* (server.js, the emits of scheduler/index.js, the handlers of app.js).   *)
(*                                                                         *)
(* One page.  Its socket delivers in order and may close and reopen; what  *)
(* was under way is lost.  The HTTP answer is not ordered with the socket. *)
(* The server stays up.  A row of schedules is its version, 0 if there is  *)
(* none; ids are random and do not come back.                              *)
(***************************************************************************)
EXTENDS MockTransport, Sequences

CONSTANTS Schedules,    \* ids of schedules
          MaxVersion,   \* bound: versions of one row
          MaxWire       \* bound: messages under way on the socket

\* A row that exists has a version, and a snapshot fits on the wire.
ASSUME LiveFeedAssumption == MaxVersion \in Nat \ {0} /\ MaxWire \in Nat \ {0}

VARIABLES
    table,    \* the schedules table
    used,     \* ids that were given out
    online,   \* the socket of the page is connected
    wire,     \* messages under way to it
    shown,    \* the state and the code the page displays
    list,     \* loadSchedules(): "asked", "served", "in", "refused" or "failed"
    answer,   \* the rows of the answer under way
    mirror,   \* `schedules` in app.js
    missed    \* history: a change passed the page by (see MissesChange)

rowVars  == <<table, used>>
pageVars == <<shown, list, answer, mirror, missed>>
vars     == <<transportVars, rowVars, online, wire, pageVars>>

Rows == [Schedules -> 0..MaxVersion]
NoRows == [s \in Schedules |-> 0]

StateMessage(c, q) == [kind |-> "state", state |-> c, qr |-> q]
\* `listed`: history, the change is part of the answer the page will get.
RowMessage(s, v) == [kind |-> "row", id |-> s, version |-> v, listed |-> list = "asked"]
OfKind(m, k) == m.kind = k
RowsUnderWay == \E i \in DOMAIN wire : OfKind(wire[i], "row")

FeedInit ==
    /\ TransportInit \/ MockInit
    /\ table = NoRows
    /\ used = {}
    /\ online = FALSE
    /\ wire = <<>>
    /\ shown = [state |-> "initializing", qr |-> 0]
    /\ list = "asked"
    /\ answer = NoRows
    /\ mirror = NoRows
    /\ missed = FALSE

\* io.emit to the page.
Broadcast(m) ==
    /\ Len(wire) < MaxWire
    /\ wire' = IF online THEN Append(wire, m) ELSE wire

-----------------------------------------------------------------------------
(* The server.                                                             *)

StateChanges ==
    /\ StateEvent \/ MockStateEvent
    /\ Broadcast(StateMessage(conn', qr'))
    /\ UNCHANGED <<rowVars, online, pageVars>>

ClientMoves ==
    /\ Silent \/ MockShowCode
    /\ UNCHANGED <<rowVars, online, wire, pageVars>>

\* A change after the page's list was read that the page is not told of.
MissesChange == missed \/ (~online /\ list # "asked")

\* The row of s becomes v and scheduleUpdate, or for 0 scheduleRemoved, is
\* emitted in the same callback.
SaveRow(s, v) ==
    /\ table' = [table EXCEPT ![s] = v]
    /\ Broadcast(RowMessage(s, v))
    /\ missed' = MissesChange
    /\ UNCHANGED <<transportVars, online, shown, list, answer, mirror>>

Create(s) == /\ s \notin used
             /\ used' = used \cup {s}
             /\ SaveRow(s, 1)

\* _fireDue and onJobSettled, on a row that still exists.
Update(s) == /\ table[s] \in 1..(MaxVersion - 1)
             /\ SaveRow(s, table[s] + 1)
             /\ UNCHANGED used

Remove(s) == /\ table[s] # 0
             /\ SaveRow(s, 0)
             /\ UNCHANGED used

\* Mutant of SocketOpens: a new socket gets no snapshot.
SocketOpensSilently ==
    /\ ~online
    /\ online' = TRUE
    /\ wire' = <<>>
    /\ UNCHANGED <<transportVars, rowVars, pageVars>>

\* io.on('connection') emits getSnapshot() to the new socket.
SocketOpens ==
    /\ ~online
    /\ online' = TRUE
    /\ wire' = <<StateMessage(conn, qr)>>
    /\ UNCHANGED <<transportVars, rowVars, pageVars>>

SocketCloses ==
    /\ online
    /\ online' = FALSE
    /\ wire' = <<>>
    /\ missed' = (missed \/ (list # "asked" /\ RowsUnderWay))
    /\ UNCHANGED <<transportVars, rowVars, shown, list, answer, mirror>>

\* GET /api/schedules is answered with list(), or with an error object.
ServeList ==
    /\ list = "asked"
    /\ \/ list' = "served" /\ answer' = table
       \/ list' = "denied" /\ UNCHANGED answer
    /\ UNCHANGED <<transportVars, rowVars, online, wire, shown, mirror, missed>>

-----------------------------------------------------------------------------
(* The page.                                                               *)

\* socket.on('state'): a page that is ready does not touch the QR image.
ShowState(m) ==
    /\ shown' = [state |-> m.state, qr |-> IF m.state = "ready" THEN shown.qr ELSE m.qr]
    /\ UNCHANGED <<mirror, missed>>

\* Mutant of Merge: an update of an unknown id is ignored.
MergeKnown(rows, m) ==
    IF rows[m.id] = 0 THEN rows ELSE [rows EXCEPT ![m.id] = m.version]

\* socket.on('scheduleUpdate'), socket.on('scheduleRemoved') on the mirror.
Merge(rows, m) == [rows EXCEPT ![m.id] = m.version]

\* A refused list left an object in `schedules`: the handlers throw.  A
\* change the answer under way lacks is lost when that answer arrives.
MergeRow(m) ==
    /\ mirror' = IF list = "refused" THEN mirror ELSE Merge(mirror, m)
    /\ missed' = (missed \/ (list = "served" /\ ~m.listed))
    /\ UNCHANGED shown

Receive ==
    /\ wire # <<>>
    /\ wire' = Tail(wire)
    /\ IF OfKind(Head(wire), "state") THEN ShowState(Head(wire)) ELSE MergeRow(Head(wire))
    /\ UNCHANGED <<transportVars, rowVars, online, list, answer>>

\* loadSchedules() does not look at res.ok: the body replaces the mirror.
ListArrives ==
    /\ \/ list = "served" /\ list' = "in" /\ mirror' = answer
       \/ list = "denied" /\ list' = "refused" /\ UNCHANGED mirror
    /\ answer' = NoRows
    /\ UNCHANGED <<transportVars, rowVars, online, wire, shown, missed>>

\* The request or its answer is lost: the mirror keeps what events brought.
ListFails ==
    /\ list \in {"asked", "served", "denied"}
    /\ list' = "failed"
    /\ answer' = NoRows
    /\ UNCHANGED <<transportVars, rowVars, online, wire, shown, mirror, missed>>

\* The page is loaded again: a new socket, a new request.
Reload ==
    /\ online' = FALSE
    /\ wire' = <<>>
    /\ shown' = [state |-> "initializing", qr |-> 0]
    /\ list' = "asked"
    /\ mirror' = NoRows
    /\ missed' = FALSE
    /\ answer' = NoRows
    /\ UNCHANGED <<transportVars, rowVars>>

-----------------------------------------------------------------------------
Next == \/ StateChanges \/ ClientMoves
        \/ \E s \in Schedules : Create(s) \/ Update(s) \/ Remove(s)
        \/ SocketOpens \/ SocketCloses
        \/ ServeList \/ Receive \/ ListArrives \/ ListFails
        \/ Reload

Spec == FeedInit /\ [][Next]_vars

\* The socket delivers and reconnects, timers and encodings end.  Clients,
\* users and the HTTP request promise nothing.
FairSpec ==
    /\ Spec
    /\ WF_vars(Receive) /\ WF_vars(SocketOpens)
    /\ WF_vars(CodeEncoded /\ StateChanges)
    /\ \A t \in 0..MaxCodes : WF_vars(ReadyTimer(t) /\ StateChanges)
    /\ WF_vars(MockShowCode /\ ClientMoves)
    /\ WF_vars((MockAuthenticated \/ MockReady) /\ StateChanges)

-----------------------------------------------------------------------------
(* Properties.                                                             *)

ConnStates == {"initializing", "qr", "authenticated", "ready", "disconnected"}
Message == [kind : {"state"}, state : ConnStates, qr : 0..MaxCodes] \cup
           [kind : {"row"}, id : Schedules, version : 0..MaxVersion, listed : BOOLEAN]

TypeOK ==
    /\ TransportTypeOK \/ MockTypeOK
    /\ table \in Rows
    /\ used \in SUBSET Schedules
    /\ online \in BOOLEAN
    /\ wire \in Seq(Message) /\ Len(wire) <= MaxWire
    /\ shown \in [state : ConnStates, qr : 0..MaxCodes]
    /\ list \in {"asked", "served", "denied", "in", "refused", "failed"}
    /\ answer \in Rows
    /\ mirror \in Rows
    /\ missed \in BOOLEAN

\* A page whose socket is connected shows the state of the transport and the
\* current QR code as soon as no state message is under way, after every
\* reconnection and reload, and however the transport got there.
ShownAgrees ==
    online /\ (\A i \in DOMAIN wire : ~OfKind(wire[i], "state")) =>
        /\ shown.state = conn
        /\ conn # "ready" => shown.qr = qr

\* The page's list of schedules is the table once no event is under way,
\* whatever the order in which events and the answer of the one HTTP request
\* came, except after a change while the socket was closed or one that
\* overtook the answer: nothing brings those back but a reload.
MirrorAgrees ==
    list = "in" /\ ~missed /\ ~RowsUnderWay => mirror = table

\* A client that stays live is shown as connected by a page whose socket
\* stays open; the mock transport gets there by itself.
LiveIsShown ==
    <>[](client \in {"live"} \cup MockClients /\ online) => <>[](shown.state = "ready")
=============================================================================
