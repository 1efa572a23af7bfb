------------------------------ MODULE ChatView -------------------------------
(***************************************************************************)
(* The chat tab of the page (loadChats, openChat and the 'chatMessage'     *)
(* handler of public/app.js) against the server that answers its requests  *)
(* (routes/chats.js) and pushes every message over the socket.             *)
(*                                                                         *)
(* The thread and the list are each read over HTTP and then kept up to     *)
(* date by events.  Answers are ordered neither with each other nor with   *)
(* events; events are ordered among themselves, and lost while the socket  *)
(* is closed.  A message is its chat and its number in that chat; a        *)
(* conversation with no messages does not exist yet.  Who wrote a bubble,  *)
(* day labels, and the chat's place in the list are left out.              *)
(***************************************************************************)
EXTENDS Naturals, Sequences

CONSTANTS Chats,         \* conversations
          NoChat,        \* no conversation
          Searches,      \* what the search box may hold
          Everything,    \* the empty search
          Matching,      \* the chats a search finds
          Slots,         \* bound: requests under way at once
          Known,         \* chats that have a message when the page requests
          MaxMessages,   \* bound: messages of each chat
          MaxWire        \* bound: events under way

ASSUME ChatViewAssumption ==
    /\ NoChat \notin Chats
    /\ Everything \in Searches
    /\ Matching \in [Searches -> SUBSET Chats]
    /\ Matching[Everything] = Chats
    /\ Known \in SUBSET Chats
    /\ MaxMessages \in [Chats -> Nat] /\ MaxWire \in Nat
    /\ \A c \in Known : MaxMessages[c] > 0

VARIABLES
    store,      \* messages of each chat so far
    online,     \* the page's socket is connected
    wire,       \* chatMessage events under way
    active,     \* activeChatId
    thread,     \* chatMessages: what it shows and its bubbles
    list,       \* chatListData: last message (0: no entry) and unread badge
    listOf,     \* history: the search whose answer chatListData is
    drawn,      \* the rows in the page
    search,     \* chatSearch.value
    timer,      \* chatSearchTimer is set
    requests,   \* GET /chats/:id/messages and GET /chats under way
    threadOff,  \* history: the last answer did not fit, or an event was lost
    listOff     \* history: the same of the list

serverVars == <<store, online, wire>>
threadVars == <<active, thread, threadOff>>
listVars   == <<list, listOf, drawn, listOff>>
boxVars    == <<search, timer>>
vars       == <<serverVars, threadVars, listVars, boxVars, requests>>

Idle == [of |-> "nothing", phase |-> "none"]
Is(s, of, phase) == requests[s].of = of /\ requests[s].phase = phase
NoRows == [c \in Chats |-> "none"]
Unlisted == [last |-> 0, unread |-> FALSE]
\* A message, as an event and as a bubble.
Message(c, n) == [chat |-> c, n |-> n]
EventsOf(c) == {i \in DOMAIN wire : wire[i].chat = c}
UnderWay(c) == EventsOf(c) # {}

Init ==
    /\ store = [c \in Chats |-> IF c \in Known THEN 1 ELSE 0]
    /\ online = FALSE
    /\ wire = <<>>
    /\ active = NoChat
    /\ thread = [shows |-> "nothing", bubbles |-> <<>>]
    /\ list = [c \in Chats |-> Unlisted]
    /\ listOf = Everything
    /\ drawn = NoRows
    /\ search = Everything
    /\ timer = FALSE
    /\ requests = [s \in Slots |-> Idle]
    /\ threadOff = FALSE
    /\ listOff = TRUE

-----------------------------------------------------------------------------
(* The chat list.                                                          *)

\* renderChatList.
Rows(l) == [c \in Chats |-> IF l[c].last = 0 THEN "none"
                            ELSE IF l[c].unread THEN "badge" ELSE "plain"]

\* apiFetch.
Ask(r) == \E s \in Slots : /\ requests[s] = Idle
                           /\ requests' = [requests EXCEPT ![s] = r]
Answered(s) == requests' = [requests EXCEPT ![s] = Idle]

\* loadChats(search), up to its await.
AskList(f) == Ask([of |-> "list", phase |-> "asked", search |-> f])

\* GET /chats: the chats the search finds, each with its last message.
ServeList(s) ==
    /\ Is(s, "list", "asked")
    /\ requests' = [requests EXCEPT ![s] =
           [of |-> "list", phase |-> "served", search |-> @.search,
            last |-> [c \in Chats |-> IF c \in Matching[@.search] THEN store[c] ELSE 0]]]
    /\ UNCHANGED <<serverVars, threadVars, list, listOf, drawn, listOff, boxVars>>

\* History: of every chat found, the last message is in the answer or its
\* event is under way.
ListFits(last, f) == \A c \in Matching[f] : last[c] = store[c] \/ UnderWay(c)

\* The answer replaces chatListData.  Unread counts are WhatsApp's own.
ListArrives(s) ==
    /\ Is(s, "list", "served")
    /\ \E unread \in BOOLEAN :
           list' = [c \in Chats |-> IF requests[s].last[c] = 0 THEN Unlisted
                                    ELSE [last |-> requests[s].last[c], unread |-> unread]]
    /\ drawn' = Rows(list')
    /\ listOf' = requests[s].search
    /\ listOff' = ~(requests[s].search = search /\ ListFits(requests[s].last, search))
    /\ Answered(s)
    /\ UNCHANGED <<serverVars, threadVars, boxVars>>

\* An error takes the place of the rows; chatListData stays as it was.
ListFails(s) ==
    /\ requests[s].of = "list"
    /\ drawn' = NoRows
    /\ listOff' = TRUE
    /\ Answered(s)
    /\ UNCHANGED <<serverVars, threadVars, list, listOf, boxVars>>

Type(f) ==
    /\ search' = f
    /\ timer' = TRUE
    /\ UNCHANGED <<serverVars, threadVars, listVars, requests>>

\* 250 ms after the last key press.
SearchTimer ==
    /\ timer
    /\ timer' = FALSE
    /\ AskList(search)
    /\ UNCHANGED <<serverVars, threadVars, list, listOf, drawn, listOff, search>>

-----------------------------------------------------------------------------
(* The thread.                                                             *)

\* openChat(c), up to its await: the list is drawn before the chat's unread
\* count is reset.
OpenChat(c) ==
    /\ drawn[c] # "none"
    /\ active' = c
    /\ drawn' = Rows(list)
    /\ list' = IF list[c].last = 0 THEN list ELSE [list EXCEPT ![c].unread = FALSE]
    /\ thread' = [shows |-> "loading", bubbles |-> <<>>]
    /\ Ask([of |-> "thread", phase |-> "asked", chat |-> c])
    /\ UNCHANGED <<serverVars, listOf, threadOff, listOff, boxVars>>

\* GET /chats/:id/messages.
ServeThread(s) ==
    /\ Is(s, "thread", "asked")
    /\ requests' = [requests EXCEPT ![s] =
           [of |-> "thread", phase |-> "served", chat |-> @.chat, upto |-> store[@.chat]]]
    /\ UNCHANGED <<serverVars, active, thread, threadOff, listVars, boxVars>>

History(c, n) == [i \in 1..n |-> Message(c, i)]

\* The events of chat c under way are its messages from k + 1 on, each once
\* and in order.
Continues(c, k) ==
    /\ k <= store[c]
    /\ {wire[i].n : i \in EventsOf(c)} = (k + 1)..store[c]
    /\ \A i, j \in EventsOf(c) : i < j => wire[i].n < wire[j].n

\* History: the answer and the events under way make up the active chat.
ThreadFits(r) == r.chat = active /\ Continues(active, r.upto)

\* Mutant of ThreadArrives: the thread is not emptied first.
ThreadAppended(s) ==
    /\ Is(s, "thread", "served")
    /\ thread' = [shows |-> "messages",
                  bubbles |-> thread.bubbles \o History(requests[s].chat, requests[s].upto)]
    /\ threadOff' = ~ThreadFits(requests[s])
    /\ Answered(s)
    /\ UNCHANGED <<serverVars, active, listVars, boxVars>>

\* renderMessages: the answer is shown whichever chat is active by now, and
\* takes the place of bubbles that events have appended.
ThreadArrives(s) ==
    /\ Is(s, "thread", "served")
    /\ thread' = [shows |-> "messages", bubbles |-> History(requests[s].chat, requests[s].upto)]
    /\ threadOff' = ~ThreadFits(requests[s])
    /\ Answered(s)
    /\ UNCHANGED <<serverVars, active, listVars, boxVars>>

\* Refused (not ready, not found) or lost: an error takes the place.
ThreadFails(s) ==
    /\ requests[s].of = "thread"
    /\ thread' = [shows |-> "error", bubbles |-> <<>>]
    /\ Answered(s)
    /\ UNCHANGED <<serverVars, active, threadOff, listVars, boxVars>>

-----------------------------------------------------------------------------
(* Messages.                                                               *)

Lost(cs) == /\ threadOff' = (threadOff \/ active \in cs)
            /\ listOff' = (listOff \/ cs # {})

\* 'message_create', for both directions, sends of this page included.
NewMessage(c) ==
    /\ store[c] < MaxMessages[c]
    /\ Len(wire) < MaxWire
    /\ store' = [store EXCEPT ![c] = @ + 1]
    /\ wire' = IF online THEN Append(wire, Message(c, store[c] + 1)) ELSE wire
    /\ Lost(IF online THEN {} ELSE {c})
    /\ UNCHANGED <<online, active, thread, list, listOf, drawn, requests, boxVars>>

\* Mutant of Receive: the bubble is appended whichever chat is open.
ReceiveInAnyThread(mine) ==
    /\ wire # <<>>
    /\ LET m == Head(wire)
           c == m.chat
       IN  /\ IF list[c].last # 0
              THEN /\ list' = [list EXCEPT ![c] =
                         [last |-> m.n, unread |-> @.unread \/ (c # active /\ ~mine)]]
                   /\ UNCHANGED requests
              ELSE AskList(search) /\ UNCHANGED list
           /\ drawn' = Rows(list')
           /\ thread' = [thread EXCEPT !.bubbles = Append(@, m)]
    /\ wire' = Tail(wire)
    /\ UNCHANGED <<store, online, active, threadOff, listOf, listOff, boxVars>>

\* Mutant of Receive: a conversation the list lacks is ignored.
ReceiveOfKnownChat(mine) ==
    /\ wire # <<>>
    /\ LET m == Head(wire)
           c == m.chat
       IN  /\ IF list[c].last # 0
              THEN /\ list' = [list EXCEPT ![c] =
                         [last |-> m.n, unread |-> @.unread \/ (c # active /\ ~mine)]]
                   /\ UNCHANGED requests
              ELSE UNCHANGED <<requests, list>>
           /\ drawn' = Rows(list')
           /\ thread' = IF c = active
                        THEN [thread EXCEPT !.bubbles = Append(@, m)]
                        ELSE thread
    /\ wire' = Tail(wire)
    /\ UNCHANGED <<store, online, active, threadOff, listOf, listOff, boxVars>>

\* socket.on('chatMessage'), for a message of either direction.
Receive(mine) ==
    /\ wire # <<>>
    /\ LET m == Head(wire)
           c == m.chat
       IN  /\ IF list[c].last # 0
              THEN /\ list' = [list EXCEPT ![c] =
                         [last |-> m.n, unread |-> @.unread \/ (c # active /\ ~mine)]]
                   /\ UNCHANGED requests
              ELSE AskList(search) /\ UNCHANGED list
           /\ drawn' = Rows(list')
           /\ thread' = IF c = active
                        THEN [thread EXCEPT !.bubbles = Append(@, m)]
                        ELSE thread
    /\ wire' = Tail(wire)
    /\ UNCHANGED <<store, online, active, threadOff, listOf, listOff, boxVars>>

SocketOpens ==
    /\ ~online
    /\ online' = TRUE
    /\ UNCHANGED <<store, wire, threadVars, listVars, boxVars, requests>>

\* socket.on('state') with "ready", in the snapshot a new socket gets from a
\* ready transport and whenever the transport says so again: the list is asked
\* for anew, without the search, and the thread is not.
HearReady ==
    /\ online
    /\ AskList(Everything)
    /\ UNCHANGED <<serverVars, threadVars, list, listOf, drawn, listOff, boxVars>>

SocketCloses ==
    /\ online
    /\ online' = FALSE
    /\ wire' = <<>>
    /\ Lost({c \in Chats : UnderWay(c)})
    /\ UNCHANGED <<store, active, thread, list, listOf, drawn, requests, boxVars>>

-----------------------------------------------------------------------------
Requests == \E s \in Slots : \/ ServeList(s) \/ ListArrives(s) \/ ListFails(s)
                             \/ ServeThread(s) \/ ThreadArrives(s) \/ ThreadFails(s)

Next == \/ Requests
        \/ \E f \in Searches : Type(f)
        \/ SearchTimer
        \/ \E c \in Chats : OpenChat(c)
        \/ \E c \in Chats : NewMessage(c)
        \/ \E mine \in BOOLEAN : Receive(mine)
        \/ SocketOpens \/ HearReady \/ SocketCloses

Spec == Init /\ [][Next]_vars

-----------------------------------------------------------------------------
(* Properties.                                                             *)

Numbers == UNION {0..MaxMessages[c] : c \in Chats}
Messages == UNION {[chat : {c}, n : 1..MaxMessages[c]] : c \in Chats}
Threads == [shows : {"nothing", "loading", "messages", "error"}, bubbles : Seq(Messages)]
ThreadRequests ==
    [of : {"thread"}, phase : {"asked"}, chat : Chats] \cup
    UNION {[of : {"thread"}, phase : {"served"}, chat : {c}, upto : 0..MaxMessages[c]] : c \in Chats}
ListRequests ==
    [of : {"list"}, phase : {"asked"}, search : Searches] \cup
    [of : {"list"}, phase : {"served"}, search : Searches, last : [Chats -> Numbers]]

\* A thread holds the bubbles of one answer and of the active chat's events.
TypeOK ==
    /\ store \in [Chats -> Nat] /\ \A c \in Chats : store[c] <= MaxMessages[c]
    /\ online \in BOOLEAN
    /\ wire \in Seq(Messages) /\ Len(wire) <= MaxWire
    /\ active \in Chats \cup {NoChat}
    /\ thread \in Threads
    /\ \/ Len(thread.bubbles) = 0
       \/ /\ active \in Chats
          /\ \E c \in Chats : Len(thread.bubbles) <= MaxMessages[c] + store[active]
    /\ requests \in [Slots -> {Idle} \cup ThreadRequests \cup ListRequests]
    /\ list \in [Chats -> [last : Numbers, unread : BOOLEAN]]
    /\ drawn \in [Chats -> {"none", "plain", "badge"}]
    /\ listOf \in Searches /\ search \in Searches
    /\ timer \in BOOLEAN /\ threadOff \in BOOLEAN /\ listOff \in BOOLEAN

\* The open thread holds each message of its chat once, in order, together
\* with the events still under way, from an answer that fitted until an event
\* is lost.  So a foreign bubble, a message shown twice and one wiped out are
\* owed to an answer that came late or was overtaken by events, to nothing
\* else, and opening the chat again repairs them.
ThreadAgrees ==
    thread.shows = "messages" /\ ~threadOff =>
        /\ thread.bubbles = History(active, Len(thread.bubbles))
        /\ Continues(active, Len(thread.bubbles))

ListAsked == \E s \in Slots : requests[s].of = "list"

\* The list previews the last message of every chat its search finds, or the
\* event that will is under way, or a request that will list a conversation
\* the page did not know; once typing and requests have come to rest it is
\* the answer to what the search box says; and its rows, whichever of events,
\* answers and clicks drew them last, show the badges it has, but for the open
\* chat, whose row is drawn before its count is reset.
ListAgrees ==
    ~listOff =>
        /\ \A c \in Matching[listOf] :
              \/ UnderWay(c)
              \/ list[c].last = store[c]
              \/ list[c].last = 0 /\ ListAsked
        /\ ~timer /\ ~ListAsked => listOf = search
        /\ \A c \in Chats \ {active} : drawn[c] = Rows(list)[c]
=============================================================================
