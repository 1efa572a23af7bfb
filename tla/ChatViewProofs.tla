--------------------------- MODULE ChatViewProofs ---------------------------
(***************************************************************************)
(* Theorems about ChatView for any conversations, searches, messages,      *)
(* requests under way at once and length of the wire.                      *)
(*                                                                         *)
(* The inductive invariant adds to the properties what the events under    *)
(* way are: those of one chat are in order, none is ahead of the store,    *)
(* and if there is one, the last message of the chat is among them.        *)
(***************************************************************************)
EXTENDS ChatView, SequenceTheorems, TLAPS

\* The events under way.
WireInOrder ==
    /\ \A i, j \in DOMAIN wire :
          wire[i].chat = wire[j].chat /\ i < j => wire[i].n < wire[j].n
    /\ \A i \in DOMAIN wire : wire[i].n <= store[wire[i].chat]
    /\ \A c \in Chats : UnderWay(c) => \E i \in EventsOf(c) : wire[i].n = store[c]

\* A thread is asked for by opening a chat, and no chat is ever closed.
OpenedChat ==
    (\E s \in Slots : requests[s].of = "thread") \/ thread.shows = "messages"
        => active \in Chats

\* A closed socket has no events under way.
WireNeedsSocket == ~online => wire = <<>>

\* The bubbles are those of one answer and of events of the active chat that
\* came before the ones under way.
BubblesFit ==
    \/ Len(thread.bubbles) = 0
    \/ /\ active \in Chats
       /\ \E c \in Chats :
             /\ Len(thread.bubbles) <= MaxMessages[c] + store[active]
             /\ \A i \in EventsOf(active) : Len(thread.bubbles) < MaxMessages[c] + wire[i].n

ChatInv ==
    /\ TypeOK
    /\ WireInOrder
    /\ OpenedChat /\ BubblesFit
    /\ ThreadAgrees /\ ListAgrees

-----------------------------------------------------------------------------
(* Facts about the operators of the model.                                 *)

\* The bounds, as the provers use them.
LEMMA Bounds ==
    /\ NoChat \notin Chats /\ Everything \in Searches
    /\ Matching \in [Searches -> SUBSET Chats]
    /\ MaxMessages \in [Chats -> Nat] /\ MaxWire \in Nat
    /\ \A c \in Known : MaxMessages[c] > 0
BY ChatViewAssumption DEF ChatViewAssumption

\* A message is its chat and number.
LEMMA MessageIs == \A m \in Messages : m = Message(m.chat, m.n)
BY DEF Messages, Message

\* What a message is.
LEMMA MessageType ==
    /\ \A m \in Messages : /\ m.chat \in Chats
                           /\ m.n \in Nat /\ m.n > 0 /\ m.n <= MaxMessages[m.chat]
                           /\ m.n \in Numbers
    /\ \A c \in Chats, n \in Nat : n > 0 /\ n <= MaxMessages[c] =>
          /\ Message(c, n) \in Messages
          /\ Message(c, n).chat = c /\ Message(c, n).n = n
<1>1. \A m \in Messages : \E c \in Chats : m.chat = c /\ m.n \in 1..MaxMessages[c]
  BY DEF Messages
<1>2. \A c \in Chats : 1..MaxMessages[c] \subseteq Numbers
  BY Bounds DEF Numbers
<1>3. ASSUME NEW c \in Chats, NEW n \in Nat, n > 0, n <= MaxMessages[c]
      PROVE  Message(c, n) \in Messages
  <2>1. Message(c, n) \in [chat : {c}, n : 1..MaxMessages[c]]
    BY <1>3, Bounds DEF Message
  <2> QED BY <2>1 DEF Messages
<1> QED BY <1>1, <1>2, <1>3, Bounds DEF Message

\* A number that a chat has reached.
LEMMA CountIsNumber ==
    ASSUME NEW c \in Chats, NEW n \in Nat, n <= MaxMessages[c]
    PROVE  n \in Numbers
<1>1. n \in 0..MaxMessages[c]
  BY Bounds
<1> QED BY <1>1 DEF Numbers

\* Zero is one, as soon as there is a chat.
LEMMA ZeroIsNumber == ASSUME NEW c \in Chats PROVE 0 \in Numbers
BY CountIsNumber, Bounds

\* What is asked for and served.
LEMMA RequestsMade ==
    /\ \A f \in Searches :
          [of |-> "list", phase |-> "asked", search |-> f] \in ListRequests
    /\ \A f \in Searches, l \in [Chats -> Numbers] :
          [of |-> "list", phase |-> "served", search |-> f, last |-> l] \in ListRequests
    /\ \A c \in Chats : [of |-> "thread", phase |-> "asked", chat |-> c] \in ThreadRequests
    /\ \A c \in Chats : \A n \in 0..MaxMessages[c] :
          [of |-> "thread", phase |-> "served", chat |-> c, upto |-> n] \in ThreadRequests
<1>1. ASSUME NEW c \in Chats, NEW n \in 0..MaxMessages[c]
      PROVE  [of |-> "thread", phase |-> "served", chat |-> c, upto |-> n] \in ThreadRequests
  <2>1. [of |-> "thread", phase |-> "served", chat |-> c, upto |-> n]
           \in [of : {"thread"}, phase : {"served"}, chat : {c}, upto : 0..MaxMessages[c]]
    OBVIOUS
  <2> QED BY <2>1 DEF ThreadRequests
<1> QED BY <1>1 DEF ListRequests, ThreadRequests

\* What a request under way says.
LEMMA RequestType ==
    /\ Idle.of = "nothing"
    /\ \A r \in ThreadRequests :
          /\ r.of = "thread" /\ r.chat \in Chats
          /\ r.phase = "served" => r.upto \in Nat /\ r.upto <= MaxMessages[r.chat]
    /\ \A r \in ListRequests :
          /\ r.of = "list" /\ r.search \in Searches
          /\ r.phase = "served" => r.last \in [Chats -> Numbers]
<1>1. ASSUME NEW r \in ThreadRequests
      PROVE  /\ r.of = "thread" /\ r.chat \in Chats
             /\ r.phase = "served" => r.upto \in Nat /\ r.upto <= MaxMessages[r.chat]
  <2>1. CASE r \in [of : {"thread"}, phase : {"asked"}, chat : Chats]
    BY <2>1
  <2>2. ASSUME NEW c \in Chats,
               r \in [of : {"thread"}, phase : {"served"}, chat : {c}, upto : 0..MaxMessages[c]]
        PROVE  r.of = "thread" /\ r.chat = c /\ r.upto \in 0..MaxMessages[c]
    BY <2>2
  <2> QED BY <2>1, <2>2, Bounds DEF ThreadRequests
<1>2. ASSUME NEW r \in ListRequests
      PROVE  /\ r.of = "list" /\ r.search \in Searches
             /\ r.phase = "served" => r.last \in [Chats -> Numbers]
  BY DEF ListRequests
<1> QED BY <1>1, <1>2 DEF Idle

\* Which requests are under way: a slot holds one of the kind its `of` names.
LEMMA SlotType ==
    ASSUME requests \in [Slots -> {Idle} \cup ThreadRequests \cup ListRequests], NEW s \in Slots
    PROVE  /\ requests[s].of = "thread" => requests[s] \in ThreadRequests
           /\ requests[s].of = "list" => requests[s] \in ListRequests
BY RequestType

\* A new request takes an idle slot: those under way stay.
LEMMA AskKeeps ==
    ASSUME requests \in [Slots -> {Idle} \cup ThreadRequests \cup ListRequests],
           NEW r \in ThreadRequests \cup ListRequests, Ask(r)
    PROVE  /\ requests' \in [Slots -> {Idle} \cup ThreadRequests \cup ListRequests]
           /\ ListAsked \/ r.of = "list" => ListAsked'
           /\ \A s \in Slots : requests'[s].of = "thread"
                                  => requests[s].of = "thread" \/ r.of = "thread"
<1>1. PICK s \in Slots : requests[s] = Idle /\ requests' = [requests EXCEPT ![s] = r]
  BY DEF Ask
<1> QED BY <1>1, RequestType DEF ListAsked

\* An answer frees its slot, and every other request stays.
LEMMA AnsweredKeeps ==
    ASSUME requests \in [Slots -> {Idle} \cup ThreadRequests \cup ListRequests],
           NEW s \in Slots, Answered(s)
    PROVE  /\ requests' \in [Slots -> {Idle} \cup ThreadRequests \cup ListRequests]
           /\ requests[s].of = "thread" /\ ListAsked => ListAsked'
           /\ \A t \in Slots : requests'[t].of = "thread" => requests[t].of = "thread"
BY RequestType DEF Answered, ListAsked

\* A history holds the messages of its chat.
LEMMA HistoryType ==
    ASSUME NEW c \in Chats, NEW n \in Nat, n <= MaxMessages[c]
    PROVE  History(c, n) \in Seq(Messages) /\ Len(History(c, n)) = n
<1>1. \A i \in 1..n : Message(c, i) \in Messages
  BY MessageType, Bounds
<1>2. History(c, n) \in [1..n -> Messages]
  BY <1>1 DEF History
<1>3. History(c, n) \in Seq(Messages)
  BY <1>2, SeqDef
<1>4. DOMAIN History(c, n) = 1..Len(History(c, n)) /\ Len(History(c, n)) \in Nat
  BY <1>3, LenProperties
<1>5. PICK l \in Nat : l = Len(History(c, n))
  BY <1>4
<1>6. 1..l = 1..n
  BY <1>2, <1>4, <1>5
<1>7. ~(l < n) /\ ~(n < l)
  <2>1. l < n => n \in 1..n /\ n \notin 1..l
    OBVIOUS
  <2>2. n < l => l \in 1..l /\ l \notin 1..n
    OBVIOUS
  <2> QED BY <1>6, <2>1, <2>2
<1> QED BY <1>3, <1>5, <1>7

\* The next message goes behind a history.
LEMMA HistoryAppend ==
    ASSUME NEW c \in Chats, NEW n \in Nat, n + 1 <= MaxMessages[c]
    PROVE  Append(History(c, n), Message(c, n + 1)) = History(c, n + 1)
<1> DEFINE h == History(c, n)
           k == History(c, n + 1)
           m == Message(c, n + 1)
<1>1. /\ h \in Seq(Messages) /\ Len(h) = n
      /\ k \in Seq(Messages) /\ Len(k) = n + 1
      /\ m \in Messages
  BY HistoryType, MessageType, Bounds
<1>2. /\ \A i \in 1..n : h[i] = Message(c, i) /\ k[i] = Message(c, i)
      /\ k[n + 1] = m
  BY DEF History
<1> HIDE DEF h, k, m
<1>3. /\ Append(h, m) \in Seq(Messages) /\ Len(Append(h, m)) = n + 1
      /\ \A i \in 1..n : Append(h, m)[i] = h[i]
      /\ Append(h, m)[n + 1] = m
  BY <1>1, AppendProperties
<1>4. \A i \in 1..(n + 1) : Append(h, m)[i] = k[i]
  <2> SUFFICES ASSUME NEW i \in 1..(n + 1) PROVE Append(h, m)[i] = k[i]
    OBVIOUS
  <2>1. i \in 1..n \/ i = n + 1
    OBVIOUS
  <2> QED BY <1>2, <1>3, <2>1
<1>5. Append(h, m) = k
  BY <1>1, <1>3, <1>4, SeqEqual
<1> QED BY <1>5 DEF h, k, m

-----------------------------------------------------------------------------
(* The events under way.                                                   *)

\* Every event is a message.
LEMMA EventType ==
    ASSUME TypeOK, NEW i \in DOMAIN wire
    PROVE  /\ i \in Nat /\ wire[i] \in Messages
           /\ wire[i].chat \in Chats /\ wire[i].n \in Nat /\ wire[i].n > 0
<1>1. wire \in Seq(Messages) /\ DOMAIN wire = 1..Len(wire) /\ Len(wire) \in Nat
  BY LenProperties DEF TypeOK
<1>2. i \in Nat /\ wire[i] \in Messages
  BY <1>1, ElementOfSeq
<1> QED BY <1>2, MessageType

\* 'message_create' on an open socket: the message is the last of its chat.
LEMMA WireAppended ==
    ASSUME TypeOK, WireInOrder, NEW c \in Chats, NewMessage(c), online
    PROVE  /\ wire' \in Seq(Messages) /\ Len(wire') <= MaxWire
           /\ \E l \in Nat :
                 /\ DOMAIN wire = 1..l /\ DOMAIN wire' = 1..(l + 1)
                 /\ wire'[l + 1].chat = c /\ wire'[l + 1].n = store[c] + 1
                 /\ \A i \in 1..l : wire'[i] = wire[i]
<1> DEFINE m == Message(c, store[c] + 1)
<1>1. m \in Messages /\ m.chat = c /\ m.n = store[c] + 1
  <2>1. store[c] \in Nat /\ store[c] < MaxMessages[c] /\ MaxMessages[c] \in Nat
    BY Bounds DEF NewMessage, TypeOK
  <2>2. store[c] + 1 \in Nat /\ store[c] + 1 > 0 /\ store[c] + 1 <= MaxMessages[c]
    BY <2>1
  <2> QED BY <2>2, MessageType
<1>2. wire' = Append(wire, m) /\ Len(wire) < MaxWire
  BY DEF NewMessage
<1>3. wire \in Seq(Messages) /\ Len(wire) \in Nat /\ DOMAIN wire = 1..Len(wire)
  BY LenProperties DEF TypeOK
<1> HIDE DEF m
<1>4. /\ wire' \in Seq(Messages) /\ Len(wire') = Len(wire) + 1
      /\ wire'[Len(wire) + 1] = m
      /\ \A i \in 1..Len(wire) : wire'[i] = wire[i]
  BY <1>1, <1>2, <1>3, AppendProperties
<1>5. DOMAIN wire' = 1..(Len(wire) + 1)
  BY <1>4, LenProperties
<1>6. Len(wire') <= MaxWire
  BY <1>2, <1>3, <1>4, Bounds
<1> QED BY <1>1, <1>3, <1>4, <1>5, <1>6

\* The page takes the first event, the others move up.
LEMMA WireTail ==
    ASSUME TypeOK, wire # <<>>, wire' = Tail(wire)
    PROVE  /\ wire' \in Seq(Messages) /\ Len(wire') <= MaxWire
           /\ Head(wire) = wire[1] /\ Head(wire) \in Messages
           /\ \E l \in Nat :
                 /\ DOMAIN wire = 1..(l + 1) /\ DOMAIN wire' = 1..l
                 /\ \A i \in 1..l : wire'[i] = wire[i + 1]
<1>1. /\ wire \in Seq(Messages) /\ Len(wire) \in Nat \ {0} /\ DOMAIN wire = 1..Len(wire)
      /\ Len(wire) <= MaxWire
  BY EmptySeq, LenProperties DEF TypeOK
<1>2. /\ Head(wire) = wire[1] /\ Head(wire) \in Messages
      /\ wire' \in Seq(Messages) /\ Len(wire') = Len(wire) - 1
      /\ \A i \in 1..Len(wire') : wire'[i] = wire[i + 1]
  BY <1>1, HeadTailProperties
<1>3. PICK l \in Nat : l + 1 = Len(wire) /\ l = Len(wire')
  <2>1. Len(wire) - 1 \in Nat /\ (Len(wire) - 1) + 1 = Len(wire)
    BY <1>1
  <2> QED BY <1>2, <2>1
<1>4. DOMAIN wire' = 1..l
  BY <1>2, <1>3, LenProperties
<1>5. Len(wire') <= MaxWire
  BY <1>1, <1>2, Bounds
<1> QED BY <1>1, <1>2, <1>3, <1>4, <1>5

\* What a new message leaves of the events, and of a thread that they
\* continue.
LEMMA NewMessageWire ==
    ASSUME TypeOK, WireInOrder, NEW c \in Chats, NewMessage(c), online
    PROVE  /\ WireInOrder'
           /\ \A d \in Chats : UnderWay(d) \/ d = c => UnderWay(d)'
           /\ \A d \in Chats, k \in Nat : Continues(d, k) => Continues(d, k)'
<1>1. PICK l \in Nat :
          /\ DOMAIN wire = 1..l /\ DOMAIN wire' = 1..(l + 1)
          /\ wire'[l + 1].chat = c /\ wire'[l + 1].n = store[c] + 1
          /\ \A i \in 1..l : wire'[i] = wire[i]
  BY WireAppended
<1>2. /\ store' = [store EXCEPT ![c] = @ + 1]
      /\ store \in [Chats -> Nat]
      /\ \A i \in 1..l : wire[i].chat \in Chats /\ wire[i].n \in Nat
  <2>1. \A i \in DOMAIN wire : wire[i].chat \in Chats /\ wire[i].n \in Nat
    BY EventType
  <2> QED BY <1>1, <2>1 DEF NewMessage, TypeOK
<1>3. \A i \in 1..(l + 1) : i \in 1..l \/ i = l + 1
  OBVIOUS
<1>4. l + 1 \in 1..(l + 1) /\ 1..l \subseteq 1..(l + 1)
  OBVIOUS
<1>5. /\ store'[c] = store[c] + 1
      /\ \A d \in Chats \ {c} : store'[d] = store[d]
      /\ \A d \in Chats : store[d] \in Nat
  BY <1>2
<1>6. /\ \A d \in Chats \ {c} : EventsOf(d)' = EventsOf(d)
      /\ EventsOf(c)' = EventsOf(c) \cup {l + 1}
  BY <1>1, <1>3, <1>4 DEF EventsOf
<1>7. \A i \in 1..l : wire[i].n <= store[wire[i].chat]
  BY <1>1 DEF WireInOrder
<1>8. \A i, j \in 1..(l + 1) : wire'[i].chat = wire'[j].chat /\ i < j => wire'[i].n < wire'[j].n
  <2> SUFFICES ASSUME NEW i \in 1..(l + 1), NEW j \in 1..(l + 1),
                      wire'[i].chat = wire'[j].chat, i < j
               PROVE  wire'[i].n < wire'[j].n
    OBVIOUS
  <2>1. i \in 1..l /\ wire'[i] = wire[i]
    BY <1>1, <1>3
  <2>2. CASE j = l + 1
    BY <1>1, <1>2, <1>5, <1>7, <2>1, <2>2
  <2>3. CASE j \in 1..l
    BY <1>1, <2>1, <2>3 DEF WireInOrder
  <2> QED BY <1>3, <2>2, <2>3
<1>9. WireInOrder'
  <2>1. \A i \in 1..(l + 1) : wire'[i].n <= store'[wire'[i].chat]
    <3> SUFFICES ASSUME NEW i \in 1..(l + 1) PROVE wire'[i].n <= store'[wire'[i].chat]
      OBVIOUS
    <3>1. CASE i = l + 1
      BY <1>1, <1>5, <3>1
    <3>2. CASE i \in 1..l
      <4>1. wire'[i] = wire[i] /\ wire[i].n <= store[wire[i].chat]
        BY <1>1, <1>7, <3>2
      <4>2. wire[i].chat \in Chats /\ wire[i].n \in Nat
        BY <1>2, <3>2
      <4>3. store[wire[i].chat] <= store'[wire[i].chat]
        BY <1>5, <4>2
      <4> QED BY <1>2, <1>5, <4>1, <4>2, <4>3
    <3> QED BY <1>3, <3>1, <3>2
  <2>2. ASSUME NEW d \in Chats, EventsOf(d)' # {}
        PROVE  \E i \in EventsOf(d)' : wire'[i].n = store'[d]
    <3>1. CASE d = c
      BY <1>1, <1>5, <1>6, <3>1
    <3>2. CASE d # c
      <4>1. PICK i \in EventsOf(d) : wire[i].n = store[d]
        BY <1>6, <2>2, <3>2 DEF WireInOrder, UnderWay
      <4>2. i \in 1..l
        BY <1>1 DEF EventsOf
      <4> QED BY <1>1, <1>5, <1>6, <3>2, <4>1, <4>2
    <3> QED BY <3>1, <3>2
  <2> QED BY <1>1, <1>8, <2>1, <2>2 DEF WireInOrder, UnderWay
<1>10. \A d \in Chats : UnderWay(d) \/ d = c => UnderWay(d)'
  BY <1>6 DEF UnderWay
<1>11. ASSUME NEW d \in Chats, NEW k \in Nat, Continues(d, k)
       PROVE  Continues(d, k)'
  <2>1. /\ k <= store[d]
        /\ \A i \in EventsOf(d) : wire[i].n \in (k + 1)..store[d]
        /\ \A n \in (k + 1)..store[d] : \E i \in EventsOf(d) : wire[i].n = n
    BY <1>11 DEF Continues
  <2>2. \A i, j \in EventsOf(d)' : i < j => wire'[i].n < wire'[j].n
    <3>1. \A i \in EventsOf(d)' : i \in 1..(l + 1) /\ wire'[i].chat = d
      BY <1>1 DEF EventsOf
    <3> QED BY <1>8, <3>1
  <2>3. \A i \in EventsOf(d) : i \in 1..l /\ wire'[i] = wire[i]
    BY <1>1 DEF EventsOf
  <2>4. {wire'[i].n : i \in EventsOf(d)'} = (k + 1)..store'[d] /\ k <= store'[d]
    <3>1. CASE d # c
      BY <1>5, <1>6, <2>1, <2>3, <3>1
    <3>2. CASE d = c
      <4>1. (k + 1)..store'[d] = ((k + 1)..store[d]) \cup {store[d] + 1}
        BY <1>5, <2>1, <3>2
      <4>2. \A i \in EventsOf(d)' : i \in EventsOf(d) \/ i = l + 1
        BY <1>6, <3>2
      <4>3. \A i \in EventsOf(d)' : wire'[i].n \in (k + 1)..store'[d]
        BY <1>1, <2>1, <2>3, <3>2, <4>1, <4>2
      <4>4. \A n \in (k + 1)..store'[d] : \E i \in EventsOf(d)' : wire'[i].n = n
        BY <1>1, <1>6, <2>1, <2>3, <3>2, <4>1
      <4>5. k <= store'[d]
        BY <1>5, <2>1, <3>2
      <4> QED BY <4>3, <4>4, <4>5
    <3> QED BY <3>1, <3>2
  <2> QED BY <2>2, <2>4 DEF Continues
<1> QED BY <1>9, <1>10, <1>11

\* The page takes the event m: it is the next of its chat.
LEMMA ReceiveWire ==
    ASSUME TypeOK, WireInOrder, wire # <<>>, wire' = Tail(wire), store' = store,
           NEW m, m = Head(wire)
    PROVE  /\ WireInOrder'
           /\ m \in Messages /\ UnderWay(m.chat) /\ m.n <= store[m.chat]
           /\ ~UnderWay(m.chat)' => m.n = store[m.chat]
           /\ \A d \in Chats \ {m.chat} : UnderWay(d)' <=> UnderWay(d)
           /\ \A i \in EventsOf(m.chat)' : m.n < wire'[i].n
           /\ \A d \in Chats \ {m.chat}, k \in Nat : Continues(d, k) => Continues(d, k)'
           /\ \A k \in Nat : Continues(m.chat, k) => m.n = k + 1 /\ Continues(m.chat, k + 1)'
<1>1. m \in Messages /\ m = wire[1]
  BY WireTail
<1>2. PICK l \in Nat :
          /\ DOMAIN wire = 1..(l + 1) /\ DOMAIN wire' = 1..l
          /\ \A i \in 1..l : wire'[i] = wire[i + 1]
  BY WireTail
<1>3. /\ m.chat \in Chats /\ m.n \in Nat
      /\ \A i \in 1..(l + 1) : wire[i].chat \in Chats /\ wire[i].n \in Nat
      /\ \A d \in Chats : store[d] \in Nat
  <2>1. \A i \in DOMAIN wire : wire[i].chat \in Chats /\ wire[i].n \in Nat
    BY EventType
  <2>2. m.chat \in Chats /\ m.n \in Nat
    BY <1>1, MessageType
  <2> QED BY <1>2, <2>1, <2>2 DEF TypeOK
<1>4. /\ \A i \in 1..l : i + 1 \in 1..(l + 1)
      /\ \A i \in 1..(l + 1) : i = 1 \/ \E j \in 1..l : i = j + 1
      /\ 1 \in 1..(l + 1)
  <2>1. \A i \in 1..(l + 1) : i = 1 \/ (i - 1 \in 1..l /\ i = (i - 1) + 1)
    OBVIOUS
  <2> QED BY <2>1
<1>5. /\ \A i \in 1..(l + 1), j \in 1..(l + 1) :
            wire[i].chat = wire[j].chat /\ i < j => wire[i].n < wire[j].n
      /\ \A i \in 1..(l + 1) : wire[i].n <= store[wire[i].chat]
  BY <1>2 DEF WireInOrder
<1>6. m.n <= store[m.chat] /\ UnderWay(m.chat)
  BY <1>1, <1>2, <1>4, <1>5 DEF UnderWay, EventsOf
<1>7. \A i \in EventsOf(m.chat)' : m.n < wire'[i].n
  <2> SUFFICES ASSUME NEW i \in EventsOf(m.chat)' PROVE m.n < wire'[i].n
    OBVIOUS
  <2>1. i \in 1..l /\ wire'[i].chat = m.chat
    BY <1>2 DEF EventsOf
  <2>2. wire'[i] = wire[i + 1] /\ i + 1 \in 1..(l + 1) /\ 1 < i + 1
    BY <1>2, <1>4, <2>1
  <2> QED BY <1>1, <1>4, <1>5, <2>1, <2>2
\* The events of a chat that are left, by their places before and after.
<1>8. /\ \A d : \A i \in EventsOf(d)' : i \in 1..l /\ i + 1 \in EventsOf(d) /\ wire'[i] = wire[i + 1]
      /\ \A d : \A i \in EventsOf(d) : \/ i = 1 /\ wire[i] = m /\ d = m.chat
                                      \/ \E j \in EventsOf(d)' : i = j + 1 /\ wire[i] = wire'[j]
  <2>1. ASSUME NEW d, NEW i \in EventsOf(d)'
        PROVE  i \in 1..l /\ i + 1 \in EventsOf(d) /\ wire'[i] = wire[i + 1]
    BY <1>2, <1>4, <2>1 DEF EventsOf
  <2>2. ASSUME NEW d, NEW i \in EventsOf(d)
        PROVE  \/ i = 1 /\ wire[i] = m /\ d = m.chat
               \/ \E j \in EventsOf(d)' : i = j + 1 /\ wire[i] = wire'[j]
    <3>1. i \in 1..(l + 1) /\ wire[i].chat = d
      BY <1>2 DEF EventsOf
    <3>2. CASE i = 1
      BY <1>1, <3>1, <3>2
    <3>3. CASE i # 1
      <4>1. PICK j \in 1..l : i = j + 1
        BY <1>4, <3>1, <3>3
      <4>2. wire'[j] = wire[i] /\ j \in EventsOf(d)'
        BY <1>2, <3>1, <4>1 DEF EventsOf
      <4> QED BY <4>1, <4>2
    <3> QED BY <3>2, <3>3
  <2> QED BY <2>1, <2>2
<1>9. \A d \in Chats \ {m.chat} : UnderWay(d)' <=> UnderWay(d)
  BY <1>8 DEF UnderWay
<1>10. WireInOrder'
  <2>1. ASSUME NEW i \in 1..l, NEW j \in 1..l, wire'[i].chat = wire'[j].chat, i < j
        PROVE  wire'[i].n < wire'[j].n
    BY <1>2, <1>4, <1>5, <2>1
  <2>2. \A i \in 1..l : wire'[i].n <= store'[wire'[i].chat]
    BY <1>2, <1>4, <1>5
  <2>3. ASSUME NEW d \in Chats, EventsOf(d)' # {}
        PROVE  \E i \in EventsOf(d)' : wire'[i].n = store'[d]
    <3>1. PICK i \in EventsOf(d) : wire[i].n = store[d]
      BY <1>8, <2>3 DEF WireInOrder, UnderWay
    <3>2. PICK j \in EventsOf(d)' : TRUE
      BY <2>3
    <3>3. wire'[j].n <= store[d] /\ wire'[j].n \in Nat
      BY <1>2, <1>3, <1>4, <2>2, <3>2 DEF EventsOf
    <3>4. CASE i = 1 /\ wire[i] = m /\ d = m.chat
      <4>1. m.n < wire'[j].n /\ m.n = store[d]
        BY <1>7, <3>1, <3>2, <3>4 DEF EventsOf
      <4>2. PICK x \in Nat, y \in Nat : x = store[d] /\ y = wire'[j].n
        BY <1>3, <3>3
      <4>3. x < y /\ y <= x
        BY <3>3, <4>1, <4>2
      <4>4. FALSE
        BY <4>3
      <4> QED BY <4>4
    <3>5. CASE \E k \in EventsOf(d)' : wire[i] = wire'[k]
      BY <3>1, <3>5
    <3> QED BY <1>8, <3>4, <3>5
  <2> QED BY <1>2, <2>1, <2>2, <2>3 DEF WireInOrder, UnderWay
<1>11. ~UnderWay(m.chat)' => m.n = store[m.chat]
  <2> SUFFICES ASSUME EventsOf(m.chat)' = {} PROVE m.n = store[m.chat]
    BY DEF UnderWay
  <2>1. PICK i \in EventsOf(m.chat) : wire[i].n = store[m.chat]
    BY <1>3, <1>6 DEF WireInOrder
  <2> QED BY <1>8, <2>1
<1>12. ASSUME NEW d \in Chats \ {m.chat}, NEW k \in Nat, Continues(d, k)
       PROVE  Continues(d, k)'
  <2>1. /\ k <= store[d]
        /\ \A i \in EventsOf(d) : wire[i].n \in (k + 1)..store[d]
        /\ \A n \in (k + 1)..store[d] : \E i \in EventsOf(d) : wire[i].n = n
        /\ \A i, j \in EventsOf(d) : i < j => wire[i].n < wire[j].n
    BY <1>12 DEF Continues
  <2>2. \A i \in EventsOf(d)' : i \in Nat /\ i + 1 \in EventsOf(d) /\ wire'[i] = wire[i + 1]
    BY <1>8 DEF EventsOf
  <2>3. \A i \in EventsOf(d) : \E j \in EventsOf(d)' : wire[i] = wire'[j]
    BY <1>8, <1>12 DEF EventsOf
  <2>4. \A i, j \in EventsOf(d)' : i < j => wire'[i].n < wire'[j].n
    <3> SUFFICES ASSUME NEW i \in EventsOf(d)', NEW j \in EventsOf(d)', i < j
                 PROVE  wire'[i].n < wire'[j].n
      OBVIOUS
    <3>1. i + 1 < j + 1
      BY <2>2
    <3> QED BY <2>1, <2>2, <3>1
  <2>5. \A i \in EventsOf(d)' : wire'[i].n \in (k + 1)..store[d]
    BY <2>1, <2>2
  <2>6. \A n \in (k + 1)..store[d] : \E i \in EventsOf(d)' : wire'[i].n = n
    <3> SUFFICES ASSUME NEW n \in (k + 1)..store[d] PROVE \E i \in EventsOf(d)' : wire'[i].n = n
      OBVIOUS
    <3>1. PICK i \in EventsOf(d) : wire[i].n = n
      BY <2>1
    <3>2. PICK j \in EventsOf(d)' : wire[i] = wire'[j]
      BY <2>3
    <3> QED BY <3>1, <3>2
  <2>7. {wire'[i].n : i \in EventsOf(d)'} = (k + 1)..store[d]
    BY <2>5, <2>6
  <2> QED BY <2>1, <2>4, <2>7 DEF Continues
<1>13. ASSUME NEW k \in Nat, Continues(m.chat, k)
       PROVE  m.n = k + 1 /\ Continues(m.chat, k + 1)'
  <2>1. /\ \A i \in EventsOf(m.chat) : wire[i].n \in (k + 1)..store[m.chat]
        /\ \A n \in (k + 1)..store[m.chat] : \E i \in EventsOf(m.chat) : wire[i].n = n
        /\ \A i, j \in EventsOf(m.chat) : i < j => wire[i].n < wire[j].n
    BY <1>13 DEF Continues
  <2>2. 1 \in EventsOf(m.chat) /\ m.n \in (k + 1)..store[m.chat]
    BY <1>1, <1>2, <1>4, <2>1 DEF EventsOf
  <2>3. m.n = k + 1
    <3>1. k + 1 \in (k + 1)..store[m.chat] /\ k + 1 <= m.n
      BY <1>3, <2>2
    <3>2. PICK i \in EventsOf(m.chat) : wire[i].n = k + 1
      BY <2>1, <3>1
    <3>3. CASE i = 1
      BY <1>1, <3>2, <3>3
    <3>4. CASE i # 1
      <4>1. PICK j \in EventsOf(m.chat)' : wire[i] = wire'[j]
        BY <1>8, <3>4
      <4>2. m.n < k + 1
        BY <1>7, <3>2, <4>1
      <4> QED BY <1>3, <3>1, <4>2
    <3> QED BY <3>3, <3>4
  <2>4. \A i \in EventsOf(m.chat)' : wire'[i].n \in (k + 2)..store[m.chat]
    <3> SUFFICES ASSUME NEW i \in EventsOf(m.chat)' PROVE wire'[i].n \in (k + 2)..store[m.chat]
      OBVIOUS
    <3>1. PICK n : n = wire'[i].n
      OBVIOUS
    <3>2. n \in (k + 1)..store[m.chat]
      BY <1>8, <2>1, <3>1
    <3>3. k + 1 < n
      BY <1>7, <2>3, <3>1
    <3>4. store[m.chat] \in Nat
      BY <1>3
    <3>5. n \in (k + 2)..store[m.chat]
      BY <3>2, <3>3, <3>4
    <3> QED BY <3>1, <3>5
  <2>5. \A n \in (k + 2)..store[m.chat] : \E i \in EventsOf(m.chat)' : wire'[i].n = n
    <3> SUFFICES ASSUME NEW n \in (k + 2)..store[m.chat]
                 PROVE  \E i \in EventsOf(m.chat)' : wire'[i].n = n
      OBVIOUS
    <3>1. n \in (k + 1)..store[m.chat] /\ n # k + 1
      BY <1>3
    <3>2. PICK i \in EventsOf(m.chat) : wire[i].n = n
      BY <2>1, <3>1
    <3> QED BY <1>8, <2>3, <3>1, <3>2
  <2>6. \A i, j \in EventsOf(m.chat)' : i < j => wire'[i].n < wire'[j].n
    <3> SUFFICES ASSUME NEW i \in EventsOf(m.chat)', NEW j \in EventsOf(m.chat)', i < j
                 PROVE  wire'[i].n < wire'[j].n
      OBVIOUS
    <3>1. /\ i \in Nat /\ i + 1 \in EventsOf(m.chat) /\ wire'[i] = wire[i + 1]
          /\ j \in Nat /\ j + 1 \in EventsOf(m.chat) /\ wire'[j] = wire[j + 1]
      BY <1>8 DEF EventsOf
    <3>2. i + 1 < j + 1
      BY <3>1
    <3> QED BY <2>1, <3>1, <3>2
  <2>7. k + 1 <= store[m.chat] /\ (k + 1) + 1 = k + 2
    BY <1>3, <2>2
  <2>8. {wire'[i].n : i \in EventsOf(m.chat)'} = ((k + 1) + 1)..store[m.chat]
    BY <2>4, <2>5, <2>7
  <2> QED BY <2>3, <2>6, <2>7, <2>8 DEF Continues
<1>14. /\ m \in Messages
       /\ \A d \in Chats \ {m.chat}, k \in Nat : Continues(d, k) => Continues(d, k)'
       /\ \A k \in Nat : Continues(m.chat, k) => m.n = k + 1 /\ Continues(m.chat, k + 1)'
  BY <1>1, <1>12, <1>13
<1> QED BY <1>1, <1>6, <1>7, <1>9, <1>10, <1>11, <1>14

-----------------------------------------------------------------------------
(* What steps that leave a part alone keep.                                *)

\* The types of the page, without the events and the store.
PageTypeOK ==
    /\ active \in Chats \cup {NoChat}
    /\ thread \in Threads
    /\ requests \in [Slots -> {Idle} \cup ThreadRequests \cup ListRequests]
    /\ list \in [Chats -> [last : Numbers, unread : BOOLEAN]]
    /\ drawn \in [Chats -> {"none", "plain", "badge"}]
    /\ listOf \in Searches /\ search \in Searches
    /\ timer \in BOOLEAN /\ threadOff \in BOOLEAN /\ listOff \in BOOLEAN

\* The types of the server.
ServerTypeOK ==
    /\ store \in [Chats -> Nat] /\ \A c \in Chats : store[c] <= MaxMessages[c]
    /\ online \in BOOLEAN
    /\ wire \in Seq(Messages) /\ Len(wire) <= MaxWire

\* The two, with the bound on the bubbles, are the type invariant.
LEMMA Types ==
    /\ ServerTypeOK /\ PageTypeOK /\ BubblesFit => TypeOK
    /\ TypeOK => ServerTypeOK /\ PageTypeOK
BY DEF TypeOK, ServerTypeOK, PageTypeOK, BubblesFit

\* A step of the page leaves the events as they are.
LEMMA ServerUntouched ==
    ASSUME ServerTypeOK, WireInOrder, UNCHANGED <<store, wire>>, online' \in BOOLEAN
    PROVE  /\ ServerTypeOK' /\ WireInOrder'
           /\ \A d : EventsOf(d)' = EventsOf(d)
           /\ \A d : UnderWay(d)' <=> UnderWay(d)
           /\ \A d, k : Continues(d, k) => Continues(d, k)'
<1>1. ServerTypeOK'
  BY DEF ServerTypeOK
<1>2. \A d : EventsOf(d)' = EventsOf(d)
  BY DEF EventsOf
<1>3. \A d : UnderWay(d)' <=> UnderWay(d)
  BY DEF UnderWay, EventsOf
<1>4. \A d, k : Continues(d, k) => Continues(d, k)'
  BY DEF Continues, EventsOf
<1>5. WireInOrder'
  BY DEF WireInOrder, UnderWay, EventsOf
<1> QED BY <1>1, <1>2, <1>3, <1>4, <1>5

\* A thread nothing was done to agrees for as long as the events continue it.
LEMMA ThreadUntouched ==
    ASSUME ThreadAgrees, OpenedChat, thread.bubbles \in Seq(Messages),
           UNCHANGED <<active, thread>>,
           ~threadOff' => ~threadOff,
           NEW a, a = active,
           ~threadOff' /\ a \in Chats => \A k \in Nat : Continues(a, k) => Continues(a, k)'
    PROVE  ThreadAgrees'
<1> SUFFICES ASSUME thread.shows = "messages", ~threadOff'
             PROVE  /\ thread.bubbles = History(active, Len(thread.bubbles))
                    /\ Continues(a, Len(thread.bubbles))'
  BY DEF ThreadAgrees, Continues, EventsOf, History, Message
<1>1. PICK k \in Nat : k = Len(thread.bubbles) /\ k = Len(thread'.bubbles)
  BY LenProperties
<1>2. a \in Chats
  BY DEF OpenedChat
<1>3. thread.bubbles = History(active, k) /\ Continues(a, k)
  BY <1>1 DEF ThreadAgrees
<1>4. Continues(a, k)'
  BY <1>2, <1>3
<1> QED BY <1>1, <1>3, <1>4 DEF Continues, EventsOf

\* Nor do its bubbles outgrow their bound.
LEMMA BubblesUntouched ==
    ASSUME BubblesFit, ServerTypeOK, ServerTypeOK', thread.bubbles \in Seq(Messages),
           thread'.bubbles = thread.bubbles, active' = active,
           NEW a, a = active,
           a \in Chats => store[a] <= store'[a],
           \A i \in EventsOf(a)' : \/ \E j \in EventsOf(a) : wire'[i].n = wire[j].n
                                   \/ wire'[i].n > store[a] /\ wire'[i].n \in Nat
    PROVE  BubblesFit'
<1>1. CASE Len(thread.bubbles) = 0
  BY <1>1 DEF BubblesFit
<1>2. CASE Len(thread.bubbles) # 0
  <2>1. PICK c \in Chats :
            /\ a \in Chats
            /\ Len(thread.bubbles) <= MaxMessages[c] + store[a]
            /\ \A i \in EventsOf(a) : Len(thread.bubbles) < MaxMessages[c] + wire[i].n
    BY <1>2 DEF BubblesFit
  <2>2. PICK k \in Nat, u \in Nat, x \in Nat, y \in Nat :
            k = Len(thread.bubbles) /\ u = MaxMessages[c] /\ x = store[a] /\ y = store'[a]
    BY <2>1, Bounds, LenProperties DEF ServerTypeOK
  <2>3. k <= u + y
    BY <2>1, <2>2
  <2>4. ASSUME NEW i \in EventsOf(a)'
        PROVE  k < u + wire'[i].n
    <3>1. CASE \E j \in EventsOf(a) : wire'[i].n = wire[j].n
      BY <2>1, <2>2, <3>1
    <3>2. CASE wire'[i].n > store[a] /\ wire'[i].n \in Nat
      BY <2>1, <2>2, <3>2
    <3> QED BY <3>1, <3>2
  <2> QED BY <2>1, <2>2, <2>3, <2>4 DEF BubblesFit, EventsOf
<1> QED BY <1>1, <1>2

\* A list nothing was done to but that events arrived for, or requests were
\* made, agrees as before.
LEMMA ListUntouched ==
    ASSUME ListAgrees, listOf \in Searches,
           UNCHANGED <<list, listOf, drawn>>, active' = active \/ drawn = Rows(list),
           ~listOff' => ~listOff,
           (timer' = timer /\ search' = search) \/ timer' \/ ListAsked',
           timer => timer' \/ ListAsked',
           ListAsked => ListAsked',
           ~listOff' => \A c \in Chats : /\ UnderWay(c) => UnderWay(c)'
                                         /\ UnderWay(c)' \/ store'[c] = store[c]
    PROVE  ListAgrees'
<1> SUFFICES ASSUME ~listOff'
             PROVE  /\ \A c \in Matching[listOf] :
                          \/ UnderWay(c)' \/ list[c].last = store'[c]
                          \/ list[c].last = 0 /\ ListAsked'
                    /\ ~timer' /\ ~ListAsked' => listOf = search'
                    /\ \A c \in Chats \ {active'} : drawn[c] = Rows(list)[c]
  BY DEF ListAgrees, Rows
<1>1. Matching[listOf] \subseteq Chats
  BY Bounds
<1> QED BY <1>1 DEF ListAgrees

-----------------------------------------------------------------------------
(* The steps.                                                              *)

\* The invariant in parts.
LEMMA Parts ==
    /\ ServerTypeOK /\ PageTypeOK /\ WireInOrder /\ OpenedChat /\ BubblesFit
          /\ ThreadAgrees /\ ListAgrees => ChatInv
    /\ ChatInv => /\ ServerTypeOK /\ PageTypeOK /\ TypeOK /\ WireInOrder /\ OpenedChat /\ BubblesFit
                  /\ ThreadAgrees /\ ListAgrees /\ thread.bubbles \in Seq(Messages)
BY Types DEF ChatInv, PageTypeOK, Threads

\* And after a step.
LEMMA PartsAfter ==
    ASSUME ServerTypeOK', PageTypeOK', WireInOrder', OpenedChat', BubblesFit',
           ThreadAgrees', ListAgrees'
    PROVE  ChatInv'
<1>1. TypeOK'
  BY DEF TypeOK, ServerTypeOK, PageTypeOK, BubblesFit
<1> QED BY <1>1 DEF ChatInv

\* A step that leaves the store, the events and the thread alone.
LEMMA StillThread ==
    ASSUME ChatInv, UNCHANGED <<store, wire, active, thread, threadOff>>, online' \in BOOLEAN
    PROVE  /\ ServerTypeOK' /\ WireInOrder' /\ ThreadAgrees' /\ BubblesFit'
           /\ \A d : UnderWay(d)' <=> UnderWay(d)
<1> USE Parts
<1>1. PICK a : a = active
  OBVIOUS
<1>2. /\ ServerTypeOK' /\ WireInOrder'
      /\ \A d : EventsOf(d)' = EventsOf(d)
      /\ \A d : UnderWay(d)' <=> UnderWay(d)
      /\ \A d, k : Continues(d, k) => Continues(d, k)'
  BY ServerUntouched
<1>3. ThreadAgrees'
  BY <1>1, <1>2, ThreadUntouched DEF PageTypeOK
<1>4. BubblesFit'
  <2>1. \A i \in EventsOf(a)' : \E j \in EventsOf(a) : wire'[i].n = wire[j].n
    BY <1>2
  <2>2. a \in Chats => store[a] <= store'[a]
    BY DEF ServerTypeOK
  <2> QED BY <1>1, <1>2, <2>1, <2>2, BubblesUntouched DEF PageTypeOK
<1> QED BY <1>2, <1>3, <1>4

\* The answer of GET /chats replaces the list: if it fits, the list agrees.
LEMMA ListArrivesAgrees ==
    ASSUME ChatInv, NEW s \in Slots, ListArrives(s)
    PROVE  /\ list' \in [Chats -> [last : Numbers, unread : BOOLEAN]]
           /\ drawn' \in [Chats -> {"none", "plain", "badge"}]
           /\ listOf' \in Searches /\ listOff' \in BOOLEAN
           /\ ListAgrees'
<1> USE Parts
<1>1. PICK r \in ListRequests : r = requests[s] /\ r.search \in Searches /\ r.last \in [Chats -> Numbers]
  BY SlotType, RequestType DEF ListArrives, Is, PageTypeOK
<1>2. PICK u \in BOOLEAN :
          list' = [c \in Chats |-> IF r.last[c] = 0 THEN Unlisted
                                   ELSE [last |-> r.last[c], unread |-> u]]
  BY <1>1 DEF ListArrives
<1>3. list' \in [Chats -> [last : Numbers, unread : BOOLEAN]]
  BY <1>1, <1>2, ZeroIsNumber DEF Unlisted
<1>4. drawn' = Rows(list') /\ drawn' \in [Chats -> {"none", "plain", "badge"}]
  BY DEF ListArrives, Rows
<1>5. /\ listOf' = r.search /\ search' = search
      /\ listOff' = ~(r.search = search /\ ListFits(r.last, search))
      /\ UNCHANGED <<store, wire, active>>
  BY <1>1 DEF ListArrives, boxVars, serverVars, threadVars
<1>6. ListAgrees'
  <2> SUFFICES ASSUME ~listOff'
               PROVE  /\ \A c \in Matching[listOf'] : UnderWay(c)' \/ list'[c].last = store'[c]
                      /\ listOf' = search'
                      /\ \A c \in Chats : drawn'[c] = Rows(list')[c]
    BY DEF ListAgrees, Rows
  <2>1. r.search = search /\ \A c \in Matching[search] : r.last[c] = store[c] \/ UnderWay(c)
    BY <1>5 DEF ListFits
  <2>2. \A c \in Chats : list'[c].last = r.last[c]
    BY <1>2 DEF Unlisted
  <2>3. Matching[search] \subseteq Chats
    BY <1>1, <2>1, Bounds
  <2> QED BY <1>4, <1>5, <2>1, <2>2, <2>3 DEF UnderWay, EventsOf
<1> QED BY <1>1, <1>3, <1>4, <1>5, <1>6

\* The requests for the list, served, failed and answered.
LEMMA ListKeeps ==
    ASSUME ChatInv, NEW s \in Slots, ServeList(s) \/ ListArrives(s) \/ ListFails(s)
    PROVE  ChatInv'
<1> USE Parts
<1>1. UNCHANGED serverVars /\ UNCHANGED threadVars /\ UNCHANGED boxVars
  BY DEF ServeList, ListArrives, ListFails
<1>2. UNCHANGED <<store, wire, active, thread, threadOff, search, timer>> /\ online' \in BOOLEAN
  BY <1>1 DEF serverVars, threadVars, boxVars, ServerTypeOK
<1>3. /\ ServerTypeOK' /\ WireInOrder' /\ ThreadAgrees' /\ BubblesFit'
      /\ \A d : UnderWay(d)' <=> UnderWay(d)
  BY <1>2, StillThread
<1>4. requests \in [Slots -> {Idle} \cup ThreadRequests \cup ListRequests]
  BY DEF PageTypeOK
<1>5. CASE ServeList(s)
  <2>1. UNCHANGED <<list, listOf, drawn, listOff>>
    BY <1>5 DEF ServeList
  <2> DEFINE f == requests[s].search
             l == [c \in Chats |-> IF c \in Matching[f] THEN store[c] ELSE 0]
  <2>2. f \in Searches /\ requests[s].of = "list"
    BY <1>4, <1>5, SlotType, RequestType DEF ServeList, Is
  <2>3. l \in [Chats -> Numbers]
    BY ZeroIsNumber, CountIsNumber DEF ServerTypeOK
  <2>4. requests' = [requests EXCEPT ![s] =
            [of |-> "list", phase |-> "served", search |-> f, last |-> l]]
    BY <1>5 DEF ServeList
  <2> HIDE DEF f, l
  <2>5. /\ requests' \in [Slots -> {Idle} \cup ThreadRequests \cup ListRequests]
        /\ ListAsked'
        /\ \A t \in Slots : requests'[t].of = "thread" => requests[t].of = "thread"
    BY <1>4, <2>2, <2>3, <2>4, RequestsMade DEF ListAsked
  <2>6. ListAgrees'
    BY <1>2, <1>3, <2>1, <2>5, ListUntouched DEF PageTypeOK
  <2>7. PageTypeOK' /\ OpenedChat'
    BY <1>2, <2>1, <2>5 DEF PageTypeOK, OpenedChat
  <2> QED BY <1>3, <2>6, <2>7, PartsAfter
<1>6. CASE ListArrives(s) \/ ListFails(s)
  <2>1. /\ requests' \in [Slots -> {Idle} \cup ThreadRequests \cup ListRequests]
        /\ \A t \in Slots : requests'[t].of = "thread" => requests[t].of = "thread"
    BY <1>4, <1>6, AnsweredKeeps DEF ListArrives, ListFails
  <2>2. /\ list' \in [Chats -> [last : Numbers, unread : BOOLEAN]]
        /\ drawn' \in [Chats -> {"none", "plain", "badge"}]
        /\ listOf' \in Searches /\ listOff' \in BOOLEAN
        /\ ListAgrees'
    <3>1. CASE ListFails(s)
      BY <3>1 DEF ListFails, NoRows, ListAgrees, PageTypeOK
    <3> QED BY <1>6, <3>1, ListArrivesAgrees
  <2>3. PageTypeOK' /\ OpenedChat'
    BY <1>2, <2>1, <2>2 DEF PageTypeOK, OpenedChat
  <2> QED BY <1>3, <2>2, <2>3, PartsAfter
<1> QED BY <1>5, <1>6

\* Key presses and the timer they set.
LEMMA SearchKeeps ==
    ASSUME ChatInv, (\E f \in Searches : Type(f)) \/ SearchTimer
    PROVE  ChatInv'
<1> USE Parts
<1>1. /\ UNCHANGED <<store, wire, active, thread, threadOff, list, listOf, drawn, listOff>>
      /\ online' \in BOOLEAN
  BY DEF Type, SearchTimer, serverVars, threadVars, listVars, ServerTypeOK
<1>2. /\ ServerTypeOK' /\ WireInOrder' /\ ThreadAgrees' /\ BubblesFit'
      /\ \A d : UnderWay(d)' <=> UnderWay(d)
  BY <1>1, StillThread
<1>3. /\ requests' \in [Slots -> {Idle} \cup ThreadRequests \cup ListRequests]
      /\ search' \in Searches /\ timer' \in BOOLEAN
      /\ ListAsked => ListAsked'
      /\ timer' \/ (ListAsked' /\ search' = search)
      /\ \A t \in Slots : requests'[t].of = "thread" => requests[t].of = "thread"
  <2>1. CASE \E f \in Searches : Type(f)
    BY <2>1 DEF Type, PageTypeOK, ListAsked
  <2>2. CASE SearchTimer
    <3> DEFINE r == [of |-> "list", phase |-> "asked", search |-> search]
    <3>1. r \in ListRequests /\ r.of = "list"
      BY RequestsMade DEF PageTypeOK
    <3>2. Ask(r) /\ timer' = FALSE /\ search' = search
      BY <2>2 DEF SearchTimer, AskList
    <3> HIDE DEF r
    <3> QED BY <3>1, <3>2, AskKeeps DEF PageTypeOK
  <2> QED BY <2>1, <2>2
<1>4. ListAgrees'
  BY <1>1, <1>2, <1>3, ListUntouched DEF PageTypeOK
<1>5. PageTypeOK' /\ OpenedChat'
  BY <1>1, <1>3 DEF PageTypeOK, OpenedChat
<1> QED BY <1>2, <1>4, <1>5, PartsAfter

\* Opening a chat: the thread is emptied, the rows are drawn, then the chat's
\* badge is reset.
LEMMA OpenKeeps ==
    ASSUME ChatInv, NEW c \in Chats, OpenChat(c)
    PROVE  ChatInv'
<1> USE Parts
<1>1. /\ UNCHANGED <<store, wire, listOf, threadOff, listOff, search, timer>> /\ online' \in BOOLEAN
      /\ active' = c /\ drawn' = Rows(list)
      /\ thread' = [shows |-> "loading", bubbles |-> <<>>]
      /\ list' = IF list[c].last = 0 THEN list ELSE [list EXCEPT ![c].unread = FALSE]
  BY DEF OpenChat, serverVars, boxVars, ServerTypeOK
<1>2. /\ ServerTypeOK' /\ WireInOrder'
      /\ \A d : UnderWay(d)' <=> UnderWay(d)
  BY <1>1, ServerUntouched
<1>3. /\ requests' \in [Slots -> {Idle} \cup ThreadRequests \cup ListRequests]
      /\ ListAsked => ListAsked'
  <2> DEFINE r == [of |-> "thread", phase |-> "asked", chat |-> c]
  <2>1. r \in ThreadRequests \cup ListRequests /\ Ask(r)
    BY RequestsMade DEF OpenChat
  <2> HIDE DEF r
  <2> QED BY <2>1, AskKeeps DEF PageTypeOK
<1>4. /\ list' \in [Chats -> [last : Numbers, unread : BOOLEAN]]
      /\ \A d \in Chats : list'[d].last = list[d].last
      /\ \A d \in Chats \ {c} : list'[d] = list[d]
  BY <1>1 DEF PageTypeOK
<1>5. thread'.shows = "loading" /\ thread' \in Threads /\ Len(thread'.bubbles) = 0
  BY <1>1 DEF Threads
<1>6. PageTypeOK'
  <2>1. drawn' \in [Chats -> {"none", "plain", "badge"}]
    BY <1>1 DEF Rows
  <2> QED BY <1>1, <1>3, <1>4, <1>5, <2>1 DEF PageTypeOK
<1>7. OpenedChat' /\ BubblesFit' /\ ThreadAgrees'
  BY <1>1, <1>5 DEF OpenedChat, BubblesFit, ThreadAgrees
<1>8. ListAgrees'
  <2> SUFFICES ASSUME ~listOff'
               PROVE  /\ \A d \in Matching[listOf] :
                            \/ UnderWay(d)' \/ list'[d].last = store[d]
                            \/ list'[d].last = 0 /\ ListAsked'
                      /\ ~timer /\ ~ListAsked' => listOf = search
                      /\ \A d \in Chats \ {c} : drawn'[d] = Rows(list')[d]
    BY <1>1 DEF ListAgrees, Rows
  <2>1. Matching[listOf] \subseteq Chats
    BY Bounds DEF PageTypeOK
  <2>2. \A d \in Chats \ {c} : drawn'[d] = Rows(list')[d]
    BY <1>1, <1>4 DEF Rows
  <2> QED BY <1>1, <1>2, <1>3, <1>4, <2>1, <2>2 DEF ListAgrees
<1> QED BY <1>2, <1>6, <1>7, <1>8, PartsAfter

\* A new socket, which asks for the list when the transport is ready.
LEMMA SocketOpensKeeps ==
    ASSUME ChatInv, SocketOpens \/ HearReady
    PROVE  ChatInv'
<1> USE Parts
<1>1. /\ UNCHANGED <<store, wire, active, thread, threadOff, list, listOf, drawn, listOff, search, timer>>
      /\ online' \in BOOLEAN
  BY DEF SocketOpens, HearReady, serverVars, threadVars, listVars, boxVars, ServerTypeOK
<1>2. /\ ServerTypeOK' /\ WireInOrder' /\ ThreadAgrees' /\ BubblesFit'
      /\ \A d : UnderWay(d)' <=> UnderWay(d)
  BY <1>1, StillThread
<1>3. /\ requests' \in [Slots -> {Idle} \cup ThreadRequests \cup ListRequests]
      /\ ListAsked => ListAsked'
      /\ \A s \in Slots : requests'[s].of = "thread" => requests[s].of = "thread"
  <2>1. CASE SocketOpens
    BY <2>1 DEF SocketOpens, PageTypeOK, ListAsked
  <2>2. CASE HearReady
    <3> DEFINE r == [of |-> "list", phase |-> "asked", search |-> Everything]
    <3>1. r \in ThreadRequests \cup ListRequests /\ Ask(r) /\ r.of = "list"
      BY <2>2, RequestsMade, Bounds DEF HearReady, AskList
    <3> HIDE DEF r
    <3> QED BY <3>1, AskKeeps DEF PageTypeOK
  <2> QED BY <2>1, <2>2
<1>4. ListAgrees'
  BY <1>1, <1>2, <1>3, ListUntouched DEF PageTypeOK
<1>5. PageTypeOK' /\ OpenedChat'
  BY <1>1, <1>3 DEF PageTypeOK, OpenedChat
<1> QED BY <1>2, <1>4, <1>5, PartsAfter

\* The answer of GET /chats/:id/messages replaces the bubbles: if it fits,
\* the thread agrees.
LEMMA ThreadArrivesAgrees ==
    ASSUME ChatInv, NEW s \in Slots, ThreadArrives(s)
    PROVE  /\ thread'.shows = "messages" /\ thread' \in Threads
           /\ threadOff' \in BOOLEAN
           /\ active \in Chats
           /\ BubblesFit' /\ ThreadAgrees'
<1> USE Parts
<1>1. PICK c \in Chats, n \in Nat :
          /\ requests[s].of = "thread"
          /\ c = requests[s].chat /\ n = requests[s].upto /\ n <= MaxMessages[c]
  BY SlotType, RequestType DEF ThreadArrives, Is, PageTypeOK
<1>2. /\ thread' = [shows |-> "messages", bubbles |-> History(c, n)]
      /\ threadOff' = ~(c = active /\ Continues(active, n))
      /\ UNCHANGED <<store, wire, active>>
  BY <1>1 DEF ThreadArrives, ThreadFits, serverVars
<1>3. active \in Chats
  BY <1>1 DEF OpenedChat
<1>4. thread'.shows = "messages" /\ thread'.bubbles = History(c, n) /\ threadOff' \in BOOLEAN
  BY <1>2
<1>5. thread'.bubbles \in Seq(Messages) /\ Len(thread'.bubbles) = n
  BY <1>1, <1>4, HistoryType
<1>6. BubblesFit'
  <2>1. PICK a \in Chats, u \in Nat, x \in Nat : a = active /\ u = MaxMessages[c] /\ x = store[active]
    BY <1>3, Bounds DEF ServerTypeOK
  <2>2. n <= u + x
    BY <1>1, <2>1
  <2>3. \A i \in EventsOf(a)' : n < u + wire'[i].n
    <3> SUFFICES ASSUME NEW i \in EventsOf(a)' PROVE n < u + wire'[i].n
      OBVIOUS
    <3>1. i \in DOMAIN wire /\ wire'[i] = wire[i]
      BY <1>2 DEF EventsOf
    <3>2. PICK y \in Nat : y = wire'[i].n /\ y > 0
      BY <3>1, EventType
    <3> QED BY <1>1, <2>1, <3>2
  <2> QED BY <1>2, <1>5, <2>1, <2>2, <2>3 DEF BubblesFit, EventsOf
<1>7. ThreadAgrees'
  <2> SUFFICES ASSUME ~threadOff'
               PROVE  thread'.bubbles = History(active, n) /\ Continues(active, n)'
    BY <1>2, <1>5 DEF ThreadAgrees, Continues, EventsOf, History, Message
  <2>1. c = active /\ Continues(active, n)
    BY <1>2
  <2> QED BY <1>2, <1>4, <2>1 DEF Continues, EventsOf
<1>8. thread' \in Threads
  BY <1>2, <1>4, <1>5 DEF Threads
<1> QED BY <1>3, <1>4, <1>6, <1>7, <1>8

\* The requests for a thread, served, failed and answered.
LEMMA ThreadKeeps ==
    ASSUME ChatInv, NEW s \in Slots, ServeThread(s) \/ ThreadArrives(s) \/ ThreadFails(s)
    PROVE  ChatInv'
<1> USE Parts
<1>1. /\ UNCHANGED <<store, wire, active, list, listOf, drawn, listOff, search, timer>>
      /\ online' \in BOOLEAN
  BY DEF ServeThread, ThreadArrives, ThreadFails, serverVars, listVars, boxVars, ServerTypeOK
<1>2. /\ ServerTypeOK' /\ WireInOrder'
      /\ \A d : UnderWay(d)' <=> UnderWay(d)
  BY <1>1, ServerUntouched
<1>3. /\ requests' \in [Slots -> {Idle} \cup ThreadRequests \cup ListRequests]
      /\ ListAsked => ListAsked'
      /\ requests[s].of = "thread"
  <2>1. CASE ServeThread(s)
    <3>1. PICK c \in Chats : c = requests[s].chat /\ requests[s].of = "thread"
      BY <2>1, SlotType, RequestType DEF ServeThread, Is, PageTypeOK
    <3> DEFINE r == [of |-> "thread", phase |-> "served", chat |-> c, upto |-> store[c]]
    <3>2. r \in ThreadRequests
      BY RequestsMade, Bounds DEF ServerTypeOK
    <3>3. requests' = [requests EXCEPT ![s] = r]
      BY <2>1, <3>1 DEF ServeThread
    <3> HIDE DEF r
    <3> QED BY <3>1, <3>2, <3>3 DEF PageTypeOK, ListAsked
  <2>2. CASE ThreadArrives(s) \/ ThreadFails(s)
    BY <2>2, AnsweredKeeps DEF ThreadArrives, ThreadFails, Is, PageTypeOK
  <2> QED BY <2>1, <2>2
<1>4. active \in Chats
  BY <1>3 DEF OpenedChat
<1>5. ListAgrees'
  BY <1>1, <1>2, <1>3, ListUntouched DEF PageTypeOK
<1>6. /\ thread' \in Threads /\ threadOff' \in BOOLEAN
      /\ BubblesFit' /\ ThreadAgrees'
  <2>1. CASE ServeThread(s)
    <3>1. UNCHANGED <<thread, threadOff>>
      BY <2>1 DEF ServeThread
    <3> QED BY <1>1, <3>1, StillThread DEF PageTypeOK
  <2>2. CASE ThreadArrives(s)
    BY <2>2, ThreadArrivesAgrees
  <2>3. CASE ThreadFails(s)
    <3>1. thread'.shows = "error" /\ thread'.bubbles = <<>> /\ threadOff' = threadOff
      BY <2>3 DEF ThreadFails
    <3>2. thread' \in Threads /\ Len(thread'.bubbles) = 0
      BY <2>3 DEF ThreadFails, Threads
    <3> QED BY <3>1, <3>2 DEF BubblesFit, ThreadAgrees, PageTypeOK
  <2> QED BY <2>1, <2>2, <2>3
<1>7. PageTypeOK' /\ OpenedChat'
  BY <1>1, <1>3, <1>4, <1>6 DEF PageTypeOK, OpenedChat
<1> QED BY <1>2, <1>5, <1>6, <1>7, PartsAfter

\* What a message that comes to be leaves of the server: behind an open
\* socket as an event, behind a closed one in the store alone.
LEMMA NewMessageServer ==
    ASSUME ChatInv, WireNeedsSocket, NEW c \in Chats, NewMessage(c)
    PROVE  /\ ServerTypeOK' /\ WireInOrder'
           /\ \A d \in Chats : store[d] <= store'[d]
           /\ \A d \in Chats \ {c} : store'[d] = store[d]
           /\ \A d \in Chats : UnderWay(d) => UnderWay(d)'
           /\ online => UnderWay(c)'
           /\ \A d \in Chats, k \in Nat :
                 Continues(d, k) /\ (d # c \/ online) => Continues(d, k)'
           /\ \A d \in Chats : \A i \in EventsOf(d)' :
                 \/ \E j \in EventsOf(d) : wire'[i].n = wire[j].n
                 \/ wire'[i].n > store[d] /\ wire'[i].n \in Nat
<1> USE Parts
<1>1. /\ store' = [store EXCEPT ![c] = @ + 1] /\ online' = online
      /\ store \in [Chats -> Nat] /\ store[c] < MaxMessages[c] /\ MaxMessages \in [Chats -> Nat]
      /\ \A d \in Chats : store[d] <= MaxMessages[d]
  BY Bounds DEF NewMessage, ServerTypeOK
<1>2. /\ store'[c] = store[c] + 1
      /\ \A d \in Chats \ {c} : store'[d] = store[d]
      /\ \A d \in Chats : store[d] <= store'[d]
      /\ store' \in [Chats -> Nat]
  BY <1>1
<1>3. \A d \in Chats : store'[d] <= MaxMessages[d]
  <2>1. store[c] + 1 <= MaxMessages[c]
    BY <1>1
  <2> QED BY <1>1, <1>2, <2>1
<1>4. CASE online
  <2>1. /\ wire' \in Seq(Messages) /\ Len(wire') <= MaxWire
        /\ \E l \in Nat :
              /\ DOMAIN wire = 1..l /\ DOMAIN wire' = 1..(l + 1)
              /\ wire'[l + 1].chat = c /\ wire'[l + 1].n = store[c] + 1
              /\ \A i \in 1..l : wire'[i] = wire[i]
    BY <1>4, WireAppended
  <2>2. /\ WireInOrder'
        /\ \A d \in Chats : UnderWay(d) \/ d = c => UnderWay(d)'
        /\ \A d \in Chats, k \in Nat : Continues(d, k) => Continues(d, k)'
    BY <1>4, NewMessageWire
  <2>3. ServerTypeOK'
    BY <1>1, <1>2, <1>3, <2>1 DEF ServerTypeOK
  <2>4. ASSUME NEW d \in Chats, NEW i \in EventsOf(d)'
        PROVE  \/ \E j \in EventsOf(d) : wire'[i].n = wire[j].n
               \/ wire'[i].n > store[d] /\ wire'[i].n \in Nat
    <3>1. PICK l \in Nat :
              /\ DOMAIN wire = 1..l /\ DOMAIN wire' = 1..(l + 1)
              /\ wire'[l + 1].chat = c /\ wire'[l + 1].n = store[c] + 1
              /\ \A j \in 1..l : wire'[j] = wire[j]
      BY <2>1
    <3>2. i \in 1..(l + 1) /\ wire'[i].chat = d
      BY <3>1 DEF EventsOf
    <3>3. CASE i \in 1..l
      BY <3>1, <3>2, <3>3 DEF EventsOf
    <3>4. CASE i = l + 1
      BY <1>1, <3>1, <3>2, <3>4
    <3> QED BY <3>2, <3>3, <3>4
  <2> QED BY <1>2, <2>2, <2>3, <2>4
<1>5. CASE ~online
  <2>1. wire = <<>> /\ wire' = wire
    BY <1>5 DEF WireNeedsSocket, NewMessage
  <2>2. ServerTypeOK'
    BY <1>1, <1>2, <1>3, <2>1 DEF ServerTypeOK
  <2>3. /\ \A d : EventsOf(d) = {}
        /\ \A d : EventsOf(d)' = EventsOf(d)
    <3>1. DOMAIN wire = {} /\ DOMAIN wire' = {}
      BY <2>1
    <3> QED BY <3>1 DEF EventsOf
  <2>4. \A d : UnderWay(d)' <=> UnderWay(d)
    BY <2>3 DEF UnderWay
  <2>5. WireInOrder'
    <3>1. DOMAIN wire' = {}
      BY <2>1
    <3>2. \A d : EventsOf(d)' = {}
      BY <2>3
    <3> QED BY <3>1, <3>2 DEF WireInOrder, UnderWay
  <2>6. ASSUME NEW d \in Chats \ {c}, NEW k \in Nat, Continues(d, k)
        PROVE  Continues(d, k)'
    BY <1>2, <2>1, <2>3, <2>6 DEF Continues
  <2> QED BY <1>2, <1>5, <2>2, <2>3, <2>4, <2>5, <2>6
<1> QED BY <1>4, <1>5

\* 'message_create'.
LEMMA NewMessageKeeps ==
    ASSUME ChatInv, WireNeedsSocket, NEW c \in Chats, NewMessage(c)
    PROVE  ChatInv'
<1> USE Parts
<1>1. /\ UNCHANGED <<active, thread, list, listOf, drawn, requests, search, timer>>
      /\ threadOff' = (threadOff \/ (~online /\ active = c))
      /\ listOff' = (listOff \/ ~online)
  BY DEF NewMessage, Lost, boxVars
<1>2. PICK a : a = active
  OBVIOUS
<1>3. /\ ServerTypeOK' /\ WireInOrder'
      /\ \A d \in Chats : store[d] <= store'[d]
      /\ \A d \in Chats \ {c} : store'[d] = store[d]
      /\ \A d \in Chats : UnderWay(d) => UnderWay(d)'
      /\ online => UnderWay(c)'
      /\ \A d \in Chats, k \in Nat :
            Continues(d, k) /\ (d # c \/ online) => Continues(d, k)'
      /\ \A d \in Chats : \A i \in EventsOf(d)' :
            \/ \E j \in EventsOf(d) : wire'[i].n = wire[j].n
            \/ wire'[i].n > store[d] /\ wire'[i].n \in Nat
  BY NewMessageServer
<1>4. ThreadAgrees'
  <2>1. ~threadOff' /\ a \in Chats => \A k \in Nat : Continues(a, k) => Continues(a, k)'
    BY <1>1, <1>2, <1>3
  <2> QED BY <1>1, <1>2, <2>1, ThreadUntouched
<1>5. BubblesFit'
  <2>1. CASE a \in Chats
    BY <1>1, <1>2, <1>3, <2>1, BubblesUntouched
  <2>2. CASE a \notin Chats
    BY <1>1, <1>2, <2>2 DEF BubblesFit
  <2> QED BY <2>1, <2>2
<1>6. ListAgrees'
  <2>1. ~listOff' => \A d \in Chats : /\ UnderWay(d) => UnderWay(d)'
                                      /\ UnderWay(d)' \/ store'[d] = store[d]
    BY <1>1, <1>3
  <2>2. ListAsked => ListAsked'
    BY <1>1 DEF ListAsked
  <2> QED BY <1>1, <2>1, <2>2, ListUntouched DEF PageTypeOK
<1>7. PageTypeOK' /\ OpenedChat'
  BY <1>1 DEF PageTypeOK, OpenedChat
<1> QED BY <1>3, <1>4, <1>5, <1>6, <1>7, PartsAfter

\* The socket closes: its events are lost.
LEMMA SocketClosesKeeps ==
    ASSUME ChatInv, SocketCloses
    PROVE  ChatInv'
<1> USE Parts
<1>1. /\ UNCHANGED <<store, active, thread, list, listOf, drawn, requests, search, timer>>
      /\ wire' = <<>> /\ online' \in BOOLEAN
      /\ ~threadOff' => ~threadOff /\ ~(active \in Chats /\ UnderWay(active))
      /\ ~listOff' => ~listOff /\ \A d \in Chats : ~UnderWay(d)
      /\ threadOff' \in BOOLEAN /\ listOff' \in BOOLEAN
  BY DEF SocketCloses, Lost, boxVars, PageTypeOK
<1>2. PICK a : a = active
  OBVIOUS
<1>3. wire' \in Seq(Messages) /\ Len(wire') = 0 /\ DOMAIN wire' = {}
  BY <1>1
<1>4. \A d : EventsOf(d)' = {}
  BY <1>3 DEF EventsOf
<1>5. ServerTypeOK' /\ WireInOrder'
  BY <1>1, <1>3, <1>4, Bounds DEF ServerTypeOK, WireInOrder, UnderWay
<1>6. ThreadAgrees'
  <2>1. ASSUME ~threadOff', a \in Chats, NEW k \in Nat, Continues(a, k)
        PROVE  Continues(a, k)'
    <3>1. EventsOf(a) = {} /\ EventsOf(a)' = {}
      BY <1>1, <1>2, <1>4, <2>1 DEF UnderWay
    <3> QED BY <1>1, <2>1, <3>1 DEF Continues
  <2> QED BY <1>1, <1>2, <2>1, ThreadUntouched
<1>7. BubblesFit'
  <2>1. CASE a \in Chats
    <3>1. store[a] <= store'[a]
      BY <1>1, <2>1 DEF ServerTypeOK
    <3> QED BY <1>1, <1>2, <1>4, <1>5, <3>1, BubblesUntouched
  <2>2. CASE a \notin Chats
    BY <1>1, <1>2, <2>2 DEF BubblesFit
  <2> QED BY <2>1, <2>2
<1>8. ListAgrees'
  <2>1. ListAsked => ListAsked'
    BY <1>1 DEF ListAsked
  <2> QED BY <1>1, <2>1, ListUntouched DEF PageTypeOK
<1>9. PageTypeOK' /\ OpenedChat'
  BY <1>1 DEF PageTypeOK, OpenedChat
<1> QED BY <1>5, <1>6, <1>7, <1>8, <1>9, PartsAfter

\* An event of the open chat goes behind the bubbles: a thread that agreed
\* holds one message more.
LEMMA ReceiveThread ==
    ASSUME ChatInv, NEW mine \in BOOLEAN, Receive(mine), NEW m, m = Head(wire)
    PROVE  thread' \in Threads /\ BubblesFit' /\ ThreadAgrees'
<1> USE Parts
<1>1. /\ wire # <<>> /\ wire' = Tail(wire) /\ UNCHANGED <<store, active, threadOff>>
      /\ m.chat = active => thread' = [thread EXCEPT !.bubbles = Append(@, m)]
      /\ m.chat # active => thread' = thread
  BY DEF Receive
<1>2. PICK a : a = active
  OBVIOUS
<1>3. /\ m \in Messages /\ UnderWay(m.chat) /\ m.n <= store[m.chat]
      /\ \A i \in EventsOf(m.chat)' : m.n < wire'[i].n
      /\ \A d \in Chats \ {m.chat}, k \in Nat : Continues(d, k) => Continues(d, k)'
      /\ \A k \in Nat : Continues(m.chat, k) => m.n = k + 1 /\ Continues(m.chat, k + 1)'
  BY <1>1, ReceiveWire
<1>4. PICK c \in Chats, n \in Nat :
          c = m.chat /\ n = m.n /\ n > 0 /\ n <= MaxMessages[c] /\ m = Message(c, n)
  BY <1>3, MessageType, MessageIs
<1>5. PICK l \in Nat :
          /\ DOMAIN wire = 1..(l + 1) /\ DOMAIN wire' = 1..l
          /\ m = wire[1]
          /\ \A i \in 1..l : wire'[i] = wire[i + 1]
  BY <1>1, WireTail
<1>6. CASE c = a
  <2> DEFINE bubbles == thread.bubbles
  <2>1. bubbles \in Seq(Messages) /\ Len(bubbles) \in Nat
    BY LenProperties
  <2>2. thread' = [thread EXCEPT !.bubbles = Append(bubbles, m)]
    BY <1>1, <1>2, <1>4, <1>6
  <2>3. Append(bubbles, m) \in Seq(Messages) /\ Len(Append(bubbles, m)) = Len(bubbles) + 1
    BY <1>3, <2>1, AppendProperties
  <2> HIDE DEF bubbles
  <2>4. /\ thread' \in Threads /\ thread'.shows = thread.shows
        /\ thread'.bubbles = Append(bubbles, m)
    BY <2>2, <2>3 DEF PageTypeOK, Threads
  <2>5. PICK k \in Nat : k = Len(bubbles) /\ k + 1 = Len(thread'.bubbles)
    BY <2>1, <2>3, <2>4
  <2>6. BubblesFit'
    <3>1. PICK d \in Chats : k < MaxMessages[d] + n
      <4>1. CASE k = 0
        <5>1. 0 < MaxMessages[c] + n
          BY <1>4, Bounds
        <5> QED BY <4>1, <5>1
      <4>2. CASE k # 0
        <5>1. PICK d \in Chats : \A i \in EventsOf(active) : k < MaxMessages[d] + wire[i].n
          BY <2>5, <4>2 DEF BubblesFit, bubbles
        <5>2. 1 \in EventsOf(active) /\ wire[1].n = n
          BY <1>2, <1>4, <1>5, <1>6 DEF EventsOf
        <5> QED BY <5>1, <5>2
      <4> QED BY <4>1, <4>2
    <3>2. PICK u \in Nat, x \in Nat : u = MaxMessages[d] /\ x = store[a] /\ n <= x
      BY <1>3, <1>4, <1>6, Bounds DEF ServerTypeOK
    <3>3. k + 1 <= u + x
      BY <1>4, <3>1, <3>2
    <3>4. \A i \in EventsOf(a)' : k + 1 < u + wire'[i].n
      <4> SUFFICES ASSUME NEW i \in EventsOf(a)' PROVE k + 1 < u + wire'[i].n
        OBVIOUS
      <4>1. n < wire'[i].n
        BY <1>3, <1>4, <1>6
      <4>2. PICK y \in Nat : y = wire'[i].n
        <5>1. i \in 1..l /\ i + 1 \in 1..(l + 1) /\ wire'[i] = wire[i + 1]
          BY <1>5 DEF EventsOf
        <5>2. wire[i + 1].n \in Nat
          BY <1>5, <5>1, EventType
        <5> QED BY <5>1, <5>2
      <4> QED BY <3>1, <3>2, <4>1, <4>2
    <3> QED BY <1>1, <1>2, <1>4, <1>6, <2>5, <3>2, <3>3, <3>4 DEF BubblesFit, EventsOf
  <2>7. ThreadAgrees'
    <3> SUFFICES ASSUME thread.shows = "messages", ~threadOff
                 PROVE  /\ thread'.bubbles = History(active, k + 1)
                        /\ Continues(a, k + 1)'
      BY <1>1, <1>2, <2>4, <2>5 DEF ThreadAgrees, Continues, EventsOf, History, Message
    <3>1. bubbles = History(active, k) /\ Continues(active, k)
      BY <2>5 DEF ThreadAgrees, bubbles
    <3>2. n = k + 1 /\ Continues(a, k + 1)'
      BY <1>2, <1>3, <1>4, <1>6, <3>1
    <3>3. Append(History(c, k), Message(c, k + 1)) = History(c, k + 1)
      BY <1>4, <3>2, HistoryAppend
    <3> QED BY <1>2, <1>4, <1>6, <2>4, <3>1, <3>2, <3>3
  <2> QED BY <2>4, <2>6, <2>7
<1>7. CASE c # a
  <2>1. thread' = thread
    BY <1>1, <1>2, <1>4, <1>7
  <2>2. ThreadAgrees'
    <3>1. a \in Chats => \A k \in Nat : Continues(a, k) => Continues(a, k)'
      BY <1>3, <1>4, <1>7
    <3> QED BY <1>1, <1>2, <2>1, <3>1, ThreadUntouched
  <2>3. BubblesFit'
    <3>1. \A i \in EventsOf(a)' : \E j \in EventsOf(a) : wire'[i].n = wire[j].n
      <4> SUFFICES ASSUME NEW i \in EventsOf(a)' PROVE \E j \in EventsOf(a) : wire'[i].n = wire[j].n
        OBVIOUS
      <4>1. i \in 1..l /\ i + 1 \in 1..(l + 1) /\ wire'[i] = wire[i + 1] /\ wire'[i].chat = a
        BY <1>5 DEF EventsOf
      <4>2. i + 1 \in EventsOf(a)
        BY <1>5, <4>1 DEF EventsOf
      <4> QED BY <4>1, <4>2
    <3>2. a \in Chats => store[a] <= store'[a]
      BY <1>1 DEF ServerTypeOK
    <3>3. ServerTypeOK'
      <4>1. wire' \in Seq(Messages) /\ Len(wire') <= MaxWire
        BY <1>1, WireTail
      <4> QED BY <1>1, <4>1 DEF ServerTypeOK, Receive
    <3>4. ServerTypeOK /\ BubblesFit /\ thread.bubbles \in Seq(Messages)
      OBVIOUS
    <3>5. active' = active /\ thread'.bubbles = thread.bubbles
      BY <1>1, <2>1
    <3> HIDE Parts
    <3> QED BY <1>2, <3>1, <3>2, <3>3, <3>4, <3>5, BubblesUntouched
  <2> QED BY <2>1, <2>2, <2>3 DEF PageTypeOK
<1> QED BY <1>6, <1>7

\* An event becomes the preview of its chat, or the list is asked for.
LEMMA ReceiveList ==
    ASSUME ChatInv, NEW mine \in BOOLEAN, Receive(mine), NEW m, m = Head(wire)
    PROVE  /\ list' \in [Chats -> [last : Numbers, unread : BOOLEAN]]
           /\ requests' \in [Slots -> {Idle} \cup ThreadRequests \cup ListRequests]
           /\ \A s \in Slots : requests'[s].of = "thread" => requests[s].of = "thread"
           /\ ListAgrees'
<1> USE Parts
<1>1. /\ wire # <<>> /\ wire' = Tail(wire)
      /\ UNCHANGED <<store, active, listOf, listOff, search, timer>>
      /\ drawn' = Rows(list')
  BY DEF Receive, boxVars
<1>2. /\ m \in Messages
      /\ ~UnderWay(m.chat)' => m.n = store[m.chat]
      /\ \A d \in Chats \ {m.chat} : UnderWay(d)' <=> UnderWay(d)
  BY <1>1, ReceiveWire
<1>3. PICK c \in Chats, n \in Numbers : c = m.chat /\ n = m.n
  BY <1>2, MessageType
<1>4. /\ list' \in [Chats -> [last : Numbers, unread : BOOLEAN]]
      /\ requests' \in [Slots -> {Idle} \cup ThreadRequests \cup ListRequests]
      /\ \A s \in Slots : requests'[s].of = "thread" => requests[s].of = "thread"
      /\ ListAsked => ListAsked'
      /\ \A d \in Chats \ {c} : list'[d] = list[d]
      /\ list'[c].last = n \/ (list'[c].last = 0 /\ ListAsked')
  <2>1. CASE list[c].last # 0
    <3>1. requests' = requests
      BY <1>3, <2>1 DEF Receive
    <3>2. PICK u \in BOOLEAN : list' = [list EXCEPT ![c] = [last |-> n, unread |-> u]]
      <4>1. list' = [list EXCEPT ![c] = [last |-> n,
                        unread |-> list[c].unread \/ (c # active /\ ~mine)]]
        BY <1>3, <2>1 DEF Receive
      <4>2. (list[c].unread \/ (c # active /\ ~mine)) \in BOOLEAN
        BY Zenon DEF PageTypeOK
      <4> QED BY <4>1, <4>2
    <3> QED BY <3>1, <3>2 DEF PageTypeOK, ListAsked
  <2>2. CASE list[c].last = 0
    <3> DEFINE r == [of |-> "list", phase |-> "asked", search |-> search]
    <3>1. r \in ThreadRequests \cup ListRequests /\ r.of = "list"
      BY RequestsMade DEF PageTypeOK
    <3>2. Ask(r) /\ list' = list
      BY <1>3, <2>2 DEF Receive, AskList
    <3> HIDE DEF r
    <3> QED BY <2>2, <3>1, <3>2, AskKeeps DEF PageTypeOK
  <2> QED BY <2>1, <2>2
<1>5. ListAgrees'
  <2> SUFFICES ASSUME ~listOff
               PROVE  /\ \A d \in Matching[listOf] :
                            \/ UnderWay(d)' \/ list'[d].last = store[d]
                            \/ list'[d].last = 0 /\ ListAsked'
                      /\ ~timer /\ ~ListAsked' => listOf = search
    BY <1>1 DEF ListAgrees, Rows
  <2>1. Matching[listOf] \subseteq Chats
    BY Bounds DEF PageTypeOK
  <2> QED BY <1>2, <1>3, <1>4, <2>1 DEF ListAgrees
<1> QED BY <1>4, <1>5

\* socket.on('chatMessage').
LEMMA ReceiveKeeps ==
    ASSUME ChatInv, NEW mine \in BOOLEAN, Receive(mine)
    PROVE  ChatInv'
<1> USE Parts
<1>1. PICK m : m = Head(wire)
  OBVIOUS
<1>2. /\ wire # <<>> /\ wire' = Tail(wire)
      /\ UNCHANGED <<store, online, active, threadOff, listOf, listOff, search, timer>>
      /\ drawn' = Rows(list')
      /\ thread'.shows = thread.shows
  BY DEF Receive, boxVars, PageTypeOK, Threads
<1>3. ServerTypeOK' /\ WireInOrder'
  <2>1. wire' \in Seq(Messages) /\ Len(wire') <= MaxWire
    BY <1>2, WireTail
  <2>2. WireInOrder'
    BY <1>1, <1>2, ReceiveWire
  <2> QED BY <1>2, <2>1, <2>2 DEF ServerTypeOK
<1>4. thread' \in Threads /\ BubblesFit' /\ ThreadAgrees'
  BY <1>1, ReceiveThread
<1>5. /\ list' \in [Chats -> [last : Numbers, unread : BOOLEAN]]
      /\ requests' \in [Slots -> {Idle} \cup ThreadRequests \cup ListRequests]
      /\ \A s \in Slots : requests'[s].of = "thread" => requests[s].of = "thread"
      /\ ListAgrees'
  BY <1>1, ReceiveList
<1>6. PageTypeOK' /\ OpenedChat'
  BY <1>2, <1>4, <1>5 DEF PageTypeOK, OpenedChat, Rows
<1> QED BY <1>3, <1>4, <1>5, <1>6, PartsAfter

-----------------------------------------------------------------------------
(* The theorems.                                                           *)

\* The invariant holds when the page has loaded.
LEMMA InitHolds == Init => ChatInv /\ WireNeedsSocket
<1> SUFFICES ASSUME Init PROVE ChatInv /\ WireNeedsSocket
  OBVIOUS
<1>1. /\ store = [c \in Chats |-> IF c \in Known THEN 1 ELSE 0]
      /\ wire = <<>> /\ online = FALSE
  BY DEF Init
<1>2. ServerTypeOK
  <2>1. ASSUME NEW c \in Chats PROVE store[c] \in Nat /\ store[c] <= MaxMessages[c]
    <3>1. CASE c \in Known
      BY <1>1, <3>1, Bounds
    <3>2. CASE c \notin Known
      BY <1>1, <3>2, Bounds
    <3> QED BY <3>1, <3>2
  <2>2. store \in [Chats -> Nat]
    BY <1>1
  <2>3. wire \in Seq(Messages) /\ Len(wire) = 0
    BY <1>1
  <2>4. Len(wire) <= MaxWire
    BY <2>3, Bounds
  <2>5. online \in BOOLEAN
    BY <1>1
  <2> QED BY <2>1, <2>2, <2>3, <2>4, <2>5 DEF ServerTypeOK
<1>3. DOMAIN wire = {} /\ Len(thread.bubbles) = 0 /\ thread.shows = "nothing"
  BY DEF Init
<1>4. list \in [Chats -> [last : Numbers, unread : BOOLEAN]]
  BY ZeroIsNumber DEF Init, Unlisted
<1>5. PageTypeOK
  <2>1. /\ active = NoChat /\ listOf = Everything /\ search = Everything
        /\ timer = FALSE /\ threadOff = FALSE /\ listOff = TRUE
    BY DEF Init
  <2>2. thread \in Threads
    BY DEF Init, Threads
  <2>3. requests \in [Slots -> {Idle}] /\ drawn \in [Chats -> {"none", "plain", "badge"}]
    BY DEF Init, NoRows
  <2>4. requests \in [Slots -> {Idle} \cup ThreadRequests \cup ListRequests]
    BY <2>3
  <2> QED BY <1>4, <2>1, <2>2, <2>3, <2>4, Bounds DEF PageTypeOK
<1>6. WireInOrder
  BY <1>3 DEF WireInOrder, UnderWay, EventsOf
<1>7. OpenedChat
  BY <1>3 DEF Init, OpenedChat, Idle
<1>8. BubblesFit /\ ThreadAgrees /\ ListAgrees
  BY <1>3 DEF Init, BubblesFit, ThreadAgrees, ListAgrees
<1> QED BY <1>1, <1>2, <1>5, <1>6, <1>7, <1>8, Parts DEF WireNeedsSocket

\* Only an open socket carries events.
LEMMA WireNeedsSocketKeeps ==
    ASSUME WireNeedsSocket, [Next]_vars
    PROVE  WireNeedsSocket'
<1> USE DEF WireNeedsSocket
<1>1. CASE Requests
  BY <1>1 DEF Requests, ServeList, ListArrives, ListFails, ServeThread, ThreadArrives,
       ThreadFails, serverVars
<1>2. CASE (\E f \in Searches : Type(f)) \/ SearchTimer \/ (\E c \in Chats : OpenChat(c))
  BY <1>2 DEF Type, SearchTimer, OpenChat, serverVars
<1>3. CASE \E c \in Chats : NewMessage(c)
  BY <1>3 DEF NewMessage
<1>4. CASE \E mine \in BOOLEAN : Receive(mine)
  BY <1>4 DEF Receive
<1>5. CASE SocketOpens \/ HearReady \/ SocketCloses
  BY <1>5 DEF SocketOpens, HearReady, SocketCloses, serverVars
<1>6. CASE UNCHANGED vars
  BY <1>6 DEF vars, serverVars
<1> QED BY <1>1, <1>2, <1>3, <1>4, <1>5, <1>6 DEF Next

\* And every step keeps the invariant.
LEMMA NextKeeps ==
    ASSUME ChatInv, WireNeedsSocket, [Next]_vars
    PROVE  ChatInv'
<1>1. CASE Requests
  BY <1>1, ListKeeps, ThreadKeeps DEF Requests
<1>2. CASE (\E f \in Searches : Type(f)) \/ SearchTimer
  BY <1>2, SearchKeeps
<1>3. CASE \E c \in Chats : OpenChat(c)
  BY <1>3, OpenKeeps
<1>4. CASE \E c \in Chats : NewMessage(c)
  BY <1>4, NewMessageKeeps
<1>5. CASE \E mine \in BOOLEAN : Receive(mine)
  BY <1>5, ReceiveKeeps
<1>6. CASE SocketOpens \/ HearReady \/ SocketCloses
  BY <1>6, SocketOpensKeeps, SocketClosesKeeps
<1>7. CASE UNCHANGED vars
  <2>1. UNCHANGED <<store, online, wire, active, thread, threadOff, list, listOf, drawn, listOff,
                    search, timer, requests>>
    BY <1>7 DEF vars, serverVars, threadVars, listVars, boxVars
  <2>2. online' \in BOOLEAN
    BY <2>1, Parts DEF ServerTypeOK
  <2>3. /\ ServerTypeOK' /\ WireInOrder' /\ ThreadAgrees' /\ BubblesFit'
        /\ \A d : UnderWay(d)' <=> UnderWay(d)
    BY <2>1, <2>2, StillThread
  <2>4. ListAgrees'
    <3>1. ListAsked => ListAsked'
      BY <2>1 DEF ListAsked
    <3> QED BY <2>1, <2>3, <3>1, Parts, ListUntouched DEF PageTypeOK
  <2>5. PageTypeOK' /\ OpenedChat'
    BY <2>1, Parts DEF PageTypeOK, OpenedChat
  <2> QED BY <2>3, <2>4, <2>5, PartsAfter
<1> QED BY <1>1, <1>2, <1>3, <1>4, <1>5, <1>6, <1>7 DEF Next

\* The invariant of every behaviour of the page, its server and its socket.
THEOREM ChatInvHolds == Spec => [](ChatInv /\ WireNeedsSocket)
<1>1. ChatInv /\ WireNeedsSocket /\ [Next]_vars => (ChatInv /\ WireNeedsSocket)'
  BY NextKeeps, WireNeedsSocketKeeps
<1> QED BY <1>1, InitHolds, PTL DEF Spec

\* Everything stays of its type, and a thread never grows beyond one answer
\* and the events of the open chat.
THEOREM ChatTypes == Spec => []TypeOK
<1>1. ChatInv => TypeOK
  BY DEF ChatInv
<1> QED BY <1>1, ChatInvHolds, PTL

\* The open thread is its chat's messages, each once and in order, up to the
\* events under way, from an answer that fitted until an event is lost.
THEOREM ThreadIsHistory == Spec => []ThreadAgrees
<1>1. ChatInv => ThreadAgrees
  BY DEF ChatInv
<1> QED BY <1>1, ChatInvHolds, PTL

\* The list previews the last messages, is the answer to the search once all
\* is at rest, and its rows show the badges it has.
THEOREM ListIsCurrent == Spec => []ListAgrees
<1>1. ChatInv => ListAgrees
  BY DEF ChatInv
<1> QED BY <1>1, ChatInvHolds, PTL
=============================================================================
