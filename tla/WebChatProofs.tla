--------------------------- MODULE WebChatProofs ---------------------------
(***************************************************************************)
(* Proofs about WebChat, for any requests, messages from others, bounds    *)
(* and sizes of the back queues: its types, that the chat queue new        *)
(* messages go to always has its listener, and that what a stream has      *)
(* accumulated is kept in order, but for replaced text and late calls.     *)
(***************************************************************************)
EXTENDS WebChat, TLAPS, SequenceTheorems

ChatTypes ==
  /\ current \in Chats \cup {0} /\ made \in Chats \cup {0}
  /\ entry \in Chats \cup {0}
  /\ inbox \in [Chats -> Seq(Requests)]
  /\ closed \in [Chats -> BOOLEAN]
  /\ listener \in [Chats -> ListenerStates]
  /\ hand \in [Chats -> Requests \cup {NoRequest}]

BackTypes ==
  /\ back \in [Requests -> Backs \cup {0}]
  /\ opened \in [Requests -> Backs \cup {0}]
  /\ items \in [Requests -> [Backs -> Seq(Item)]]

StreamTypes ==
  /\ stream \in [Requests -> StreamStates]
  /\ heard \in [Requests -> Seq(Item)]
  /\ acc \in [Requests -> Accumulator]
  /\ saved \in [Requests -> Seq(Nat)]

RunTypes ==
  /\ run \in [Requests -> RunStates]
  /\ order \in Seq(Requests)
  /\ count \in [Requests -> 0..MaxPieces]
  /\ called \in [Requests -> 0..MaxPieces]
  /\ sink \in [Requests -> Backs \cup {0}]
  /\ holder \in Requests \cup {NoRequest}

SenderTypes ==
  /\ pending \in [Requests \cup Notices ->
       [to : Requests, queue : Backs, item : Item] \cup {Nothing}]
  /\ notice \in [Notices -> {"none", "saved", "sending", "failed"}]
  /\ todo \in [Notices -> SUBSET Requests]
  /\ told \in [Notices -> [to : Requests, queue : Backs] \cup {Nothing}]
  /\ outside \in 0..MaxOutside
  /\ cast \in Cast

(* A chat queue is made only when there is none, and it is taken out of    *)
(* the table only by a removal.                                            *)
ChatsCounted ==
  /\ current \in {0, made}
  /\ made <= outside + 1
  /\ current = 0 => made <= outside

(* What is not made yet is untouched, and a listener in the table that is  *)
(* still at work is the one of the current queue.                          *)
ListenersKnown ==
  /\ \A c \in Chats : c > made => listener[c] = "none" /\ ~closed[c]
  /\ entry # 0 /\ Listening(entry) => entry = current

(* The same of back queues, which the end of the stream removes as well.   *)
BackCounted(r) ==
  /\ back[r] \in {0, opened[r]}
  /\ opened[r] <= outside + 2
  /\ ~Ended(r) \/ back[r] = 0 => opened[r] <= outside + 1
  /\ ~Ended(r) /\ back[r] = 0 => opened[r] <= outside

BacksCounted == \A r \in Requests : BackCounted(r)

(* A task that streams has its back queue.                                 *)
SinkKnown == \A r \in Requests : run[r] = "streaming" => sink[r] # 0

Counted == ChatsCounted /\ ListenersKnown /\ BacksCounted /\ SinkKnown

IInv == TypeOK /\ Counted /\ QueueHasListener

LEMMA TypeParts ==
  TypeOK <=> ChatTypes /\ BackTypes /\ StreamTypes /\ RunTypes /\ SenderTypes
BY DEF TypeOK, ChatTypes, BackTypes, StreamTypes, RunTypes, SenderTypes

LEMMA InitInv == Init => IInv
<1> SUFFICES ASSUME Init PROVE IInv
  OBVIOUS
<1> USE QueuesAssumption, ChatAssumption DEF Init, QueuesInit, Chats, Backs
<1>1. ChatTypes /\ BackTypes
  BY DEF ChatTypes, BackTypes, ListenerStates
<1>2. StreamTypes /\ RunTypes
  BY DEF StreamTypes, RunTypes, StreamStates, RunStates, Accumulator, Blank
<1>3. SenderTypes
  BY DEF SenderTypes
<1>4. ChatsCounted /\ ListenersKnown
  BY DEF ChatsCounted, ListenersKnown, Listening
<1>5. BacksCounted
  BY DEF BacksCounted, BackCounted, Ended
<1>6. QueueHasListener
  BY DEF QueueHasListener, Listening
<1>7. SinkKnown
  BY DEF SinkKnown
<1> QED
  BY <1>1, <1>2, <1>3, <1>4, <1>5, <1>6, <1>7, TypeParts DEF IInv, Counted

-----------------------------------------------------------------------------
(* The chat queues.                                                        *)

ChatInv == ChatTypes /\ ChatsCounted /\ ListenersKnown /\ QueueHasListener

LEMMA PutChatInv ==
  ASSUME ChatInv, outside \in 0..MaxOutside, NEW r \in Requests, PutChat(r),
         outside' = outside
  PROVE  ChatInv'
<1> USE QueuesAssumption DEF ChatInv, Chats
<1>1. CASE current # 0 /\ UNCHANGED <<current, made, closed, listener, hand, entry>>
            /\ inbox' = [inbox EXCEPT ![current] = Append(@, r)]
  BY <1>1 DEF ChatTypes, ChatsCounted, ListenersKnown, QueueHasListener, Listening
<1>2. CASE current = 0
  <2> DEFINE c == made + 1
  <2>1. c \in Chats /\ c > made
    BY <1>2 DEF ChatTypes, ChatsCounted
  <2>2. entry = 0 \/ ~Listening(entry)
    BY <1>2 DEF ListenersKnown
  <2>3. /\ current' = c /\ made' = c /\ entry' = c
        /\ inbox' = [inbox EXCEPT ![c] = <<r>>]
        /\ listener' = [listener EXCEPT ![c] = "waiting"]
        /\ closed' = closed /\ hand' = hand
    BY <1>2, <2>2 DEF PutChat, NeedsListener
  <2>4. ChatTypes'
    BY <2>1, <2>3 DEF ChatTypes, ListenerStates
  <2>5. ChatsCounted'
    BY <1>2, <2>1, <2>3 DEF ChatTypes, ChatsCounted
  <2>6. ListenersKnown'
    BY <2>1, <2>3 DEF ChatTypes, ListenersKnown, Listening
  <2>7. QueueHasListener'
    BY <1>2, <2>1, <2>3 DEF ChatTypes, ListenersKnown, QueueHasListener, Listening
  <2> QED
    BY <2>4, <2>5, <2>6, <2>7
<1> QED
  BY <1>1, <1>2 DEF PutChat

LEMMA ListenerInv ==
  ASSUME ChatInv, NEW c \in Chats,
         Fetch(c) \/ Called(c) \/ SeeClosed(c) \/ Depart(c),
         outside' = outside
  PROVE  ChatInv'
<1> USE DEF ChatInv
<1>1. CASE Fetch(c)
  BY <1>1 DEF Fetch, ChatTypes, ListenerStates, ChatsCounted, ListenersKnown,
              QueueHasListener, Listening
<1>2. CASE Called(c)
  BY <1>2 DEF Called, ChatTypes, ListenerStates, ChatsCounted, ListenersKnown,
              QueueHasListener, Listening
<1>3. CASE SeeClosed(c)
  BY <1>3 DEF SeeClosed, ChatTypes, ListenerStates, ChatsCounted, ListenersKnown,
              QueueHasListener, Listening
<1>4. CASE Depart(c)
  BY <1>4 DEF Depart, ChatTypes, ListenerStates, ChatsCounted, ListenersKnown,
              QueueHasListener, Listening
<1> QED
  BY <1>1, <1>2, <1>3, <1>4

LEMMA RemoveChatInv ==
  ASSUME ChatInv, outside \in 0..MaxOutside, RemoveChat, outside' = outside + 1
  PROVE  ChatInv'
<1> USE QueuesAssumption DEF ChatInv, Chats
<1>1. ChatTypes'
  BY DEF RemoveChat, ChatTypes, ListenerStates
<1>2. ChatsCounted'
  BY DEF RemoveChat, ChatTypes, ChatsCounted
<1>3. ListenersKnown'
  BY DEF RemoveChat, ChatTypes, ChatsCounted, ListenersKnown, Listening
<1>4. QueueHasListener'
  BY DEF RemoveChat, ChatTypes, QueueHasListener, Listening
<1> QED
  BY <1>1, <1>2, <1>3, <1>4

LEMMA OthersChatInv ==
  ASSUME ChatInv, outside \in 0..MaxOutside, UNCHANGED chatVars,
         outside' \in {outside, outside + 1}
  PROVE  ChatInv'
<1>1. UNCHANGED <<current, made, inbox, closed, listener, hand, entry>>
  BY DEF chatVars
<1>2. ChatTypes'
  BY <1>1 DEF ChatInv, ChatTypes
<1>3. ChatsCounted'
  <2>1. made \in Nat /\ outside \in Nat
    BY QueuesAssumption DEF ChatInv, ChatTypes, Chats
  <2>2. /\ current \in {0, made} /\ made <= outside + 1
        /\ current = 0 => made <= outside
    BY DEF ChatInv, ChatsCounted
  <2>3. CASE outside' = outside
    BY <1>1, <2>2, <2>3 DEF ChatsCounted
  <2>4. CASE outside' = outside + 1
    BY <1>1, <2>1, <2>2, <2>4 DEF ChatsCounted
  <2> QED
    BY <2>3, <2>4
<1>4. ListenersKnown'
  BY <1>1 DEF ChatInv, ListenersKnown, Listening
<1>5. QueueHasListener'
  BY <1>1 DEF ChatInv, QueueHasListener, Listening
<1> QED
  BY <1>2, <1>3, <1>4, <1>5 DEF ChatInv

-----------------------------------------------------------------------------
(* The back queues.                                                        *)

BackInv == BackTypes /\ BacksCounted

LEMMA BackOfType ==
  ASSUME BackInv, outside \in 0..MaxOutside, NEW r \in Requests
  PROVE  BackOf(r) \in Backs /\ BackOf(r) # 0
<1> USE QueuesAssumption DEF BackInv, Backs
<1>1. /\ opened[r] \in Backs \cup {0} /\ back[r] \in Backs \cup {0}
      /\ back[r] = 0 => opened[r] + 1 \in Backs
  BY DEF BackTypes, BacksCounted, BackCounted
<1> QED
  BY <1>1 DEF BackOf

(* A back queue is opened, and items are put in any of them.               *)
LEMMA OpenBackInv ==
  ASSUME BackInv, outside \in 0..MaxOutside, NEW r \in Requests, OpenBack(r),
         items' \in [Requests -> [Backs -> Seq(Item)]],
         outside' = outside, \A q \in Requests : Ended(q)' <=> Ended(q)
  PROVE  BackInv'
<1> USE QueuesAssumption DEF BackInv, Backs
<1>1. /\ opened[r] \in Backs \cup {0} /\ back[r] \in Backs \cup {0}
      /\ back[r] = 0 => opened[r] + 1 \in Backs
  BY DEF BackTypes, BacksCounted, BackCounted
<1>2. BackOf(r) \in Backs
  BY BackOfType
<1>3. /\ back' = [back EXCEPT ![r] = BackOf(r)]
      /\ opened' = [opened EXCEPT ![r] = IF back[r] = 0 THEN @ + 1 ELSE @]
  BY DEF OpenBack
<1>4. BackTypes'
  BY <1>1, <1>2, <1>3 DEF BackTypes
<1>5. ASSUME NEW q \in Requests
      PROVE  BackCounted(q)'
  <2>1. CASE q = r
    BY <1>1, <1>3, <2>1 DEF BackTypes, BacksCounted, BackCounted, BackOf
  <2>2. CASE q # r
    BY <1>3, <2>2 DEF BackTypes, BacksCounted, BackCounted
  <2> QED
    BY <2>1, <2>2
<1> QED
  BY <1>4, <1>5 DEF BacksCounted

(* The table is left alone, or a stream ends.                              *)
LEMMA SameBackInv ==
  ASSUME BackInv, outside \in 0..MaxOutside, UNCHANGED <<back, opened>>,
         items' \in [Requests -> [Backs -> Seq(Item)]],
         outside' \in {outside, outside + 1},
         \A q \in Requests : Ended(q) => Ended(q)'
  PROVE  BackInv'
<1> USE QueuesAssumption DEF BackInv, Backs
<1>1. BackTypes'
  BY DEF BackTypes
<1>2. BacksCounted'
  BY DEF BackTypes, BacksCounted, BackCounted
<1> QED
  BY <1>1, <1>2

LEMMA RemoveBackInv ==
  ASSUME BackInv, outside \in 0..MaxOutside, NEW r \in Requests, RemoveBack(r),
         outside' = outside, ~Ended(r), Ended(r)',
         \A q \in Requests : q # r => (Ended(q)' <=> Ended(q))
  PROVE  BackInv'
<1> USE QueuesAssumption DEF BackInv, Backs, RemoveBack
<1>1. BackTypes'
  BY DEF BackTypes
<1>2. ASSUME NEW q \in Requests
      PROVE  BackCounted(q)'
  <2>1. CASE q = r
    BY <2>1 DEF BackTypes, BacksCounted, BackCounted
  <2>2. CASE q # r
    BY <2>2 DEF BackTypes, BacksCounted, BackCounted
  <2> QED
    BY <2>1, <2>2
<1> QED
  BY <1>1, <1>2 DEF BacksCounted

LEMMA RemoveQueuesBackInv ==
  ASSUME BackInv, outside \in 0..MaxOutside,
         back' = [r \in Requests |-> 0], UNCHANGED <<opened, items, stream>>,
         outside' = outside + 1
  PROVE  BackInv'
BY QueuesAssumption DEF BackInv, Backs, BackTypes, BacksCounted, BackCounted, Ended

-----------------------------------------------------------------------------
(* The rest of the state.                                                  *)

LEMMA PutTypes ==
  ASSUME items \in [Requests -> [Backs -> Seq(Item)]], SenderTypes,
         NEW s \in Requests \cup Notices, NEW r \in Requests, NEW b \in Backs,
         NEW item \in Item, Put(s, r, b, item)
  PROVE  /\ items' \in [Requests -> [Backs -> Seq(Item)]]
         /\ pending' \in [Requests \cup Notices ->
              [to : Requests, queue : Backs, item : Item] \cup {Nothing}]
<1>1. CASE Room(r, b)
  <2>1. Append(items[r][b], item) \in Seq(Item)
    OBVIOUS
  <2>2. [items[r] EXCEPT ![b] = Append(@, item)] \in [Backs -> Seq(Item)]
    BY <2>1
  <2>3. items' = [items EXCEPT ![r] = [items[r] EXCEPT ![b] = Append(@, item)]]
    BY <1>1 DEF Put
  <2>4. items' \in [Requests -> [Backs -> Seq(Item)]]
    BY <2>2, <2>3
  <2> QED
    BY <1>1, <2>4 DEF Put, SenderTypes
<1>2. CASE ~Room(r, b)
  <2>1. [to |-> r, queue |-> b, item |-> item]
          \in [to : Requests, queue : Backs, item : Item] \cup {Nothing}
    OBVIOUS
  <2>2. /\ pending' = [pending EXCEPT ![s] = [to |-> r, queue |-> b, item |-> item]]
        /\ items' = items
    BY <1>2 DEF Put
  <2> QED
    BY <2>1, <2>2 DEF SenderTypes
<1> QED
  BY <1>1, <1>2

RunInv == RunTypes /\ SinkKnown

Types == ChatInv /\ BackInv /\ StreamTypes /\ RunInv /\ SenderTypes

LEMMA IInvParts == IInv <=> Types
BY TypeParts DEF IInv, Types, Counted, ChatInv, BackInv, RunInv

(* What an event's task and the sender of a message send.                  *)
LEMMA ItemTypes ==
  ASSUME NEW kind \in Kinds
  PROVE  /\ \A id \in 0..MaxPieces : [kind |-> kind, id |-> id] \in Item
         /\ Plain(kind) \in Item
BY ChatAssumption DEF Item, Plain

(* Taking a place out of a sequence leaves a sequence of the rest.         *)
LEMMA WithoutOneType ==
  ASSUME NEW S, NEW s \in Seq(S), NEW at \in SUBSET DOMAIN s
  PROVE  WithoutOne(s, at) \in Seq(S)
<1>1. CASE at = {}
  BY <1>1 DEF WithoutOne
<1>2. CASE at # {}
  <2> DEFINE i == CHOOSE i \in at : TRUE
  <2>1. i \in 1..Len(s) /\ Len(s) \in Nat
    BY <1>2
  <2>2. SubSeq(s, 1, i - 1) \in Seq(S) /\ SubSeq(s, i + 1, Len(s)) \in Seq(S)
    <3> HIDE DEF i
    <3>1. \A j \in 1..Len(s) : s[j] \in S
      OBVIOUS
    <3>2. SubSeq(s, 1, i - 1) \in Seq(S)
      BY <2>1, <3>1, SubSeqProperties
    <3>3. SubSeq(s, i + 1, Len(s)) \in Seq(S)
      BY <2>1, <3>1, SubSeqProperties
    <3> QED
      BY <3>2, <3>3
  <2>3. SubSeq(s, 1, i - 1) \o SubSeq(s, i + 1, Len(s)) \in Seq(S)
    BY <2>2
  <2> QED
    BY <1>2, <2>3 DEF WithoutOne, RemoveAt
<1> QED
  BY <1>1, <1>2

LEMMA FlushedType ==
  ASSUME NEW a \in Accumulator
  PROVE  /\ Flushed(a) \in Accumulator
         /\ Flushed(a).parts = a.parts \o a.text
         /\ Flushed(a).text = <<>> /\ Flushed(a).calls = a.calls
<1>1. /\ a = [parts |-> a.parts, text |-> a.text, calls |-> a.calls]
      /\ a.parts \in Seq(Nat) /\ a.text \in Seq(Nat) /\ a.calls \in Seq(Nat)
  BY DEF Accumulator
<1>2. /\ a.parts \o a.text \in Seq(Nat)
      /\ <<>> \in Seq(Nat)
  BY <1>1
<1>3. Flushed(a) = [parts |-> a.parts \o a.text, text |-> <<>>, calls |-> a.calls]
  BY <1>1 DEF Flushed
<1> QED
  BY <1>1, <1>2, <1>3 DEF Accumulator

LEMMA BuiltType ==
  ASSUME NEW a \in Accumulator
  PROVE  Built(a) \in Seq(Nat)
<1>1. Flushed(a).parts \in Seq(Nat) /\ a.calls \in Seq(Nat)
  BY FlushedType DEF Accumulator
<1> QED
  BY <1>1 DEF Built

LEMMA AddedType ==
  ASSUME NEW a \in Accumulator, NEW taken, NEW item \in Item, NEW n \in Nat
  PROVE  Added(a, taken, item, n) \in Accumulator
<1>1. Popped(a.calls, taken, item.id) \in Seq(Nat)
  BY WithoutOneType DEF Popped, Accumulator
<1>2. /\ Append(a.text, n) \in Seq(Nat) /\ <<n>> \in Seq(Nat)
      /\ Append(a.parts \o a.text, n) \in Seq(Nat) /\ Append(a.calls, n) \in Seq(Nat)
  BY DEF Accumulator
<1>3. [Flushed(a) EXCEPT !.parts = Append(@, n)] \in Accumulator
  BY <1>2, FlushedType DEF Accumulator
<1>4. [Flushed(a) EXCEPT !.calls = Append(@, n)] \in Accumulator
  BY <1>2, FlushedType DEF Accumulator
<1>5. [Flushed(a) EXCEPT !.parts = Append(@, n),
                         !.calls = Popped(@, taken, item.id)] \in Accumulator
  BY <1>1, <1>2, FlushedType DEF Accumulator
<1>6. /\ [a EXCEPT !.text = Append(@, n)] \in Accumulator
      /\ [a EXCEPT !.text = <<n>>] \in Accumulator
  BY <1>2 DEF Accumulator
<1> QED
  BY <1>3, <1>4, <1>5, <1>6 DEF Added

LEMMA StreamInv ==
  ASSUME Types, NEW r \in Requests,
         \/ Post(r) \/ UserNotSaved(r) \/ Cut(r) \/ Receive(r) \/ Store(r) \/ Finish(r)
  PROVE  Types'
<1>0. /\ items \in [Requests -> [Backs -> Seq(Item)]] /\ outside \in 0..MaxOutside
  BY DEF Types, BackInv, BackTypes, SenderTypes
<1>1. CASE Post(r)
  <2>1. ChatInv'
    BY <1>0, <1>1, PutChatInv DEF Types, Post, bounds
  <2>2. BackInv'
    <3>1. \A q \in Requests : Ended(q)' <=> Ended(q)
      BY <1>1 DEF Post, Ended, Types, StreamTypes
    <3> QED
      BY <1>0, <1>1, <3>1, OpenBackInv DEF Types, Post, bounds
  <2>3. StreamTypes' /\ RunInv' /\ SenderTypes'
    BY <1>1 DEF Types, Post, StreamTypes, StreamStates, RunInv, RunTypes, SinkKnown, RunStates,
                SenderTypes, noticeVars, bounds
  <2> QED
    BY <2>1, <2>2, <2>3 DEF Types
<1>2. CASE UserNotSaved(r)
  <2>1. ChatInv'
    BY <1>0, <1>2, OthersChatInv DEF Types, UserNotSaved, bounds
  <2>2. /\ ~Ended(r) /\ Ended(r)'
        /\ \A q \in Requests : q # r => (Ended(q)' <=> Ended(q))
    BY <1>2 DEF UserNotSaved, Ended, Types, StreamTypes
  <2>3. BackInv'
    <3>1. CASE r \in Sockets
      BY <1>0, <1>2, <2>2, <3>1, RemoveBackInv DEF Types, UserNotSaved, bounds
    <3>2. CASE r \notin Sockets
      BY <1>0, <1>2, <2>2, <3>2, SameBackInv DEF Types, UserNotSaved, backVars, bounds
    <3> QED
      BY <3>1, <3>2
  <2>4. StreamTypes' /\ RunInv' /\ SenderTypes'
    BY <1>2 DEF Types, UserNotSaved, StreamTypes, StreamStates, RunInv, RunTypes, SinkKnown,
                runVars, SenderTypes, noticeVars, bounds
  <2> QED
    BY <2>1, <2>3, <2>4 DEF Types
<1>3. CASE Cut(r)
  <2>1. ChatInv'
    BY <1>0, <1>3, OthersChatInv DEF Types, Cut, bounds
  <2>2. \A q \in Requests : Ended(q) => Ended(q)'
    BY <1>3 DEF Cut, Reading, Ended, Types, StreamTypes
  <2>3. BackInv'
    BY <1>0, <1>3, <2>2, SameBackInv DEF Types, Cut, backVars, bounds
  <2>4. saved' \in [Requests -> Seq(Nat)]
    <3>1. saved[r] \o Built(acc[r]) \in Seq(Nat) /\ saved \in [Requests -> Seq(Nat)]
      BY BuiltType DEF Types, StreamTypes
    <3>2. saved' = saved \/ saved' = [saved EXCEPT ![r] = @ \o Built(acc[r])]
      BY <1>3 DEF Cut
    <3> QED
      BY <3>1, <3>2
  <2>5. StreamTypes' /\ RunInv' /\ SenderTypes'
    BY <1>3, <2>4 DEF Types, Cut, StreamTypes, StreamStates, RunInv, RunTypes, SinkKnown,
                runVars, SenderTypes, noticeVars, bounds
  <2> QED
    BY <2>1, <2>3, <2>5 DEF Types
<1>4. CASE Receive(r)
  <2> DEFINE item == Head(items[r][1])
             a    == Added(acc[r], heard[r], item, Len(heard[r]) + 1)
  <2>1. ChatInv'
    BY <1>0, <1>4, OthersChatInv DEF Types, Receive, bounds
  <2>2. 1 \in Backs /\ items[r][1] \in Seq(Item)
    BY <1>0, QueuesAssumption DEF Backs
  <2>3. item \in Item /\ Tail(items[r][1]) \in Seq(Item)
    BY <1>4, <2>2 DEF Receive
  <2>4. items' \in [Requests -> [Backs -> Seq(Item)]]
    <3>1. items' = [items EXCEPT ![r] = [items[r] EXCEPT ![1] = Tail(@)]]
      BY <1>4 DEF Receive
    <3> QED
      BY <1>0, <2>2, <2>3, <3>1
  <2>5. \A q \in Requests : Ended(q) => Ended(q)'
    BY <1>4 DEF Receive, Ended, Types, StreamTypes
  <2>6. BackInv'
    BY <1>0, <1>4, <2>4, <2>5, SameBackInv DEF Types, Receive, bounds
  <2>7. /\ heard' = [heard EXCEPT ![r] = Append(@, item)]
        /\ acc' = [acc EXCEPT ![r] = a]
        /\ saved' = saved
    BY <1>4 DEF Receive
  <2>8. stream' \in [Requests -> StreamStates]
    BY <1>4 DEF Receive, Types, StreamTypes, StreamStates
  <2>9. a \in Accumulator /\ Append(heard[r], item) \in Seq(Item)
    <3>1. acc[r] \in Accumulator /\ heard[r] \in Seq(Item)
      BY DEF Types, StreamTypes
    <3>2. Len(heard[r]) + 1 \in Nat
      BY <3>1
    <3> QED
      BY <2>3, <3>1, <3>2, AddedType
  <2>10. StreamTypes'
    BY <2>7, <2>8, <2>9 DEF Types, StreamTypes
  <2>11. RunInv' /\ SenderTypes'
    BY <1>4 DEF Types, Receive, RunInv, RunTypes, SinkKnown, runVars, SenderTypes, noticeVars,
                bounds
  <2> QED
    BY <2>1, <2>6, <2>10, <2>11 DEF Types
<1>5. CASE Store(r)
  <2>1. ChatInv'
    BY <1>0, <1>5, OthersChatInv DEF Types, Store, bounds
  <2>2. \A q \in Requests : Ended(q) => Ended(q)'
    BY <1>5 DEF Store, Ended, Types, StreamTypes
  <2>3. BackInv'
    BY <1>0, <1>5, <2>2, SameBackInv DEF Types, Store, backVars, bounds
  <2>4. saved[r] \o Built(acc[r]) \in Seq(Nat) /\ Blank \in Accumulator
    BY BuiltType DEF Types, StreamTypes, Blank, Accumulator
  <2>5. StreamTypes'
    BY <1>5, <2>4 DEF Types, Store, AfterStore, StreamTypes, StreamStates
  <2>6. RunInv' /\ SenderTypes'
    BY <1>5 DEF Types, Store, RunInv, RunTypes, SinkKnown, runVars, SenderTypes, noticeVars,
                bounds
  <2> QED
    BY <2>1, <2>3, <2>5, <2>6 DEF Types
<1>6. CASE Finish(r)
  <2>1. ChatInv'
    BY <1>0, <1>6, OthersChatInv DEF Types, Finish, bounds
  <2>2. /\ ~Ended(r) /\ Ended(r)'
        /\ \A q \in Requests : q # r => (Ended(q)' <=> Ended(q))
    BY <1>6 DEF Finish, Ended, Types, StreamTypes
  <2>3. BackInv'
    BY <1>0, <1>6, <2>2, RemoveBackInv DEF Types, Finish, bounds
  <2>4. StreamTypes'
    <3>1. Blank \in Accumulator /\ <<>> \in Seq(Item) /\ <<>> \in Seq(Nat)
      BY DEF Blank, Accumulator
    <3> QED
      BY <1>6, <3>1 DEF Types, Finish, StreamTypes, StreamStates
  <2>5. RunInv' /\ SenderTypes'
    BY <1>6 DEF Types, Finish, RunInv, RunTypes, SinkKnown, runVars, SenderTypes,
                noticeVars, bounds
  <2> QED
    BY <2>1, <2>3, <2>4, <2>5 DEF Types
<1> QED
  BY <1>1, <1>2, <1>3, <1>4, <1>5, <1>6

LEMMA ListenerStepInv ==
  ASSUME Types, NEW c \in Chats, ListenerStep(c) \/ Deliver(c)
  PROVE  Types'
<1>1. Fetch(c) \/ Called(c) \/ SeeClosed(c) \/ Depart(c)
  BY DEF ListenerStep, Deliver
<1>2. /\ UNCHANGED <<backVars, streamVars, pending, noticeVars, outside, cast>>
      /\ UNCHANGED <<order, count, called, sink, holder>>
  BY DEF ListenerStep, Deliver, runVars, bounds
<1>3. run' = run \/ \E outcome \in {"dispatched", "lost"} :
                     run' = [run EXCEPT ![hand[c]] = outcome]
  BY DEF ListenerStep, Deliver, runVars
<1>4. ChatInv'
  BY <1>1, <1>2, ListenerInv DEF Types
<1>5. BackInv'
  BY <1>2 DEF Types, BackInv, BackTypes, BacksCounted, BackCounted, Ended,
              backVars, streamVars
<1>6. StreamTypes' /\ SenderTypes'
  BY <1>2 DEF Types, StreamTypes, SenderTypes, streamVars, noticeVars
<1>7. RunInv'
  BY <1>2, <1>3 DEF Types, RunInv, RunTypes, RunStates, SinkKnown
<1> QED
  BY <1>4, <1>5, <1>6, <1>7 DEF Types

(* A step of a task that sends nothing and opens no queue.                 *)
LEMMA QuietInv ==
  ASSUME Types, UNCHANGED <<chatVars, backVars, streamVars, pending, noticeVars, bounds>>,
         RunInv'
  PROVE  Types'
<1>1. ChatInv'
  BY OthersChatInv DEF Types, SenderTypes, bounds
<1>2. BackInv'
  BY DEF Types, BackInv, BackTypes, BacksCounted, BackCounted, Ended,
         backVars, streamVars, bounds
<1>3. StreamTypes' /\ SenderTypes'
  BY DEF Types, StreamTypes, SenderTypes, streamVars, noticeVars, bounds
<1> QED
  BY <1>1, <1>2, <1>3 DEF Types

LEMMA LeaveType ==
  ASSUME RunInv, NEW r \in Requests, Leave(r)
  PROVE  order' \in Seq(Requests)
<1>1. order \in Seq(Requests)
  BY DEF RunInv, RunTypes
<1> QED
  BY <1>1, WithoutOneType DEF Leave

LEMMA RunStepInv ==
  ASSUME Types, NEW r \in Requests,
         \/ Capture(r) \/ Merge(r) \/ ReturnTickets(r) \/ TakeTurn(r) \/ PassOver(r)
         \/ Release(r) \/ Fail(r)
  PROVE  Types'
<1>1. RunInv
  BY DEF Types
<1>2. CASE Capture(r)
  <2>1. RunInv'
    BY <1>1, <1>2 DEF Capture, Goto, RunInv, RunTypes, RunStates, SinkKnown
  <2> QED
    BY <1>2, <2>1, QuietInv DEF Capture
<1>3. CASE Merge(r) \/ PassOver(r)
  <2>1. RunInv'
    BY <1>1, <1>3, LeaveType DEF Merge, PassOver, Goto, RunInv, RunTypes, RunStates, SinkKnown
  <2> QED
    BY <1>3, <2>1, QuietInv DEF Merge, PassOver
<1>4. CASE TakeTurn(r)
  <2>1. RunInv'
    BY <1>1, <1>4 DEF TakeTurn, Goto, RunInv, RunTypes, RunStates, SinkKnown
  <2> QED
    BY <1>4, <2>1, QuietInv DEF TakeTurn
<1>5. CASE Release(r) \/ Fail(r)
  <2>1. PICK label \in {"ending", "lost"}, outcome \in {"turn", "left"} :
          run' = [q \in Requests |-> IF q = r THEN label
                                     ELSE IF run[q] = "captured" THEN outcome
                                     ELSE run[q]]
    BY <1>5 DEF Release, Fail, Over
  <2>2. /\ order' \in Seq(Requests) /\ UNCHANGED <<count, called>> /\ holder' = NoRequest
        /\ sink' = sink \/ sink' = [sink EXCEPT ![r] = 0]
    BY <1>1, <1>5, LeaveType DEF Release, Fail, Over
  <2>3. RunInv'
    BY <1>1, <2>1, <2>2 DEF RunInv, RunTypes, RunStates, SinkKnown
  <2> QED
    BY <1>5, <2>3, QuietInv DEF Release, Fail
<1>6. CASE ReturnTickets(r)
  <2>1. RunInv'
    BY <1>1, <1>6 DEF ReturnTickets, RunInv, RunTypes, RunStates, SinkKnown
  <2> QED
    BY <1>6, <2>1, QuietInv DEF ReturnTickets
<1> QED
  BY <1>2, <1>3, <1>4, <1>5, <1>6

LEMMA BeginInv ==
  ASSUME Types, NEW r \in Requests, Begin(r)
  PROVE  Types'
<1>0. /\ items \in [Requests -> [Backs -> Seq(Item)]] /\ outside \in 0..MaxOutside
      /\ UNCHANGED <<chatVars, items, streamVars, order, count, called, pending, noticeVars,
                     outside, cast>>
  BY DEF Types, BackInv, BackTypes, SenderTypes, Begin, bounds
<1>1. ChatInv'
  BY <1>0, OthersChatInv DEF Types
<1>2. StreamTypes' /\ SenderTypes'
  BY <1>0 DEF Types, StreamTypes, SenderTypes, streamVars, noticeVars
<1>3. \A q \in Requests : Ended(q)' <=> Ended(q)
  BY <1>0 DEF Ended, streamVars
<1>4. CASE r \in Streamed
  <2>1. OpenBack(r) /\ items' = items /\ outside' = outside
    BY <1>0, <1>4 DEF Begin
  <2>2. BackInv'
    BY <1>0, <1>3, <2>1, OpenBackInv DEF Types
  <2>3. BackOf(r) \in Backs /\ BackOf(r) # 0
    BY <1>0, BackOfType DEF Types
  <2>4. /\ run' = [run EXCEPT ![r] = "streaming"]
        /\ sink' = [sink EXCEPT ![r] = BackOf(r)]
        /\ holder' = r
    BY <1>0, <1>4 DEF Begin, Goto
  <2>5. RunInv'
    BY <1>0, <2>3, <2>4 DEF Types, RunInv, RunTypes, RunStates, SinkKnown
  <2> QED
    BY <1>1, <1>2, <2>2, <2>5 DEF Types
<1>5. CASE r \notin Streamed
  <2>1. BackInv'
    BY <1>0, <1>3, <1>5, SameBackInv DEF Begin, Types
  <2>2. RunInv'
    BY <1>0, <1>5 DEF Begin, Goto, Types, RunInv, RunTypes, RunStates, SinkKnown
  <2> QED
    BY <1>1, <1>2, <2>1, <2>2 DEF Types
<1> QED
  BY <1>4, <1>5

(* Whatever is sent on a back queue that may be opened for it.             *)
LEMMA SendToInv ==
  ASSUME Types, NEW s \in Requests \cup Notices, NEW r \in Requests,
         NEW item \in Item, SendTo(s, r, item),
         UNCHANGED <<chatVars, streamVars, bounds, notice>>, RunInv',
         todo' \in [Notices -> SUBSET Requests],
         told' \in [Notices -> [to : Requests, queue : Backs] \cup {Nothing}]
  PROVE  Types'
<1>1. /\ items \in [Requests -> [Backs -> Seq(Item)]] /\ outside \in 0..MaxOutside
      /\ StreamTypes /\ SenderTypes /\ BackInv /\ outside' = outside /\ cast' = cast
  BY DEF Types, BackInv, BackTypes, SenderTypes, bounds
<1>2. ChatInv'
  BY <1>1, OthersChatInv DEF Types
<1>3. BackOf(r) \in Backs
  BY <1>1, BackOfType
<1>4. /\ items' \in [Requests -> [Backs -> Seq(Item)]]
      /\ pending' \in [Requests \cup Notices ->
           [to : Requests, queue : Backs, item : Item] \cup {Nothing}]
  BY <1>1, <1>3, PutTypes DEF SendTo
<1>5. \A q \in Requests : Ended(q)' <=> Ended(q)
  BY DEF Ended, streamVars
<1>6. BackInv'
  BY <1>1, <1>4, <1>5, OpenBackInv DEF SendTo
<1>7. StreamTypes' /\ SenderTypes'
  BY <1>1, <1>4 DEF StreamTypes, SenderTypes, streamVars
<1> QED
  BY <1>2, <1>6, <1>7 DEF Types

LEMMA SendInv ==
  ASSUME Types, NEW r \in Requests, Say(r) \/ End(r)
  PROVE  Types'
<1>1. CASE Say(r)
  <2> DEFINE id(kind) == IF kind = "call" THEN count[r] + 1
                         ELSE IF kind = "result" THEN called[r] ELSE 0
  <2>1. PICK kind \in Sayable(r) \cap cast.kinds :
          /\ SendTo(r, r, [kind |-> kind, id |-> id(kind)])
          /\ called' = [called EXCEPT ![r] = IF kind = "call" THEN id(kind)
                                             ELSE IF kind = "result" THEN 0 ELSE @]
    BY <1>1 DEF Say
  <2>2. count[r] + 1 \in 0..MaxPieces /\ called[r] \in 0..MaxPieces /\ kind \in Kinds
    BY <1>1, <2>1, ChatAssumption DEF Say, Types, RunInv, RunTypes, SenderTypes, Cast
  <2>3. id(kind) \in 0..MaxPieces
    BY <2>2, ChatAssumption
  <2>4. [kind |-> kind, id |-> id(kind)] \in Item
    BY <2>2, <2>3, ItemTypes
  <2>5. called' \in [Requests -> 0..MaxPieces]
    BY <2>1, <2>3, ChatAssumption DEF Types, RunInv, RunTypes
  <2>6. RunInv'
    BY <1>1, <2>2, <2>5 DEF Say, Types, RunInv, RunTypes, SinkKnown
  <2>7. UNCHANGED <<chatVars, streamVars, bounds, notice, todo, told>>
    BY <1>1 DEF Say, noticeVars
  <2> QED
    BY <2>1, <2>4, <2>6, <2>7, SendToInv DEF Types, SenderTypes
<1>2. CASE End(r)
  <2>1. Plain("end") \in Item
    BY ItemTypes DEF Kinds
  <2>2. RunInv'
    BY <1>2 DEF End, Goto, Types, RunInv, RunTypes, RunStates, SinkKnown
  <2> QED
    BY <1>2, <2>1, <2>2, SendToInv DEF End, noticeVars, Types, SenderTypes
<1> QED
  BY <1>1, <1>2

LEMMA TellInv ==
  ASSUME Types, NEW p \in Notices, Tell(p)
  PROVE  Types'
<1>1. PICK r \in todo[p], kind \in {"delta", "part"} \cap cast.kinds :
        /\ SendTo(p, r, Plain(kind))
        /\ todo' = [todo EXCEPT ![p] = @ \ {r}]
        /\ told' = [told EXCEPT ![p] = [to |-> r, queue |-> BackOf(r)]]
  BY DEF Tell
<1>2. r \in Requests /\ todo' \in [Notices -> SUBSET Requests] /\ outside \in 0..MaxOutside
  BY <1>1 DEF Types, SenderTypes
<1>3. Plain(kind) \in Item
  BY ItemTypes DEF Kinds
<1>4. RunInv'
  BY DEF Tell, runVars, Types, RunInv, RunTypes, SinkKnown
<1>5. [to |-> r, queue |-> BackOf(r)] \in [to : Requests, queue : Backs] \cup {Nothing}
  BY <1>2, BackOfType DEF Types
<1>6. told' \in [Notices -> [to : Requests, queue : Backs] \cup {Nothing}]
  BY <1>1, <1>5 DEF Types, SenderTypes
<1> QED
  BY <1>1, <1>2, <1>3, <1>4, <1>6, SendToInv DEF Tell

(* A put into a queue that is open, or was.                                *)
LEMMA PutInv ==
  ASSUME Types, UNCHANGED <<chatVars, back, opened, streamVars, bounds>>,
         items' \in [Requests -> [Backs -> Seq(Item)]],
         SenderTypes', RunInv'
  PROVE  Types'
<1>1. outside \in 0..MaxOutside /\ outside' = outside
  BY DEF Types, SenderTypes, bounds
<1>2. ChatInv'
  BY <1>1, OthersChatInv DEF Types
<1>3. BackInv'
  BY <1>1, SameBackInv DEF Types, Ended, streamVars
<1>4. StreamTypes'
  BY DEF Types, StreamTypes, streamVars
<1> QED
  BY <1>2, <1>3, <1>4 DEF Types

LEMMA CompleteInv ==
  ASSUME Types, NEW r \in Requests, Complete(r)
  PROVE  Types'
<1>1. sink[r] \in Backs
  BY DEF Complete, Types, RunInv, RunTypes, SinkKnown
<1>2. Plain("complete") \in Item
  BY ItemTypes DEF Kinds
<1>3. /\ items' \in [Requests -> [Backs -> Seq(Item)]]
      /\ pending' \in [Requests \cup Notices ->
           [to : Requests, queue : Backs, item : Item] \cup {Nothing}]
  BY <1>1, <1>2, PutTypes DEF Complete, Types, BackInv, BackTypes
<1>4. RunInv'
  BY DEF Complete, Goto, Types, RunInv, RunTypes, RunStates, SinkKnown
<1>5. SenderTypes'
  BY <1>3 DEF Complete, noticeVars, bounds, Types, SenderTypes
<1> QED
  BY <1>3, <1>4, <1>5, PutInv DEF Complete

LEMMA TellCompleteInv ==
  ASSUME Types, NEW p \in Notices, TellComplete(p)
  PROVE  Types'
<1>1. told[p] \in [to : Requests, queue : Backs]
  BY DEF TellComplete, Types, SenderTypes
<1>2. Plain("complete") \in Item
  BY ItemTypes DEF Kinds
<1>3. /\ items' \in [Requests -> [Backs -> Seq(Item)]]
      /\ pending' \in [Requests \cup Notices ->
           [to : Requests, queue : Backs, item : Item] \cup {Nothing}]
  BY <1>1, <1>2, PutTypes DEF TellComplete, Types, BackInv, BackTypes
<1>4. RunInv'
  BY DEF TellComplete, runVars, Types, RunInv, RunTypes, SinkKnown
<1>5. SenderTypes'
  BY <1>3 DEF TellComplete, bounds, Types, SenderTypes
<1> QED
  BY <1>3, <1>4, <1>5, PutInv DEF TellComplete

LEMMA TellFailsInv ==
  ASSUME Types, NEW p \in Notices, TellFails(p)
  PROVE  Types'
<1>1. RunInv' /\ SenderTypes'
  BY DEF TellFails, runVars, bounds, Types, RunInv, RunTypes, SinkKnown, SenderTypes
<1>2. items' \in [Requests -> [Backs -> Seq(Item)]]
  BY DEF TellFails, backVars, Types, BackInv, BackTypes
<1> QED
  BY <1>1, <1>2, PutInv DEF TellFails, backVars

LEMMA ResumeInv ==
  ASSUME Types, NEW s \in Requests \cup Notices, Resume(s)
  PROVE  Types'
<1> DEFINE p == pending[s]
<1>1. p \in [to : Requests, queue : Backs, item : Item]
  BY DEF Resume, Free, Types, SenderTypes
<1>2. items \in [Requests -> [Backs -> Seq(Item)]]
  BY DEF Types, BackInv, BackTypes
<1>3. items' \in [Requests -> [Backs -> Seq(Item)]]
  <2>1. Append(items[p.to][p.queue], p.item) \in Seq(Item)
    BY <1>1, <1>2
  <2>2. [items[p.to] EXCEPT ![p.queue] = Append(@, p.item)] \in [Backs -> Seq(Item)]
    BY <1>1, <1>2, <2>1
  <2>3. items' = [items EXCEPT ![p.to] = [items[p.to] EXCEPT ![p.queue] = Append(@, p.item)]]
    BY DEF Resume
  <2> QED
    BY <1>1, <1>2, <2>2, <2>3
<1>4. SenderTypes'
  BY DEF Resume, noticeVars, bounds, Types, SenderTypes
<1>5. RunInv'
  BY DEF Resume, runVars, Types, RunInv, RunTypes, SinkKnown
<1> QED
  BY <1>3, <1>4, <1>5, PutInv DEF Resume

LEMMA NotifyInv ==
  ASSUME Types, NEW p \in Notices, Notify(p)
  PROVE  Types'
<1>1. outside \in 0..MaxOutside /\ outside' = outside + 1 /\ outside' \in 0..MaxOutside
  BY QueuesAssumption DEF Types, SenderTypes, Notify, Cast
<1>2. ChatInv'
  BY <1>1, OthersChatInv DEF Types, Notify
<1>3. BackInv'
  BY <1>1, SameBackInv
  DEF Types, BackInv, BackTypes, Notify, backVars, streamVars, Ended
<1>4. StreamTypes' /\ RunInv'
  BY DEF Types, StreamTypes, RunInv, RunTypes, SinkKnown, Notify, streamVars, runVars
<1>5. SenderTypes'
  BY <1>1 DEF Types, SenderTypes, Notify, ActiveRequests
<1> QED
  BY <1>2, <1>3, <1>4, <1>5 DEF Types

LEMMA DeleteInv ==
  ASSUME Types, Delete
  PROVE  Types'
<1>1. outside \in 0..MaxOutside /\ outside' = outside + 1 /\ outside' \in 0..MaxOutside
  BY QueuesAssumption DEF Types, SenderTypes, Delete, Cast
<1>2. ChatInv'
  BY <1>1, RemoveChatInv DEF Types, Delete, RemoveQueues
<1>3. BackInv'
  BY <1>1, RemoveQueuesBackInv DEF Types, Delete, RemoveQueues, streamVars
<1>4. StreamTypes'
  BY DEF Types, StreamTypes, Delete, streamVars
<1>5. RunInv'
  BY DEF Types, RunInv, RunTypes, RunStates, SinkKnown, Delete
<1>6. SenderTypes'
  BY <1>1 DEF Types, SenderTypes, Delete, noticeVars
<1> QED
  BY <1>2, <1>3, <1>4, <1>5, <1>6 DEF Types

LEMMA StutterInv ==
  ASSUME Types, UNCHANGED vars
  PROVE  Types'
<1>1. /\ UNCHANGED <<chatVars, backVars, streamVars, pending, noticeVars, bounds>>
      /\ UNCHANGED runVars
  BY DEF vars
<1>2. RunInv'
  BY <1>1 DEF runVars, Types, RunInv, RunTypes, SinkKnown
<1> QED
  BY <1>1, <1>2, QuietInv

LEMMA NextInv ==
  ASSUME Types, [Next]_vars
  PROVE  Types'
<1>1. ASSUME NEW r \in Requests,
             Post(r) \/ UserNotSaved(r) \/ Cut(r) \/ StreamStep(r)
      PROVE  Types'
  BY <1>1, StreamInv DEF StreamStep
<1>2. ASSUME NEW r \in Requests,
             \/ Capture(r) \/ Merge(r) \/ ReturnTickets(r) \/ PassOver(r)
             \/ Answer(r) \/ Say(r) \/ Fail(r)
      PROVE  Types'
  BY <1>2, RunStepInv, BeginInv, SendInv, CompleteInv DEF Answer
<1>3. ASSUME NEW c \in Chats, ListenerStep(c) \/ Deliver(c)
      PROVE  Types'
  BY <1>3, ListenerStepInv
<1>4. ASSUME NEW p \in Notices, Notify(p) \/ Tell(p) \/ TellComplete(p) \/ TellFails(p)
      PROVE  Types'
  BY <1>4, NotifyInv, TellInv, TellCompleteInv, TellFailsInv
<1>5. ASSUME NEW s \in Requests \cup Notices, Resume(s)
      PROVE  Types'
  BY <1>5, ResumeInv
<1> QED
  BY <1>1, <1>2, <1>3, <1>4, <1>5, DeleteInv, StutterInv DEF Next

THEOREM Invariance == Spec => []IInv
<1>1. Init => IInv
  BY InitInv
<1>2. IInv /\ [Next]_vars => IInv'
  <2>1. IInv /\ [Next]_vars => Types'
    BY NextInv, IInvParts
  <2>2. Types' => IInv'
    BY DEF IInv, Types, Counted, ChatInv, BackInv, RunInv, TypeOK, ChatTypes,
       BackTypes, StreamTypes, RunTypes, SenderTypes
  <2> QED
    BY <2>1, <2>2
<1> QED
  BY <1>1, <1>2, PTL DEF Spec

(* Every variable of WebChat keeps its type: in particular no chat queue   *)
(* and no back queue is made beyond the numbers the module has for them.   *)
THEOREM TypeCorrect == Spec => []TypeOK
BY Invariance, PTL DEF IInv

(* Whatever is posted, cut and deleted, and whenever the callback of an    *)
(* earlier listener empties the table of listeners, the chat queue that    *)
(* new messages go to has a listener that takes them, and no listener goes *)
(* on without being told to stop.                                          *)
THEOREM ListenerTheorem == Spec => []QueueHasListener
BY Invariance, PTL DEF IInv

-----------------------------------------------------------------------------
(* What a stream saves.                                                    *)

Increasing(s) == \A i, j \in DOMAIN s : i < j => s[i] < s[j]

LEMMA ToSetConcat ==
  ASSUME NEW s \in Seq(Nat), NEW t \in Seq(Nat)
  PROVE  ToSet(s \o t) = ToSet(s) \cup ToSet(t)
<1>1. \A x \in ToSet(s \o t) : x \in ToSet(s) \cup ToSet(t)
  BY ConcatProperties DEF ToSet
<1>2. \A x \in ToSet(s) : x \in ToSet(s \o t)
  BY ConcatProperties DEF ToSet
<1>3. ASSUME NEW j \in DOMAIN t
      PROVE  t[j] \in ToSet(s \o t)
  <2>1. Len(s) + j \in DOMAIN (s \o t)
    BY ConcatProperties
  <2>2. (s \o t)[Len(s) + j] = t[j]
    BY ConcatProperties
  <2> QED
    BY <2>1, <2>2 DEF ToSet
<1>4. \A x \in ToSet(t) : x \in ToSet(s \o t)
  BY <1>3 DEF ToSet
<1> QED
  BY <1>1, <1>2, <1>4

LEMMA ToSetAppend ==
  ASSUME NEW s \in Seq(Nat), NEW n \in Nat
  PROVE  ToSet(Append(s, n)) = ToSet(s) \cup {n}
<1>1. \A x \in ToSet(Append(s, n)) : x \in ToSet(s) \cup {n}
  BY DEF ToSet
<1>2. \A x \in ToSet(s) : x \in ToSet(Append(s, n))
  BY DEF ToSet
<1>3. n \in ToSet(Append(s, n))
  <2>1. /\ Len(s) + 1 \in DOMAIN Append(s, n)
        /\ Append(s, n)[Len(s) + 1] = n
    OBVIOUS
  <2> QED
    BY <2>1 DEF ToSet
<1> QED
  BY <1>1, <1>2, <1>3

LEMMA IncreasingAppend ==
  ASSUME NEW s \in Seq(Nat), NEW n \in Nat, Increasing(s),
         \A x \in ToSet(s) : x < n
  PROVE  Increasing(Append(s, n))
<1>1. \A i \in DOMAIN s : s[i] < n /\ Append(s, n)[i] = s[i]
  BY DEF ToSet
<1>2. Append(s, n)[Len(s) + 1] = n /\ DOMAIN Append(s, n) = 1..(Len(s) + 1)
  OBVIOUS
<1> QED
  BY <1>1, <1>2 DEF Increasing

LEMMA IncreasingFirst ==
  ASSUME NEW s \in Seq(Nat), NEW t \in Seq(Nat), Increasing(s \o t)
  PROVE  Increasing(s)
<1>1. \A i \in DOMAIN s : i \in DOMAIN (s \o t) /\ (s \o t)[i] = s[i]
  BY ConcatProperties
<1> QED
  BY <1>1 DEF Increasing

LEMMA RemoveAtRest ==
  ASSUME NEW s \in Seq(Nat), NEW i \in 1..Len(s)
  PROVE  /\ RemoveAt(s, i) \in Seq(Nat)
         /\ Len(RemoveAt(s, i)) = Len(s) - 1
         /\ \A j \in 1..(Len(s) - 1) :
              RemoveAt(s, i)[j] = IF j < i THEN s[j] ELSE s[j + 1]
<1> DEFINE f == SubSeq(s, 1, i - 1)
           l == SubSeq(s, i + 1, Len(s))
<1>1. Len(s) \in Nat /\ i \in Nat /\ 1 <= i /\ i <= Len(s)
  OBVIOUS
<1>2. f \in Seq(Nat) /\ Len(f) = i - 1 /\ \A j \in 1..(i - 1) : f[j] = s[j]
  <2>1. \A j \in 1..(i - 1) : s[j] \in Nat
    BY <1>1
  <2>2. /\ f \in Seq(Nat)
        /\ Len(f) = IF 1 <= i - 1 THEN (i - 1) - 1 + 1 ELSE 0
        /\ \A j \in 1..((i - 1) - 1 + 1) : f[j] = s[1 + j - 1]
    BY <1>1, <2>1, SubSeqProperties
  <2> QED
    BY <1>1, <2>2
<1>3. /\ l \in Seq(Nat) /\ Len(l) = Len(s) - i
      /\ \A j \in 1..(Len(s) - i) : l[j] = s[i + j]
  <2>1. \A j \in (i + 1)..Len(s) : s[j] \in Nat
    BY <1>1
  <2>2. /\ l \in Seq(Nat)
        /\ Len(l) = IF i + 1 <= Len(s) THEN Len(s) - (i + 1) + 1 ELSE 0
        /\ \A j \in 1..(Len(s) - (i + 1) + 1) : l[j] = s[(i + 1) + j - 1]
    BY <1>1, <2>1, SubSeqProperties
  <2> HIDE DEF l
  <2>3. Len(l) = Len(s) - i
    BY <1>1, <2>2
  <2>4. ASSUME NEW j \in 1..(Len(s) - i)
        PROVE  l[j] = s[i + j]
    <3>1. j \in 1..(Len(s) - (i + 1) + 1) /\ (i + 1) + j - 1 = i + j
      BY <1>1
    <3>2. l[j] = s[(i + 1) + j - 1]
      BY <2>2, <3>1
    <3> QED
      BY <3>1, <3>2
  <2> QED
    BY <2>2, <2>3, <2>4
<1> HIDE DEF f, l
<1>4. /\ f \o l \in Seq(Nat) /\ Len(f \o l) = Len(f) + Len(l)
      /\ \A j \in 1..(Len(f) + Len(l)) :
           (f \o l)[j] = IF j <= Len(f) THEN f[j] ELSE l[j - Len(f)]
  BY <1>2, <1>3, ConcatProperties
<1>5. Len(f) + Len(l) = Len(s) - 1
  BY <1>1, <1>2, <1>3
<1>6. ASSUME NEW j \in 1..(Len(s) - 1)
      PROVE  (f \o l)[j] = IF j < i THEN s[j] ELSE s[j + 1]
  <2>1. CASE j < i
    BY <1>1, <1>2, <1>4, <1>5, <2>1
  <2>2. CASE ~(j < i)
    <3>1. j - Len(f) \in 1..(Len(s) - i) /\ i + (j - Len(f)) = j + 1 /\ ~(j <= Len(f))
      BY <1>1, <1>2, <2>2
    <3>2. (f \o l)[j] = l[j - Len(f)]
      BY <1>4, <1>5, <3>1
    <3>3. l[j - Len(f)] = s[i + (j - Len(f))]
      BY <1>3, <3>1
    <3> QED
      BY <2>2, <3>1, <3>2, <3>3
  <2> QED
    BY <2>1, <2>2
<1>7. RemoveAt(s, i) = f \o l
  BY DEF RemoveAt, f, l
<1> QED
  BY <1>4, <1>5, <1>6, <1>7

(* Taking a place out keeps the order, and loses nothing else.             *)
LEMMA WithoutOneRest ==
  ASSUME NEW s \in Seq(Nat), NEW at \in SUBSET DOMAIN s, Increasing(s)
  PROVE  /\ Increasing(WithoutOne(s, at))
         /\ ToSet(WithoutOne(s, at)) \subseteq ToSet(s)
         /\ \A x \in ToSet(s) :
              x \in ToSet(WithoutOne(s, at)) \/ \E i \in at : x = s[i]
<1>1. CASE at = {}
  BY <1>1 DEF WithoutOne
<1>2. CASE at # {}
  <2>1. PICK i \in at : WithoutOne(s, at) = RemoveAt(s, i)
    BY <1>2 DEF WithoutOne
  <2> DEFINE w == RemoveAt(s, i)
  <2>2. Len(s) \in Nat /\ i \in 1..Len(s) /\ DOMAIN s = 1..Len(s)
    OBVIOUS
  <2>3. /\ w \in Seq(Nat) /\ Len(w) = Len(s) - 1
        /\ \A j \in 1..(Len(s) - 1) : w[j] = IF j < i THEN s[j] ELSE s[j + 1]
    BY <2>2, RemoveAtRest
  <2>4. DOMAIN w = 1..(Len(s) - 1)
    BY <2>3
  <2> HIDE DEF w
  <2>5. ASSUME NEW j \in DOMAIN w
        PROVE  \E k \in DOMAIN s : w[j] = s[k] /\ k = IF j < i THEN j ELSE j + 1
    BY <2>2, <2>3, <2>4
  <2>6. Increasing(w)
    <3>1. ASSUME NEW j \in DOMAIN w, NEW k \in DOMAIN w, j < k
          PROVE  w[j] < w[k]
      <4>1. PICK m \in DOMAIN s : w[j] = s[m] /\ m = IF j < i THEN j ELSE j + 1
        BY <2>5
      <4>2. PICK n \in DOMAIN s : w[k] = s[n] /\ n = IF k < i THEN k ELSE k + 1
        BY <2>5
      <4>3. m < n
        BY <2>2, <2>4, <3>1, <4>1, <4>2
      <4> QED
        BY <4>1, <4>2, <4>3 DEF Increasing
    <3> QED
      BY <3>1 DEF Increasing
  <2>7. ToSet(w) \subseteq ToSet(s)
    BY <2>5 DEF ToSet
  <2>8. ASSUME NEW k \in DOMAIN s, k # i
        PROVE  s[k] \in ToSet(w)
    <3>1. CASE k < i
      <4>1. k \in 1..(Len(s) - 1)
        BY <2>2, <3>1
      <4>2. k \in DOMAIN w /\ w[k] = s[k]
        BY <2>3, <2>4, <3>1, <4>1
      <4> QED
        BY <4>2 DEF ToSet
    <3>2. CASE k > i
      <4>1. k - 1 \in 1..(Len(s) - 1) /\ ~(k - 1 < i) /\ (k - 1) + 1 = k
        BY <2>2, <3>2
      <4>2. k - 1 \in DOMAIN w /\ w[k - 1] = s[k]
        BY <2>3, <2>4, <4>1
      <4> QED
        BY <4>2 DEF ToSet
    <3> QED
      BY <2>2, <2>8, <3>1, <3>2
  <2>9. \A x \in ToSet(s) : x \in ToSet(w) \/ \E k \in at : x = s[k]
    BY <2>8 DEF ToSet
  <2> QED
    BY <2>1, <2>6, <2>7, <2>9 DEF w
<1> QED
  BY <1>1, <1>2

(* What is kept, in places of the items that came.                         *)
Places(v, a) == ToSet(v) \cup ToSet(Flushed(a).parts) \cup ToSet(a.calls)

Covered(h, kept, n) ==
  \/ n \in kept \/ h[n].kind \in {"complete", "end"}
  \/ \E m \in kept : /\ n < m /\ h[m].kind = "text"
                     /\ \A k \in n..(m - 1) : h[k].kind = "delta"
  \/ /\ h[n].kind = "call"
     /\ \E m \in kept : n < m /\ h[m].kind = "result" /\ h[m].id = h[n].id

AllCovered(h, kept) == \A n \in DOMAIN h : Covered(h, kept, n)

Ordered(h, s) ==
  \A i, j \in DOMAIN s :
    i < j => s[i] < s[j] \/ (s[j] < s[i] /\ h[s[j]].kind = "call")

(* The parts and pending text are in order and after what was saved, the   *)
(* pending calls as well and none of those is among the parts; and nothing *)
(* is lost.                                                                *)
Accounted(h, v, a) ==
  LET d == Flushed(a).parts
  IN /\ Places(v, a) \subseteq DOMAIN h
     /\ Ordered(h, v) /\ Increasing(d) /\ Increasing(a.calls)
     /\ ToSet(d) \cap ToSet(a.calls) = {}
     /\ \A n \in ToSet(a.calls) : h[n].kind = "call"
     /\ \A x \in ToSet(v), y \in ToSet(d) \cup ToSet(a.calls) : x < y
     /\ AllCovered(h, Places(v, a))

(* Between two insertions the pending text is streamed, with nothing but   *)
(* streamed text behind it.                                                *)
Streaming(h, text) ==
  \A n \in ToSet(text) : \A k \in n..Len(h) : h[k].kind = "delta"

(* What covers an item is not lost, and what is lost is covered.           *)
LEMMA CoverGrows ==
  ASSUME NEW h \in Seq(Item), NEW item \in Item, NEW K, NEW L,
         K \subseteq DOMAIN h, AllCovered(h, K),
         Len(h) + 1 \in L \/ item.kind \in {"complete", "end"},
         \A m \in K : m \in L \/ /\ h[m].kind \in {"delta", "call"}
                                 /\ Covered(Append(h, item), L, m)
  PROVE  AllCovered(Append(h, item), L)
<1> DEFINE g == Append(h, item)
<1>1. /\ Len(h) \in Nat /\ DOMAIN h = 1..Len(h) /\ DOMAIN g = 1..(Len(h) + 1)
      /\ \A k \in DOMAIN h : g[k] = h[k] /\ k \in Nat
      /\ g[Len(h) + 1] = item
  OBVIOUS
<1> HIDE DEF g
<1>2. ASSUME NEW n \in DOMAIN h
      PROVE  Covered(g, L, n)
  <2>1. Covered(h, K, n)
    BY DEF AllCovered
  <2>2. CASE n \in K
    BY <2>2 DEF Covered, g
  <2>3. CASE h[n].kind \in {"complete", "end"}
    BY <1>1, <2>3 DEF Covered
  <2>4. ASSUME NEW m \in K, n < m, h[m].kind = "text",
               \A k \in n..(m - 1) : h[k].kind = "delta"
        PROVE  Covered(g, L, n)
    <3>1. m \in L /\ m \in DOMAIN h /\ g[m].kind = "text"
      BY <1>1, <2>4
    <3>2. \A k \in n..(m - 1) : k \in DOMAIN h
      BY <1>1, <3>1
    <3>3. \A k \in n..(m - 1) : g[k].kind = "delta"
      BY <1>1, <2>4, <3>2
    <3> QED
      BY <2>4, <3>1, <3>3 DEF Covered
  <2>5. ASSUME h[n].kind = "call", NEW m \in K, n < m, h[m].kind = "result",
               h[m].id = h[n].id
        PROVE  Covered(g, L, n)
    <3>1. m \in L /\ m \in DOMAIN h
      BY <2>5
    <3>2. g[m] = h[m] /\ g[n] = h[n]
      BY <1>1, <3>1
    <3> QED
      BY <2>5, <3>1, <3>2 DEF Covered
  <2> QED
    BY <2>1, <2>2, <2>3, <2>4, <2>5 DEF Covered
<1>3. Covered(g, L, Len(h) + 1)
  BY <1>1 DEF Covered
<1>4. AllCovered(g, L)
  <2>1. \A n \in DOMAIN g : n \in DOMAIN h \/ n = Len(h) + 1
    BY <1>1
  <2> QED
    BY <1>2, <1>3, <2>1 DEF AllCovered
<1> QED
  BY <1>4 DEF g

(* What an item does to the accumulator.                                   *)
LEMMA AddedParts ==
  ASSUME NEW a \in Accumulator, NEW h \in Seq(Item), NEW item \in Item, NEW n \in Nat
  PROVE  /\ item.kind = "delta" =>
              /\ Flushed(Added(a, h, item, n)).parts = Append(Flushed(a).parts, n)
              /\ Added(a, h, item, n).text = Append(a.text, n)
              /\ Added(a, h, item, n).calls = a.calls
         /\ item.kind = "text" =>
              /\ Flushed(Added(a, h, item, n)).parts = Append(a.parts, n)
              /\ Added(a, h, item, n).text = <<n>>
              /\ Added(a, h, item, n).calls = a.calls
         /\ item.kind \in {"part", "media"} =>
              /\ Flushed(Added(a, h, item, n)).parts = Append(Flushed(a).parts, n)
              /\ Added(a, h, item, n).text = <<>>
              /\ Added(a, h, item, n).calls = a.calls
         /\ item.kind = "call" =>
              /\ Flushed(Added(a, h, item, n)).parts = Flushed(a).parts
              /\ Added(a, h, item, n).text = <<>>
              /\ Added(a, h, item, n).calls = Append(a.calls, n)
         /\ item.kind = "result" =>
              /\ Flushed(Added(a, h, item, n)).parts = Append(Flushed(a).parts, n)
              /\ Added(a, h, item, n).text = <<>>
              /\ Added(a, h, item, n).calls = Popped(a.calls, h, item.id)
         /\ item.kind \in {"complete", "end"} => Added(a, h, item, n) = a
<1> DEFINE b == Added(a, h, item, n)
           d == Flushed(a).parts
<1>1. /\ a.parts \in Seq(Nat) /\ a.text \in Seq(Nat) /\ a.calls \in Seq(Nat)
      /\ d = a.parts \o a.text /\ d \in Seq(Nat)
      /\ Flushed(a) = [parts |-> d, text |-> <<>>, calls |-> a.calls]
      /\ a = [parts |-> a.parts, text |-> a.text, calls |-> a.calls]
  BY FlushedType DEF Accumulator, Flushed
<1> HIDE DEF d
<1>2. \A s \in Seq(Nat) : s \o <<>> = s
  BY ConcatEmptySeq
<1>3. CASE item.kind = "delta"
  <2>1. b = [parts |-> a.parts, text |-> Append(a.text, n), calls |-> a.calls]
    BY <1>1, <1>3 DEF Added
  <2>2. a.parts \o Append(a.text, n) = Append(a.parts \o a.text, n)
    BY <1>1
  <2> QED
    BY <1>1, <1>3, <2>1, <2>2 DEF Flushed, d
<1>4. CASE item.kind = "text"
  <2>1. b = [parts |-> a.parts, text |-> <<n>>, calls |-> a.calls]
    BY <1>1, <1>4 DEF Added
  <2>2. a.parts \o <<n>> = Append(a.parts, n)
    BY <1>1
  <2> QED
    BY <1>1, <1>4, <2>1, <2>2 DEF Flushed, d
<1>5. CASE item.kind \in {"part", "media"}
  <2>1. b = [parts |-> Append(d, n), text |-> <<>>, calls |-> a.calls]
    BY <1>1, <1>5 DEF Added, Flushed, d
  <2>2. Append(d, n) \o <<>> = Append(d, n)
    BY <1>1, <1>2
  <2> QED
    BY <1>1, <1>5, <2>1, <2>2 DEF Flushed, d
<1>6. CASE item.kind = "call"
  <2>1. b = [parts |-> d, text |-> <<>>, calls |-> Append(a.calls, n)]
    BY <1>1, <1>6 DEF Added, Flushed, d
  <2>2. d \o <<>> = d
    BY <1>1, <1>2
  <2> QED
    BY <1>1, <1>6, <2>1, <2>2 DEF Flushed, d
<1>7. CASE item.kind = "result"
  <2>1. b = [parts |-> Append(d, n), text |-> <<>>,
             calls |-> Popped(a.calls, h, item.id)]
    BY <1>1, <1>7 DEF Added, Flushed, d
  <2>2. Append(d, n) \o <<>> = Append(d, n)
    BY <1>1, <1>2
  <2> QED
    BY <1>1, <1>7, <2>1, <2>2 DEF Flushed, d
<1>8. CASE item.kind \in {"complete", "end"}
  BY <1>8 DEF Added
<1>9. item.kind \in Kinds
  BY DEF Item
<1> QED
  BY <1>3, <1>4, <1>5, <1>6, <1>7, <1>8, <1>9 DEF Kinds, d

(* Taking an item keeps the account.                                       *)
LEMMA AddedAccounted ==
  ASSUME NEW h \in Seq(Item), NEW v \in Seq(Nat), NEW a \in Accumulator,
         NEW item \in Item, Accounted(h, v, a), Streaming(h, a.text)
  PROVE  Accounted(Append(h, item), v, Added(a, h, item, Len(h) + 1))
<1> DEFINE N == Len(h) + 1
           g == Append(h, item)
           b == Added(a, h, item, N)
           d == Flushed(a).parts
           e == Flushed(b).parts
           P == ToSet(a.parts)
           T == ToSet(a.text)
           D == ToSet(d)
           C == ToSet(a.calls)
           V == ToSet(v)
           K == V \cup D \cup C
           L == V \cup ToSet(e) \cup ToSet(b.calls)
<1>1. /\ Len(h) \in Nat /\ N \in Nat /\ DOMAIN h = 1..Len(h) /\ DOMAIN g = 1..N
      /\ \A k \in DOMAIN h : g[k] = h[k] /\ k < N /\ k \in Nat
      /\ g[N] = item /\ N \notin DOMAIN h
      /\ DOMAIN h \subseteq DOMAIN g /\ N \in DOMAIN g
  OBVIOUS
<1>2. /\ a.parts \in Seq(Nat) /\ a.text \in Seq(Nat) /\ a.calls \in Seq(Nat)
      /\ d = a.parts \o a.text /\ d \in Seq(Nat)
  BY FlushedType DEF Accumulator
<1>3. D = P \cup T
  BY <1>2, ToSetConcat
<1>4. /\ K \subseteq DOMAIN h /\ AllCovered(h, K)
      /\ Ordered(h, v) /\ Increasing(d) /\ Increasing(a.calls)
      /\ D \cap C = {} /\ \A n \in C : h[n].kind = "call"
      /\ \A x \in V, y \in D \cup C : x < y
  BY DEF Accounted, Places
<1>5. \A n \in T : n \in DOMAIN h /\ h[n].kind = "delta" /\ \A k \in n..Len(h) : h[k].kind = "delta"
  <2>1. \A n \in T : n \in DOMAIN h
    BY <1>3, <1>4
  <2>2. \A n \in T : n \in n..Len(h)
    BY <1>1, <2>1
  <2> QED
    BY <2>1, <2>2 DEF Streaming
<1>6. /\ item.kind = "delta" => e = Append(d, N) /\ b.calls = a.calls
      /\ item.kind = "text" => e = Append(a.parts, N) /\ b.calls = a.calls
      /\ item.kind \in {"part", "media"} => e = Append(d, N) /\ b.calls = a.calls
      /\ item.kind = "call" => e = d /\ b.calls = Append(a.calls, N)
      /\ item.kind = "result" => e = Append(d, N) /\ b.calls = Popped(a.calls, h, item.id)
      /\ item.kind \in {"complete", "end"} => b = a
      /\ item.kind \in Kinds
  <2>1. item.kind \in Kinds
    BY DEF Item
  <2>2. N \in Nat
    BY <1>1
  <2> HIDE DEF N, g, P, T, D, C, V, K, L
  <2>3. item.kind = "delta" => e = Append(d, N) /\ b.calls = a.calls
    BY <2>2, AddedParts
  <2>4. item.kind = "text" => e = Append(a.parts, N) /\ b.calls = a.calls
    BY <2>2, AddedParts
  <2>5. item.kind \in {"part", "media"} => e = Append(d, N) /\ b.calls = a.calls
    BY <2>2, AddedParts
  <2>6. item.kind = "call" => e = d /\ b.calls = Append(a.calls, N)
    BY <2>2, AddedParts
  <2>7. item.kind = "result" => e = Append(d, N) /\ b.calls = Popped(a.calls, h, item.id)
    BY <2>2, AddedParts
  <2>8. item.kind \in {"complete", "end"} => b = a
    BY <2>2, AddedParts
  <2> QED
    BY <2>1, <2>3, <2>4, <2>5, <2>6, <2>7, <2>8
<1> HIDE DEF N, g, b, d, e
<1>7. /\ Increasing(a.parts)
      /\ ToSet(Append(d, N)) = D \cup {N} /\ ToSet(Append(a.parts, N)) = P \cup {N}
      /\ ToSet(Append(a.calls, N)) = C \cup {N}
  BY <1>1, <1>2, <1>4, IncreasingFirst, ToSetAppend
<1> HIDE DEF P, T, D, C, V
<1>8. /\ Increasing(Append(d, N)) /\ Increasing(Append(a.parts, N))
      /\ Increasing(Append(a.calls, N))
  <2>1. \A x \in D : x < N
    BY <1>1, <1>4
  <2>2. \A x \in P : x < N
    BY <2>1, <1>3
  <2>3. \A x \in C : x < N
    BY <1>1, <1>4
  <2> QED
    BY <1>1, <1>2, <1>4, <1>7, <2>1, <2>2, <2>3, IncreasingAppend DEF D, P, C
<1>9. item.kind = "result" =>
        /\ Increasing(b.calls) /\ ToSet(b.calls) \subseteq C
        /\ \A x \in C : x \in ToSet(b.calls) \/ h[x].id = item.id
  <2> DEFINE at == {i \in DOMAIN a.calls : h[a.calls[i]].id = item.id}
  <2>1. Popped(a.calls, h, item.id) = WithoutOne(a.calls, at)
    BY DEF Popped
  <2>2. at \in SUBSET DOMAIN a.calls /\ \A i \in at : h[a.calls[i]].id = item.id
    OBVIOUS
  <2> HIDE DEF at
  <2>3. /\ Increasing(WithoutOne(a.calls, at)) /\ ToSet(WithoutOne(a.calls, at)) \subseteq C
        /\ \A x \in C : x \in ToSet(WithoutOne(a.calls, at)) \/ \E i \in at : x = a.calls[i]
    BY <1>2, <1>4, <2>2, WithoutOneRest DEF C
  <2> QED
    BY <1>6, <2>1, <2>2, <2>3
(* The shape of the account, whatever came.                                *)
<1>10. /\ ToSet(e) \subseteq D \cup {N}
       /\ ToSet(b.calls) \subseteq C \cup {N}
       /\ N \in ToSet(e) \cup ToSet(b.calls) \/ item.kind \in {"complete", "end"}
       /\ N \in ToSet(b.calls) => N \notin ToSet(e) /\ item.kind = "call"
       /\ Increasing(e) /\ Increasing(b.calls)
  <2>1. CASE item.kind \in {"delta", "text", "part", "media"}
    <3>1. N \notin C
      BY <1>1, <1>4
    <3> QED
      BY <2>1, <3>1, <1>3, <1>4, <1>6, <1>7, <1>8 DEF C
  <2>2. CASE item.kind = "call"
    <3>1. N \notin D
      BY <1>1, <1>4
    <3> QED
      BY <2>2, <3>1, <1>4, <1>6, <1>7, <1>8 DEF D
  <2>3. CASE item.kind = "result"
    <3>1. N \notin C
      BY <1>1, <1>4
    <3> QED
      BY <2>3, <3>1, <1>6, <1>7, <1>8, <1>9
  <2>4. CASE item.kind \in {"complete", "end"}
    <3>1. e = d /\ b.calls = a.calls
      BY <1>6, <2>4 DEF e, d
    <3>2. N \notin C
      BY <1>1, <1>4
    <3> QED
      BY <2>4, <3>1, <3>2, <1>4 DEF D, C
  <2> QED
    BY <2>1, <2>2, <2>3, <2>4, <1>6 DEF Kinds
(* What is no longer kept.                                                 *)
<1>11. \A m \in K : m \in L \/ /\ h[m].kind \in {"delta", "call"}
                               /\ Covered(g, L, m)
  <2>1. CASE item.kind \in {"delta", "part", "media", "call"}
    BY <2>1, <1>6, <1>7 DEF C, D
  <2>2. CASE item.kind = "text"
    <3>1. N \in L /\ g[N].kind = "text" /\ K \subseteq L \cup T
      BY <2>2, <1>1, <1>3, <1>6, <1>7 DEF C
    <3>2. ASSUME NEW m \in T
          PROVE  h[m].kind = "delta" /\ Covered(g, L, m)
      <4>1. m \in DOMAIN h /\ h[m].kind = "delta" /\ m < N
        BY <1>1, <1>5
      <4>2. \A k \in m..(N - 1) : k \in m..Len(h) /\ k \in DOMAIN h
        BY <1>1, <4>1 DEF N
      <4>3. \A k \in m..(N - 1) : g[k].kind = "delta"
        BY <1>1, <1>5, <4>2
      <4> QED
        BY <3>1, <4>1, <4>3 DEF Covered
    <3> QED
      BY <3>1, <3>2
  <2>3. CASE item.kind = "result"
    <3>1. N \in L /\ g[N].kind = "result" /\ g[N].id = item.id /\ V \cup D \subseteq L
      BY <2>3, <1>1, <1>6, <1>7
    <3>2. ASSUME NEW m \in C, m \notin L
          PROVE  h[m].kind = "call" /\ Covered(g, L, m)
      <4>1. m \in DOMAIN h /\ h[m].kind = "call" /\ m < N /\ g[m] = h[m]
        BY <1>1, <1>4
      <4>2. h[m].id = item.id
        BY <1>9, <2>3, <3>2
      <4> QED
        BY <3>1, <4>1, <4>2 DEF Covered
    <3> QED
      BY <3>1, <3>2
  <2>4. CASE item.kind \in {"complete", "end"}
    <3>1. e = d /\ b.calls = a.calls
      BY <1>6, <2>4 DEF e, d
    <3> QED
      BY <3>1 DEF D, C
  <2> QED
    BY <2>1, <2>2, <2>3, <2>4, <1>6 DEF Kinds
<1>12. AllCovered(g, L)
  <2>1. N \in L \/ item.kind \in {"complete", "end"}
    BY <1>10
  <2> QED
    BY <1>4, <1>11, <2>1, CoverGrows DEF g, N
<1>13. L \subseteq DOMAIN g
  BY <1>1, <1>4, <1>10
<1>14. Ordered(g, v)
  <2>1. \A i \in DOMAIN v : v[i] \in DOMAIN h
    BY <1>4 DEF V, ToSet
  <2> QED
    BY <1>1, <1>4, <2>1 DEF Ordered
<1>15. ToSet(e) \cap ToSet(b.calls) = {}
  BY <1>4, <1>10
<1>16. \A n \in ToSet(b.calls) : g[n].kind = "call"
  BY <1>1, <1>4, <1>10
<1>17. \A x \in V, y \in ToSet(e) \cup ToSet(b.calls) : x < y
  BY <1>1, <1>4, <1>10
<1>18. Places(v, b) = L
  BY DEF Places, V, e
<1> QED
  BY <1>10, <1>12, <1>13, <1>14, <1>15, <1>16, <1>17, <1>18
     DEF Accounted, e, V, g, b, N

(* Text that is streamed stays pending, and whatever else comes between    *)
(* two insertions puts it among the parts.                                 *)
LEMMA AddedStreaming ==
  ASSUME NEW h \in Seq(Item), NEW a \in Accumulator, NEW item \in Item,
         Streaming(h, a.text), ToSet(a.text) \subseteq DOMAIN h,
         ~ShouldSave(item, Added(a, h, item, Len(h) + 1))
  PROVE  Streaming(Append(h, item), Added(a, h, item, Len(h) + 1).text)
<1> DEFINE N == Len(h) + 1
           g == Append(h, item)
           b == Added(a, h, item, N)
<1>1. /\ Len(h) \in Nat /\ N \in Nat /\ Len(g) = N /\ DOMAIN h = 1..Len(h)
      /\ \A k \in DOMAIN h : g[k] = h[k]
      /\ g[N] = item
  OBVIOUS
<1>2. item.kind \in Kinds
  BY DEF Item
<1> HIDE DEF N, g
<1>3. ASSUME item.kind = "delta"
      PROVE  Streaming(g, b.text)
  <2>1. b.text = Append(a.text, N)
    BY <1>1, <1>3, AddedParts
  <2>2. ToSet(b.text) = ToSet(a.text) \cup {N}
    BY <1>1, <2>1, ToSetAppend DEF Accumulator
  <2>3. ASSUME NEW n \in ToSet(b.text), NEW k \in n..Len(g)
        PROVE  g[k].kind = "delta"
    <3>1. CASE k = N
      BY <1>1, <1>3, <3>1
    <3>2. CASE k # N
      <4>1. n \in Nat /\ 1 <= n /\ n <= N
        BY <1>1, <2>2 DEF N
      <4>2. k \in DOMAIN h /\ k \in n..Len(h) /\ n # N
        BY <1>1, <2>3, <3>2, <4>1 DEF N
      <4>3. n \in ToSet(a.text)
        BY <2>2, <4>2
      <4> QED
        BY <1>1, <4>2, <4>3 DEF Streaming
    <3> QED
      BY <3>1, <3>2
  <2> QED
    BY <2>3 DEF Streaming
<1>4. ASSUME item.kind \in {"part", "media", "call", "result"}
      PROVE  Streaming(g, b.text)
  <2>1. b.text = <<>>
    BY <1>1, <1>4, AddedParts
  <2>2. ToSet(b.text) = {}
    BY <2>1 DEF ToSet
  <2> QED
    BY <2>2 DEF Streaming
<1>5. ASSUME item.kind = "text"
      PROVE  FALSE
  <2>1. b.text = <<N>> /\ Blank.text = <<>>
    BY <1>1, <1>5, AddedParts DEF Blank
  <2>2. b # Blank
    <3>1. <<N>> # <<>>
      OBVIOUS
    <3> HIDE DEF b
    <3> QED
      BY <2>1, <3>1
  <2> QED
    BY <1>5, <2>2 DEF ShouldSave, N, b
<1>6. ASSUME item.kind \in {"complete", "end"}
      PROVE  Streaming(g, b.text)
  <2>1. b = Blank
    BY <1>6 DEF ShouldSave, N, b
  <2>2. ToSet(b.text) = {}
    BY <2>1 DEF ToSet, Blank
  <2> QED
    BY <2>2 DEF Streaming
<1> QED
  BY <1>2, <1>3, <1>4, <1>5, <1>6 DEF Kinds, N, g

(* What is kept, as a sequence.                                            *)
LEMMA KeptOrdered ==
  ASSUME NEW h \in Seq(Item), NEW v \in Seq(Nat), NEW a \in Accumulator,
         Accounted(h, v, a)
  PROVE  /\ v \o Built(a) \in Seq(Nat)
         /\ ToSet(v \o Built(a)) = Places(v, a)
         /\ Ordered(h, v \o Built(a))
         /\ \A i, j \in DOMAIN (v \o Built(a)) :
              i <= Len(v) /\ j > Len(v) => (v \o Built(a))[i] < (v \o Built(a))[j]
<1> DEFINE d == Flushed(a).parts
           c == a.calls
           s == d \o c
           t == v \o s
<1>1. d \in Seq(Nat) /\ c \in Seq(Nat) /\ Built(a) = s
  BY FlushedType DEF Accumulator, Built
<1>2. /\ Ordered(h, v) /\ Increasing(d) /\ Increasing(c)
      /\ ToSet(d) \cap ToSet(c) = {} /\ \A n \in ToSet(c) : h[n].kind = "call"
      /\ \A x \in ToSet(v), y \in ToSet(d) \cup ToSet(c) : x < y
  BY DEF Accounted
<1> HIDE DEF d, c
<1>3. /\ s \in Seq(Nat) /\ Len(s) = Len(d) + Len(c)
      /\ \A i \in 1..(Len(d) + Len(c)) :
           s[i] = IF i <= Len(d) THEN d[i] ELSE c[i - Len(d)]
      /\ ToSet(s) = ToSet(d) \cup ToSet(c)
  BY <1>1, ConcatProperties, ToSetConcat
<1> HIDE DEF s
<1>4. Ordered(h, s)
  <2>1. ASSUME NEW i \in DOMAIN s, NEW j \in DOMAIN s, i < j
        PROVE  s[i] < s[j] \/ (s[j] < s[i] /\ h[s[j]].kind = "call")
    <3>1. /\ i \in 1..(Len(d) + Len(c)) /\ j \in 1..(Len(d) + Len(c))
          /\ Len(d) \in Nat /\ Len(c) \in Nat
          /\ DOMAIN d = 1..Len(d) /\ DOMAIN c = 1..Len(c)
          /\ s[i] \in Nat /\ s[j] \in Nat
      <4>1. DOMAIN s = 1..Len(s) /\ \A k \in DOMAIN s : s[k] \in Nat
        BY <1>3
      <4>2. i \in 1..(Len(d) + Len(c)) /\ j \in 1..(Len(d) + Len(c))
        BY <1>3, <4>1
      <4> QED
        BY <1>1, <4>1, <4>2
    <3>2. CASE j <= Len(d)
      <4>1. i \in DOMAIN d /\ j \in DOMAIN d /\ s[i] = d[i] /\ s[j] = d[j]
        BY <1>3, <2>1, <3>1, <3>2
      <4> QED
        BY <1>2, <2>1, <4>1 DEF Increasing
    <3>3. CASE ~(i <= Len(d))
      <4>1. /\ i - Len(d) \in DOMAIN c /\ j - Len(d) \in DOMAIN c
            /\ i - Len(d) < j - Len(d)
            /\ ~(j <= Len(d))
        BY <2>1, <3>1, <3>3
      <4>2. s[i] = c[i - Len(d)] /\ s[j] = c[j - Len(d)]
        BY <1>3, <3>1, <3>3, <4>1
      <4> QED
        BY <1>2, <4>1, <4>2 DEF Increasing
    <3>4. CASE i <= Len(d) /\ ~(j <= Len(d))
      <4>1. i \in DOMAIN d /\ j - Len(d) \in DOMAIN c
        BY <3>1, <3>4
      <4>2. s[i] = d[i] /\ s[j] = c[j - Len(d)]
        BY <1>3, <3>1, <3>4
      <4>3. s[i] \in ToSet(d) /\ s[j] \in ToSet(c)
        BY <4>1, <4>2 DEF ToSet
      <4>4. s[i] # s[j] /\ h[s[j]].kind = "call"
        BY <1>2, <4>3
      <4> QED
        BY <3>1, <4>4
    <3> QED
      BY <3>2, <3>3, <3>4
  <2> QED
    BY <2>1 DEF Ordered
<1>5. /\ t \in Seq(Nat) /\ Len(t) = Len(v) + Len(s)
      /\ \A i \in 1..(Len(v) + Len(s)) :
           t[i] = IF i <= Len(v) THEN v[i] ELSE s[i - Len(v)]
      /\ ToSet(t) = ToSet(v) \cup ToSet(s)
  BY <1>3, ConcatProperties, ToSetConcat
<1> HIDE DEF t
<1>6. ASSUME NEW i \in DOMAIN t, NEW j \in DOMAIN t, i <= Len(v), j > Len(v)
      PROVE  t[i] < t[j]
  <2>0. /\ DOMAIN t = 1..(Len(v) + Len(s)) /\ DOMAIN v = 1..Len(v)
        /\ DOMAIN s = 1..Len(s) /\ Len(v) \in Nat /\ Len(s) \in Nat
    BY <1>3, <1>5
  <2>1. /\ i \in 1..(Len(v) + Len(s)) /\ j \in 1..(Len(v) + Len(s))
        /\ i \in DOMAIN v /\ j - Len(v) \in DOMAIN s /\ ~(j <= Len(v))
    BY <1>6, <2>0
  <2>2. t[i] = v[i] /\ t[j] = s[j - Len(v)]
    BY <1>5, <1>6, <2>1
  <2>3. t[i] \in ToSet(v) /\ t[j] \in ToSet(s)
    BY <2>1, <2>2 DEF ToSet
  <2> QED
    BY <1>2, <1>3, <2>3
<1>7. Ordered(h, t)
  <2>1. ASSUME NEW i \in DOMAIN t, NEW j \in DOMAIN t, i < j
        PROVE  t[i] < t[j] \/ (t[j] < t[i] /\ h[t[j]].kind = "call")
    <3>1. /\ i \in 1..(Len(v) + Len(s)) /\ j \in 1..(Len(v) + Len(s))
          /\ Len(v) \in Nat /\ Len(s) \in Nat
          /\ DOMAIN v = 1..Len(v) /\ DOMAIN s = 1..Len(s)
      BY <1>3, <1>5
    <3>2. CASE j <= Len(v)
      <4>1. i \in DOMAIN v /\ j \in DOMAIN v /\ t[i] = v[i] /\ t[j] = v[j]
        BY <1>5, <2>1, <3>1, <3>2
      <4> QED
        BY <1>2, <2>1, <4>1 DEF Ordered
    <3>3. CASE ~(i <= Len(v))
      <4>1. /\ i - Len(v) \in DOMAIN s /\ j - Len(v) \in DOMAIN s
            /\ i - Len(v) < j - Len(v)
            /\ ~(j <= Len(v))
        BY <2>1, <3>1, <3>3
      <4>2. t[i] = s[i - Len(v)] /\ t[j] = s[j - Len(v)]
        BY <1>5, <3>1, <3>3, <4>1
      <4> QED
        BY <1>4, <4>1, <4>2 DEF Ordered
    <3>4. CASE i <= Len(v) /\ ~(j <= Len(v))
      BY <1>6, <3>1, <3>4
    <3> QED
      BY <3>2, <3>3, <3>4
  <2> QED
    BY <2>1 DEF Ordered
<1>8. ToSet(t) = Places(v, a)
  BY <1>3, <1>5 DEF Places, d, c
<1> QED
  BY <1>1, <1>5, <1>6, <1>7, <1>8 DEF t

LEMMA SuffixOf ==
  ASSUME NEW s \in Seq(Nat), NEW t \in Seq(Nat)
  PROVE  IsSuffix(s, t \o s)
<1> DEFINE w == t \o s
           p == Reverse(s)
           q == Reverse(w)
<1>1. /\ w \in Seq(Nat) /\ Len(w) = Len(t) + Len(s)
      /\ \A i \in 1..(Len(t) + Len(s)) :
           w[i] = IF i <= Len(t) THEN t[i] ELSE s[i - Len(t)]
  BY ConcatProperties
<1> HIDE DEF w
<1>2. Len(s) \in Nat /\ Len(t) \in Nat /\ Len(w) \in Nat
  BY <1>1
<1>3. /\ p \in Seq(Nat) /\ Len(p) = Len(s)
      /\ \A i \in 1..Len(s) : p[i] = s[Len(s) - i + 1]
  BY <1>2 DEF Reverse
<1>4. /\ q \in Seq(Nat) /\ Len(q) = Len(w)
      /\ \A i \in 1..Len(w) : q[i] = w[Len(w) - i + 1]
  BY <1>1, <1>2 DEF Reverse
<1> HIDE DEF p, q
<1>5. ASSUME NEW i \in 1..Len(s)
      PROVE  p[i] = q[i] /\ i \in 1..Len(w)
  <2>1. /\ i \in 1..Len(w) /\ Len(w) - i + 1 \in 1..(Len(t) + Len(s))
        /\ ~(Len(w) - i + 1 <= Len(t))
        /\ (Len(w) - i + 1) - Len(t) = Len(s) - i + 1
    BY <1>1, <1>2
  <2>2. q[i] = w[Len(w) - i + 1]
    BY <1>4, <2>1
  <2>3. w[Len(w) - i + 1] = s[(Len(w) - i + 1) - Len(t)]
    BY <1>1, <2>1
  <2> QED
    BY <1>3, <2>1, <2>2, <2>3
<1>6. /\ SubSeq(p, 1, Len(p)) \in Seq(Nat) /\ Len(SubSeq(p, 1, Len(p))) = Len(s)
      /\ \A i \in 1..Len(s) : SubSeq(p, 1, Len(p))[i] = p[i]
  <2>1. /\ SubSeq(p, 1, Len(p)) = p
    BY <1>3, SubSeqFull
  <2> QED
    BY <1>3, <2>1
<1>7. /\ SubSeq(q, 1, Len(p)) \in Seq(Nat) /\ Len(SubSeq(q, 1, Len(p))) = Len(s)
      /\ \A i \in 1..Len(s) : SubSeq(q, 1, Len(p))[i] = q[i]
  <2>1. \A i \in 1..Len(s) : q[i] \in Nat
    BY <1>4, <1>5
  <2>2. /\ SubSeq(q, 1, Len(s)) \in Seq(Nat)
        /\ Len(SubSeq(q, 1, Len(s))) = IF 1 <= Len(s) THEN Len(s) - 1 + 1 ELSE 0
        /\ \A i \in 1..(Len(s) - 1 + 1) : SubSeq(q, 1, Len(s))[i] = q[1 + i - 1]
    BY <1>2, <2>1, SubSeqProperties
  <2> QED
    BY <1>2, <1>3, <2>2
<1>8. SubSeq(p, 1, Len(p)) = SubSeq(q, 1, Len(p))
  BY <1>5, <1>6, <1>7, SeqEqual
<1>9. Len(p) <= Len(q)
  BY <1>1, <1>2, <1>3, <1>4
<1> QED
  BY <1>8, <1>9 DEF IsSuffix, IsPrefix, p, q, w

LEMMA NothingAccounted ==
  /\ Accounted(<<>>, <<>>, Blank) /\ Streaming(<<>>, Blank.text)
  /\ Blank \in Accumulator /\ <<>> \in Seq(Item) /\ <<>> \in Seq(Nat)
<1>1. /\ Blank \in Accumulator /\ <<>> \in Seq(Item) /\ <<>> \in Seq(Nat)
      /\ Blank.parts = <<>> /\ Blank.text = <<>> /\ Blank.calls = <<>>
      /\ <<>> \o <<>> = <<>>
  BY ConcatEmptySeq DEF Blank, Accumulator
<1>2. Flushed(Blank).parts = <<>>
  BY <1>1, FlushedType
<1>3. DOMAIN <<>> = {} /\ ToSet(<<>>) = {}
  BY DEF ToSet
<1>4. Places(<<>>, Blank) = {}
  BY <1>1, <1>2, <1>3 DEF Places
<1>5. Accounted(<<>>, <<>>, Blank)
  BY <1>1, <1>2, <1>3, <1>4 DEF Accounted, Ordered, Increasing, AllCovered
<1>6. Streaming(<<>>, Blank.text)
  BY <1>1, <1>3 DEF Streaming
<1> QED
  BY <1>1, <1>5, <1>6

(* After an insertion all that was kept is saved.                          *)
LEMMA StoredAccounted ==
  ASSUME NEW h \in Seq(Item), NEW v \in Seq(Nat), NEW a \in Accumulator,
         Accounted(h, v, a)
  PROVE  /\ Accounted(h, v \o Built(a), Blank) /\ Streaming(h, Blank.text)
         /\ Ordered(h, v \o Built(a))
         /\ ToSet(v \o Built(a)) \subseteq DOMAIN h
         /\ AllCovered(h, ToSet(v \o Built(a)))
<1> DEFINE w == v \o Built(a)
<1>1. w \in Seq(Nat) /\ ToSet(w) = Places(v, a) /\ Ordered(h, w)
  BY KeptOrdered
<1>2. Places(v, a) \subseteq DOMAIN h /\ AllCovered(h, Places(v, a))
  BY DEF Accounted
<1> HIDE DEF w
<1>3. /\ Blank.parts = <<>> /\ Blank.text = <<>> /\ Blank.calls = <<>>
      /\ Blank \in Accumulator
  BY NothingAccounted DEF Blank
<1>4. Flushed(Blank).parts = <<>>
  BY <1>3, FlushedType, ConcatEmptySeq, NothingAccounted
<1>5. DOMAIN <<>> = {} /\ ToSet(<<>>) = {}
  BY DEF ToSet
<1>6. Places(w, Blank) = ToSet(w)
  BY <1>3, <1>4, <1>5 DEF Places
<1>7. Accounted(h, w, Blank)
  BY <1>1, <1>2, <1>3, <1>4, <1>5, <1>6 DEF Accounted, Increasing
<1>8. Streaming(h, Blank.text)
  BY <1>3, <1>5 DEF Streaming
<1> QED
  BY <1>1, <1>2, <1>7, <1>8 DEF w

(* The account of a stream; when a cut insertion was committed, what is    *)
(* still accumulated is what it inserted.                                  *)
KeptInv(r) ==
  /\ stream[r] # "again" => Accounted(heard[r], saved[r], acc[r])
  /\ stream[r] \in {"none", "posting", "open"} => Streaming(heard[r], acc[r].text)
  /\ stream[r] = "again" =>
       /\ Ordered(heard[r], saved[r]) /\ ToSet(saved[r]) \subseteq DOMAIN heard[r]
       /\ AllCovered(heard[r], ToSet(saved[r]))
       /\ IsSuffix(Built(acc[r]), saved[r])
  /\ stream[r] = "flushing" => acc[r] = Blank

LEMMA KeptFrame ==
  ASSUME NEW r, KeptInv(r),
         stream'[r] = stream[r], heard'[r] = heard[r], acc'[r] = acc[r],
         saved'[r] = saved[r]
  PROVE  KeptInv(r)'
BY DEF KeptInv

LEMMA ReceiveKept ==
  ASSUME Types, NEW r \in Requests, KeptInv(r), Receive(r)
  PROVE  KeptInv(r)'
<1> DEFINE h    == heard[r]
           item == Head(items[r][1])
           b    == Added(acc[r], h, item, Len(h) + 1)
<1>1. /\ h \in Seq(Item) /\ saved[r] \in Seq(Nat) /\ acc[r] \in Accumulator
      /\ stream \in [Requests -> StreamStates] /\ heard \in [Requests -> Seq(Item)]
      /\ acc \in [Requests -> Accumulator]
  BY DEF Types, StreamTypes
<1>2. item \in Item
  <2>1. 1 \in Backs /\ items[r][1] \in Seq(Item) /\ items[r][1] # <<>>
    BY QueuesAssumption DEF Types, BackInv, BackTypes, Backs, Receive
  <2> QED
    BY <2>1
<1>3. /\ heard'[r] = Append(h, item) /\ acc'[r] = b /\ saved'[r] = saved[r]
      /\ stream'[r] = IF ShouldSave(item, b)
                      THEN IF item.kind = "end" THEN "ending" ELSE "storing"
                      ELSE IF item.kind = "end" THEN "flushing" ELSE "open"
  BY <1>1 DEF Receive
<1>4. stream[r] \in {"posting", "open"}
  BY DEF Receive
<1>5. Accounted(h, saved[r], acc[r]) /\ Streaming(h, acc[r].text)
  BY <1>4 DEF KeptInv
<1> HIDE DEF h, item, b
<1>6. Accounted(Append(h, item), saved[r], b)
  BY <1>1, <1>2, <1>5, AddedAccounted DEF b
<1>7. ~ShouldSave(item, b) => Streaming(Append(h, item), b.text)
  <2>1. ToSet(acc[r].text) \subseteq DOMAIN h
    <3>1. /\ Flushed(acc[r]).parts = acc[r].parts \o acc[r].text
          /\ acc[r].parts \in Seq(Nat) /\ acc[r].text \in Seq(Nat)
      BY <1>1, FlushedType DEF Accumulator
    <3>2. ToSet(acc[r].text) \subseteq ToSet(Flushed(acc[r]).parts)
      BY <3>1, ToSetConcat
    <3> QED
      BY <1>5, <3>2 DEF Accounted, Places
  <2> QED
    BY <1>1, <1>2, <1>5, <2>1, AddedStreaming DEF b
<1>8. stream'[r] = "flushing" => b = Blank
  BY <1>3 DEF ShouldSave
<1> QED
  BY <1>3, <1>6, <1>7, <1>8 DEF KeptInv

LEMMA SavingKept ==
  ASSUME Types, NEW r \in Requests, KeptInv(r), Store(r) \/ Cut(r)
  PROVE  KeptInv(r)'
<1> DEFINE w == saved[r] \o Built(acc[r])
<1>1. /\ heard[r] \in Seq(Item) /\ saved[r] \in Seq(Nat) /\ acc[r] \in Accumulator
      /\ stream \in [Requests -> StreamStates] /\ saved \in [Requests -> Seq(Nat)]
      /\ acc \in [Requests -> Accumulator]
      /\ Built(acc[r]) \in Seq(Nat)
  BY BuiltType DEF Types, StreamTypes
<1>2. stream[r] # "again"
  BY DEF Store, Cut, Reading
<1>3. Accounted(heard[r], saved[r], acc[r])
  BY <1>2 DEF KeptInv
<1>4. /\ Accounted(heard[r], w, Blank) /\ Streaming(heard[r], Blank.text)
      /\ Ordered(heard[r], w) /\ ToSet(w) \subseteq DOMAIN heard[r]
      /\ AllCovered(heard[r], ToSet(w)) /\ IsSuffix(Built(acc[r]), w)
  BY <1>1, <1>3, StoredAccounted, SuffixOf
<1>5. CASE Store(r)
  <2>1. /\ heard'[r] = heard[r] /\ acc'[r] = Blank /\ saved'[r] = w
        /\ stream'[r] \in {"open", "flushing"}
    BY <1>1, <1>5 DEF Store, AfterStore
  <2> QED
    BY <1>4, <2>1 DEF KeptInv
<1>6. CASE Cut(r)
  <2>1. heard'[r] = heard[r] /\ acc'[r] = acc[r]
    BY <1>6 DEF Cut
  <2>2. \/ stream'[r] = "dropping" /\ saved'[r] = saved[r]
        \/ stream'[r] = "again" /\ saved'[r] = w
    BY <1>1, <1>6 DEF Cut
  <2> HIDE DEF w
  <2> QED
    BY <1>3, <1>4, <2>1, <2>2 DEF KeptInv
<1> QED
  BY <1>5, <1>6

LEMMA OtherStreamKept ==
  ASSUME Types, NEW r \in Requests, KeptInv(r), Post(r) \/ UserNotSaved(r) \/ Finish(r)
  PROVE  KeptInv(r)'
<1>1. /\ stream \in [Requests -> StreamStates] /\ heard \in [Requests -> Seq(Item)]
      /\ acc \in [Requests -> Accumulator] /\ saved \in [Requests -> Seq(Nat)]
  BY DEF Types, StreamTypes
<1>2. CASE Post(r) \/ UserNotSaved(r)
  <2>1. /\ heard'[r] = heard[r] /\ acc'[r] = acc[r] /\ saved'[r] = saved[r]
        /\ \/ stream[r] = "none" /\ stream'[r] = "posting"
           \/ stream[r] = "posting" /\ stream'[r] = "failed"
    BY <1>1, <1>2 DEF Post, UserNotSaved
  <2> QED
    BY <2>1 DEF KeptInv
<1>3. CASE Finish(r)
  <2>1. /\ heard'[r] = <<>> /\ acc'[r] = Blank /\ saved'[r] = <<>>
        /\ stream'[r] \in {"closed", "cut"}
    BY <1>1, <1>3 DEF Finish
  <2> QED
    BY <2>1, NothingAccounted DEF KeptInv
<1> QED
  BY <1>2, <1>3

(* A step of one stream leaves the others alone, and nobody else touches   *)
(* one.                                                                    *)
LEMMA StreamFrame ==
  ASSUME Types, NEW r \in Requests, NEW q \in Requests, q # r,
         Post(r) \/ UserNotSaved(r) \/ Cut(r) \/ StreamStep(r)
  PROVE  /\ stream'[q] = stream[q] /\ heard'[q] = heard[q]
         /\ acc'[q] = acc[q] /\ saved'[q] = saved[q]
BY DEF Types, StreamTypes, Post, UserNotSaved, Cut, StreamStep, Receive, Store, Finish

LEMMA OthersLeaveStreams ==
  ASSUME [Next]_vars,
         ~\E r \in Requests : Post(r) \/ UserNotSaved(r) \/ Cut(r) \/ StreamStep(r)
  PROVE  UNCHANGED streamVars
<1>1. ASSUME NEW r \in Requests,
             \/ Capture(r) \/ Merge(r) \/ ReturnTickets(r) \/ PassOver(r)
             \/ Answer(r) \/ Say(r) \/ Fail(r)
      PROVE  UNCHANGED streamVars
  BY <1>1 DEF Capture, Merge, ReturnTickets, PassOver, Answer, TakeTurn, Begin, Complete, Release,
              End, Say, Fail
<1>2. ASSUME NEW c \in Chats, ListenerStep(c) \/ Deliver(c)
      PROVE  UNCHANGED streamVars
  BY <1>2 DEF ListenerStep, Deliver
<1>3. ASSUME NEW p \in Notices, Notify(p) \/ Tell(p) \/ TellComplete(p) \/ TellFails(p)
      PROVE  UNCHANGED streamVars
  BY <1>3 DEF Notify, Tell, TellComplete, TellFails
<1>4. ASSUME NEW s \in Requests \cup Notices, Resume(s)
      PROVE  UNCHANGED streamVars
  BY <1>4 DEF Resume
<1>5. Delete \/ UNCHANGED vars => UNCHANGED streamVars
  BY DEF Delete, vars
<1> QED
  BY <1>1, <1>2, <1>3, <1>4, <1>5 DEF Next

LEMMA NextKept ==
  ASSUME Types, [Next]_vars, \A r \in Requests : KeptInv(r)
  PROVE  \A r \in Requests : KeptInv(r)'
<1>1. ASSUME NEW r \in Requests,
             Post(r) \/ UserNotSaved(r) \/ Cut(r) \/ StreamStep(r)
      PROVE  \A q \in Requests : KeptInv(q)'
  <2>1. KeptInv(r)'
    BY <1>1, ReceiveKept, SavingKept, OtherStreamKept DEF StreamStep
  <2>2. ASSUME NEW q \in Requests, q # r
        PROVE  KeptInv(q)'
    BY <1>1, <2>2, StreamFrame, KeptFrame
  <2> QED
    BY <2>1, <2>2
<1>2. ASSUME UNCHANGED streamVars
      PROVE  \A q \in Requests : KeptInv(q)'
  BY <1>2 DEF streamVars, KeptInv
<1> QED
  BY <1>1, <1>2, OthersLeaveStreams

LEMMA InitKept == Init => \A r \in Requests : KeptInv(r)
<1>1. ASSUME Init, NEW r \in Requests
      PROVE  KeptInv(r)
  <2>1. stream[r] = "none" /\ heard[r] = <<>> /\ acc[r] = Blank /\ saved[r] = <<>>
    BY <1>1 DEF Init
  <2> QED
    BY <2>1, NothingAccounted DEF KeptInv
<1> QED
  BY <1>1

LEMMA KeptAnswer ==
  ASSUME Types, \A r \in Requests : KeptInv(r)
  PROVE  AnswerKept
<1> SUFFICES ASSUME NEW r \in Requests
             PROVE  /\ ToSet(Kept(r)) \subseteq DOMAIN heard[r]
                    /\ InOrder(r) /\ NothingLost(r)
                    /\ stream[r] = "again" => IsSuffix(Built(acc[r]), saved[r])
                    /\ stream[r] = "flushing" => acc[r] = Blank
  BY DEF AnswerKept
<1> DEFINE k == Kept(r)
<1>1. /\ heard[r] \in Seq(Item) /\ saved[r] \in Seq(Nat) /\ acc[r] \in Accumulator
  BY DEF Types, StreamTypes
<1>2. KeptInv(r)
  OBVIOUS
<1>3. /\ Ordered(heard[r], k) /\ ToSet(k) \subseteq DOMAIN heard[r]
      /\ AllCovered(heard[r], ToSet(k))
      /\ k \in Seq(Nat)
      /\ \A i, j \in DOMAIN k : i <= Len(saved[r]) /\ j > Len(saved[r]) => k[i] < k[j]
  <2>1. CASE stream[r] = "again"
    <3>1. k = saved[r]
      BY <2>1 DEF Kept
    <3>2. \A j \in DOMAIN k : ~(j > Len(saved[r]))
      BY <1>1, <3>1
    <3> QED
      BY <1>1, <1>2, <2>1, <3>1, <3>2 DEF KeptInv
  <2>2. CASE stream[r] # "again"
    <3>1. k = saved[r] \o Built(acc[r])
      BY <2>2 DEF Kept
    <3>2. Accounted(heard[r], saved[r], acc[r])
      BY <1>2, <2>2 DEF KeptInv
    <3> HIDE DEF k
    <3> QED
      BY <1>1, <3>1, <3>2, KeptOrdered, StoredAccounted
  <2> QED
    BY <2>1, <2>2
<1> HIDE DEF k
<1>4. InOrder(r)
  <2>1. ASSUME NEW i \in DOMAIN k, NEW j \in DOMAIN k, i < j
        PROVE  \/ k[i] < k[j]
               \/ /\ k[j] < k[i] /\ KindOf(r, k[j]) = "call"
                  /\ i > Len(saved[r]) \/ j <= Len(saved[r])
    <3>1. i \in Nat /\ j \in Nat /\ Len(saved[r]) \in Nat
      BY <1>1, <1>3
    <3> QED
      BY <1>3, <2>1, <3>1 DEF Ordered, KindOf
  <2> QED
    BY <2>1 DEF InOrder, k
<1>5. NothingLost(r)
  BY <1>3 DEF NothingLost, AllCovered, Covered, Replaced, Answered, KindOf, k
<1> QED
  BY <1>2, <1>3, <1>4, <1>5 DEF KeptInv, k

THEOREM KeptInvariance == Spec => [](IInv /\ \A r \in Requests : KeptInv(r))
<1>1. Init => IInv /\ \A r \in Requests : KeptInv(r)
  BY InitInv, InitKept
<1>2. /\ IInv /\ \A r \in Requests : KeptInv(r)
      /\ [Next]_vars
      => (IInv /\ \A r \in Requests : KeptInv(r))'
  <2>1. IInv /\ [Next]_vars => Types /\ Types'
    BY NextInv, IInvParts
  <2>2. Types' => IInv'
    BY DEF IInv, Types, Counted, ChatInv, BackInv, RunInv, TypeOK, ChatTypes,
       BackTypes, StreamTypes, RunTypes, SenderTypes
  <2> QED
    BY <2>1, <2>2, NextKept
<1> QED
  BY <1>1, <1>2, PTL DEF Spec

(* Whatever streams, tools, plugins and others send, and whenever the      *)
(* stream is cut: what it has taken and accumulated is saved or about to   *)
(* be, once and in order but for what AnswerKept excepts.                  *)
THEOREM AnswerTheorem == Spec => []AnswerKept
<1>1. IInv /\ (\A r \in Requests : KeptInv(r)) => AnswerKept
  BY KeptAnswer, IInvParts
<1> QED
  BY <1>1, KeptInvariance, PTL
=============================================================================
