--------------------------- MODULE WebChatQueues ---------------------------
(***************************************************************************)
(* The queue manager of the web chat, for one conversation.                *)
(*                                                                         *)
(* The dashboard puts requests on the conversation's chat queue, where a   *)
(* listener task of the adapter takes them; the answers come back on one   *)
(* back queue per request.  Removing a queue takes it out of its table,    *)
(* while whoever holds the object goes on using it, so every queue that is *)
(* ever made has a number of its own.                                      *)
(*   current   the chat queue in the table `queues', or 0                  *)
(*   made      how many chat queues were made                              *)
(*   inbox     the requests in each chat queue                             *)
(*   closed    its close event                                             *)
(*   listener  its listener: "leaving" when its loop is over and the task  *)
(*             is not yet out of the table                                 *)
(*   hand      the request whose callback the listener waits for           *)
(*   entry     the listener in the table `_listener_tasks', or 0           *)
(*   back      the queue `back_queues' holds for a request, or 0           *)
(*   opened    how many back queues were made for it                       *)
(*   items     what is in each of them                                     *)
(***************************************************************************)
EXTENDS Naturals, Sequences, SequencesExt

CONSTANTS Requests,     \* the messages a user posts in the conversation
          NoRequest,
          MaxOutside,   \* bound on removals of the queues, and see WebChat
          Cap           \* back_queue_maxsize

ASSUME QueuesAssumption ==
  NoRequest \notin Requests /\ MaxOutside \in Nat /\ Cap \in Nat \ {0}

VARIABLES current, made, inbox, closed, listener, hand, entry,
          back, opened, items

chatVars == <<current, made, inbox, closed, listener, hand, entry>>
backVars == <<back, opened, items>>

(* A chat queue is made when there is none, so after a removal; a back     *)
(* queue at first, after the end of its stream, and after a removal.       *)
Chats == 1..(1 + MaxOutside)
Backs == 1..(2 + MaxOutside)

QueuesInit ==
  /\ current = 0 /\ made = 0 /\ entry = 0
  /\ inbox = [c \in Chats |-> <<>>]
  /\ closed = [c \in Chats |-> FALSE]
  /\ listener = [c \in Chats |-> "none"]
  /\ hand = [c \in Chats |-> NoRequest]
  /\ back = [r \in Requests |-> 0]
  /\ opened = [r \in Requests |-> 0]
  /\ items = [r \in Requests |-> [b \in Backs |-> <<>>]]

Listening(c) == listener[c] \in {"waiting", "calling"}

(* _start_listener_if_needed: the table has none, or one that is done.     *)
NeedsListener == entry = 0 \/ ~Listening(entry)

(* get_or_create_queue, which starts a listener, and put.                  *)
PutChat(r) ==
  \/ /\ current # 0
     /\ inbox' = [inbox EXCEPT ![current] = Append(@, r)]
     /\ UNCHANGED <<current, made, closed, listener, hand, entry>>
  \/ /\ current = 0
     /\ LET c == made + 1
        IN /\ current' = c /\ made' = c
           /\ inbox' = [inbox EXCEPT ![c] = <<r>>]
           /\ listener' = IF NeedsListener THEN [listener EXCEPT ![c] = "waiting"]
                          ELSE listener
           /\ entry' = IF NeedsListener THEN c ELSE entry
     /\ UNCHANGED <<closed, hand>>

(* The listener takes a request and calls the adapter.                     *)
Fetch(c) ==
  /\ listener[c] = "waiting" /\ ~closed[c] /\ inbox[c] # <<>>
  /\ hand' = [hand EXCEPT ![c] = Head(inbox[c])]
  /\ inbox' = [inbox EXCEPT ![c] = Tail(@)]
  /\ listener' = [listener EXCEPT ![c] = "calling"]
  /\ UNCHANGED <<current, made, closed, entry>>

(* The callback has returned or raised: the loop goes on.                  *)
Called(c) ==
  /\ listener[c] = "calling"
  /\ hand' = [hand EXCEPT ![c] = NoRequest]
  /\ listener' = [listener EXCEPT ![c] = "waiting"]
  /\ UNCHANGED <<current, made, inbox, closed, entry>>

SeeClosed(c) ==
  /\ listener[c] = "waiting" /\ closed[c]
  /\ listener' = [listener EXCEPT ![c] = "leaving"]
  /\ UNCHANGED <<current, made, inbox, closed, hand, entry>>

(* The done callback of a listener task removes the entry of its           *)
(* conversation, whichever task that holds by now.                         *)
Depart(c) ==
  /\ listener[c] = "leaving"
  /\ listener' = [listener EXCEPT ![c] = "gone"]
  /\ entry' = 0
  /\ UNCHANGED <<current, made, inbox, closed, hand>>

(* Mutant of RemoveChat: the listener's task stays in the table.           *)
RemoveChatOnly ==
  /\ current' = 0
  /\ closed' = IF current = 0 THEN closed ELSE [closed EXCEPT ![current] = TRUE]
  /\ UNCHANGED <<made, inbox, listener, hand, entry>>

(* remove_queue: close the queue and cancel the task in the table.         *)
RemoveChat ==
  /\ current' = 0
  /\ closed' = IF current = 0 THEN closed ELSE [closed EXCEPT ![current] = TRUE]
  /\ entry' = 0
  /\ IF entry # 0 /\ Listening(entry)
     THEN /\ listener' = [listener EXCEPT ![entry] = "leaving"]
          /\ hand' = [hand EXCEPT ![entry] = NoRequest]
     ELSE UNCHANGED <<listener, hand>>
  /\ UNCHANGED <<made, inbox>>

(* The requests that get lost with it.                                     *)
LostWithChat ==
  (IF current = 0 THEN {} ELSE ToSet(inbox[current])) \cup
  (IF entry = 0 THEN {} ELSE {hand[entry]})

(* get_or_create_back_queue                                                *)
BackOf(r) == IF back[r] = 0 THEN opened[r] + 1 ELSE back[r]

(* Mutant of OpenBack: an existing queue is counted again.                 *)
OpenBackAgain(r) ==
  /\ back' = [back EXCEPT ![r] = BackOf(r)]
  /\ opened' = [opened EXCEPT ![r] = @ + 1]

OpenBack(r) ==
  /\ back' = [back EXCEPT ![r] = BackOf(r)]
  /\ opened' = [opened EXCEPT ![r] = IF back[r] = 0 THEN @ + 1 ELSE @]

Room(r, b) == Len(items[r][b]) < Cap

(* remove_back_queue                                                       *)
RemoveBack(r) ==
  /\ back' = [back EXCEPT ![r] = 0]
  /\ UNCHANGED <<opened, items>>

(* list_back_request_ids                                                   *)
ActiveRequests == {r \in Requests : back[r] # 0}

(* remove_queues                                                           *)
RemoveQueues ==
  /\ RemoveChat
  /\ back' = [r \in Requests |-> 0]
  /\ UNCHANGED <<opened, items>>
=============================================================================
