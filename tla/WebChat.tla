------------------------------ MODULE WebChat ------------------------------
(***************************************************************************)
(* One conversation of the web chat: the requests of its users, the        *)
(* streams that show and save the answers, the tasks that produce them     *)
(* under the session lock or are captured by the one that has it, messages *)
(* sent to the conversation by others, and the removal of its queues when  *)
(* it is deleted.                                                          *)
(*                                                                         *)
(*   stream   the request handler: "posting" until it takes an item,       *)
(*            "open" while it reads, "storing" while it saves, "ending"    *)
(*            when that is after the end, then its finally: "flushing"     *)
(*            after the end, "dropping" when it was cut, "again" when it   *)
(*            was cut while it saved and the insertion was committed       *)
(*   heard    the items an open stream has taken and accumulated, a        *)
(*            history; the place of an item in it stands for the item in   *)
(*            acc and saved                                                *)
(*   acc      the message accumulator: its parts, pending text and calls   *)
(*   saved    what the stream has inserted, in its order, a history        *)
(*   run      the task of the request's event: "captured" by a running     *)
(*            agent, waiting for its "turn" after that, "activated" when   *)
(*            the turn has come, or "left" by a run that broke off         *)
(*   order    the captured requests that are not finished                  *)
(*   count    how many pieces the task has sent                            *)
(*   called   its last tool call if that has no result yet, or 0           *)
(*   sink     the back queue send_streaming took at its start              *)
(*   holder   the owner of the session lock                                *)
(*   pending  the put that waits for room: its item and its queue          *)
(*   notice   a message from others                                        *)
(*   todo     the requests it is still to be sent to                       *)
(*   told     the queue that is still to get its "complete"                *)
(*   outside  how many such messages and removals there were               *)
(*   cast     who takes part, fixed at the start                           *)
(***************************************************************************)
EXTENDS WebChatQueues

CONSTANTS Notices,      \* messages sent to the conversation by others
          Sockets,      \* the requests that use a web socket
          Streamed,     \* the requests with enable_streaming
          MaxPieces,    \* bound on the pieces a task sends
          Casts,        \* who takes part, and in what
          Nothing

(* Streamed text; a streamed thought or attachment; text and attachments   *)
(* (or thoughts) sent whole; a tool call and its result; the "complete" of *)
(* a streamed answer; the end of the request.                              *)
Kinds == {"delta", "part", "text", "media", "call", "result", "complete", "end"}

(* Who posts, whose message may reach the bus and whose stream may be cut, *)
(* how many pieces each task may send and of which kinds, and how many     *)
(* messages from others and removals there may be.                         *)
Cast == [posts : SUBSET Requests, arrive : SUBSET Requests, cuts : SUBSET Requests,
         pieces : 0..MaxPieces, kinds : SUBSET Kinds, outside : 0..MaxOutside]

ASSUME ChatAssumption ==
  /\ Sockets \subseteq Requests /\ Streamed \subseteq Requests
  /\ MaxPieces \in Nat
  /\ Casts \subseteq Cast
  /\ Notices \cap Requests = {} /\ NoRequest \notin Notices

VARIABLES stream, heard, acc, saved, run, order, count, called, sink, holder,
          pending, notice, todo, told, outside, cast

streamVars == <<stream, heard, acc, saved>>
runVars    == <<run, order, count, called, sink, holder>>
noticeVars == <<notice, todo, told>>
bounds     == <<outside, cast>>
vars == <<chatVars, backVars, streamVars, runVars, pending, noticeVars, bounds>>

(* An item, and which tool call it is or answers.                          *)
Item == [kind : Kinds, id : 0..MaxPieces]
Plain(kind) == [kind |-> kind, id |-> 0]

Accumulator == [parts : Seq(Nat), text : Seq(Nat), calls : Seq(Nat)]
Blank == [parts |-> <<>>, text |-> <<>>, calls |-> <<>>]

Init ==
  /\ QueuesInit
  /\ stream = [r \in Requests |-> "none"]
  /\ heard = [r \in Requests |-> <<>>]
  /\ acc = [r \in Requests |-> Blank]
  /\ saved = [r \in Requests |-> <<>>]
  /\ run = [r \in Requests |-> "none"]
  /\ order = <<>>
  /\ count = [r \in Requests |-> 0]
  /\ called = [r \in Requests |-> 0]
  /\ sink = [r \in Requests |-> 0]
  /\ holder = NoRequest
  /\ pending = [s \in Requests \cup Notices |-> Nothing]
  /\ notice = [p \in Notices |-> "none"]
  /\ todo = [p \in Notices |-> {}]
  /\ told = [p \in Notices |-> Nothing]
  /\ outside = 0
  /\ cast \in Casts

-----------------------------------------------------------------------------
(* The message accumulator.                                                *)

(* _flush_pending_text                                                     *)
Flushed(a) == [parts |-> a.parts \o a.text, text |-> <<>>, calls |-> a.calls]

(* The sequence s without one of the places in `at', if there is any.      *)
WithoutOne(s, at) == IF at = {} THEN s ELSE RemoveAt(s, CHOOSE i \in at : TRUE)

(* pending_tool_calls.pop: the call the result is of, if it is pending.    *)
Popped(calls, taken, id) ==
  WithoutOne(calls, {i \in DOMAIN calls : taken[calls[i]].id = id})

(* add_plain and add_attachment: item n comes after those taken before.    *)
Added(a, taken, item, n) ==
  CASE item.kind = "delta"  -> [a EXCEPT !.text = Append(@, n)]
    [] item.kind = "text"   -> [a EXCEPT !.text = <<n>>]
    [] item.kind \in {"part", "media"} ->
         [Flushed(a) EXCEPT !.parts = Append(@, n)]
    [] item.kind = "call"   -> [Flushed(a) EXCEPT !.calls = Append(@, n)]
    [] item.kind = "result" ->
         [Flushed(a) EXCEPT !.parts = Append(@, n),
                            !.calls = Popped(@, taken, item.id)]
    [] OTHER -> a

(* build_message_parts: the tool calls that are still pending come last.   *)
Built(a) == Flushed(a).parts \o a.calls

-----------------------------------------------------------------------------
(* The stream of a request.                                                *)

Reading(r) == stream[r] \in {"posting", "open", "storing", "ending"}

(* chat: open the back queue and put the message on the chat queue.        *)
Post(r) ==
  /\ stream[r] = "none" /\ r \in cast.posts
  /\ OpenBack(r)
  /\ PutChat(r)
  /\ stream' = [stream EXCEPT ![r] = "posting"]
  /\ run' = [run EXCEPT ![r] = "posted"]
  /\ UNCHANGED <<items, heard, acc, saved, order, count, called, sink, holder,
                 pending, noticeVars, bounds>>

(* Saving the user's message fails, or the client leaves during it: a web  *)
(* socket's handler removes the back queue, but the stream of a plain      *)
(* request, which would, never runs.                                       *)
UserNotSaved(r) ==
  /\ stream[r] = "posting" /\ r \in cast.cuts
  /\ stream' = [stream EXCEPT ![r] = "failed"]
  /\ IF r \in Sockets THEN RemoveBack(r) ELSE UNCHANGED backVars
  /\ UNCHANGED <<chatVars, heard, acc, saved, runVars, pending, noticeVars,
                 bounds>>

ShouldSave(item, a) ==
  item.kind \in {"text", "media", "complete", "end"} /\ a # Blank

(* Take an item, show it to the client, accumulate it, then save or end.   *)
Receive(r) ==
  /\ stream[r] \in {"posting", "open"}
  /\ items[r][1] # <<>>
  /\ items' = [items EXCEPT ![r][1] = Tail(@)]
  /\ LET item == Head(items[r][1])
         a    == Added(acc[r], heard[r], item, Len(heard[r]) + 1)
         last == item.kind = "end"
     IN /\ heard' = [heard EXCEPT ![r] = Append(@, item)]
        /\ acc' = [acc EXCEPT ![r] = a]
        /\ stream' = [stream EXCEPT
             ![r] = IF ShouldSave(item, a)
                    THEN IF last THEN "ending" ELSE "storing"
                    ELSE IF last THEN "flushing" ELSE "open"]
  /\ UNCHANGED <<chatVars, back, opened, saved, runVars, pending, noticeVars,
                 bounds>>

AfterStore(r) == IF stream[r] = "ending" THEN "flushing" ELSE "open"

(* Mutant of Store: the accumulator is not renewed.                        *)
StoreAndKeep(r) ==
  /\ stream[r] \in {"storing", "ending"}
  /\ saved' = [saved EXCEPT ![r] = @ \o Built(acc[r])]
  /\ stream' = [stream EXCEPT ![r] = AfterStore(r)]
  /\ UNCHANGED <<chatVars, backVars, heard, acc, runVars, pending, noticeVars,
                 bounds>>

(* flush_pending_bot_message, and the end of the loop after an end.        *)
Store(r) ==
  /\ stream[r] \in {"storing", "ending"}
  /\ saved' = [saved EXCEPT ![r] = @ \o Built(acc[r])]
  /\ acc' = [acc EXCEPT ![r] = Blank]
  /\ stream' = [stream EXCEPT ![r] = AfterStore(r)]
  /\ UNCHANGED <<chatVars, backVars, heard, runVars, pending, noticeVars,
                 bounds>>

(* The client leaves or interrupts, sending to it fails, or saving fails.  *)
(* An item that was taken and not accumulated counts as not taken: nobody  *)
(* takes it now.  A cut insertion may still be committed.                  *)
Cut(r) ==
  /\ Reading(r) /\ r \in cast.cuts
  /\ \/ /\ stream' = [stream EXCEPT ![r] = "dropping"]
        /\ UNCHANGED saved
     \/ /\ stream[r] \in {"storing", "ending"}
        /\ saved' = [saved EXCEPT ![r] = @ \o Built(acc[r])]
        /\ stream' = [stream EXCEPT ![r] = "again"]
  /\ UNCHANGED <<chatVars, backVars, heard, acc, runVars, pending, noticeVars,
                 bounds>>

(* The finally: save what is accumulated, and remove the back queue.  The  *)
(* histories of the stream end here.                                       *)
Finish(r) ==
  /\ stream[r] \in {"flushing", "dropping", "again"}
  /\ stream' = [stream EXCEPT
       ![r] = IF stream[r] = "flushing" THEN "closed" ELSE "cut"]
  /\ heard' = [heard EXCEPT ![r] = <<>>]
  /\ acc' = [acc EXCEPT ![r] = Blank]
  /\ saved' = [saved EXCEPT ![r] = <<>>]
  /\ RemoveBack(r)
  /\ UNCHANGED <<chatVars, runVars, pending, noticeVars, bounds>>

-----------------------------------------------------------------------------
(* The listener.                                                           *)

ListenerStep(c) ==
  /\ Fetch(c) \/ SeeClosed(c) \/ Depart(c)
  /\ UNCHANGED <<backVars, streamVars, runVars, pending, noticeVars, bounds>>

(* handle_msg puts the event on the bus, or converting the message fails.  *)
Deliver(c) ==
  /\ Called(c)
  /\ \/ hand[c] \in cast.arrive /\ run' = [run EXCEPT ![hand[c]] = "dispatched"]
     \/ run' = [run EXCEPT ![hand[c]] = "lost"]
  /\ UNCHANGED <<backVars, streamVars, order, count, called, sink, holder,
                 pending, noticeVars, bounds>>

-----------------------------------------------------------------------------
(* Putting an item on a back queue, which waits while the queue is full.   *)

Put(s, r, b, item) ==
  \/ /\ Room(r, b)
     /\ items' = [items EXCEPT ![r][b] = Append(@, item)]
     /\ UNCHANGED pending
  \/ /\ ~Room(r, b)
     /\ pending' = [pending EXCEPT ![s] = [to |-> r, queue |-> b, item |-> item]]
     /\ UNCHANGED items

Free(s) == pending[s] = Nothing

(* There is room: the put that waits is done.                              *)
Resume(s) ==
  /\ ~Free(s)
  /\ LET p == pending[s]
     IN /\ Room(p.to, p.queue)
        /\ items' = [items EXCEPT ![p.to][p.queue] = Append(@, p.item)]
  /\ pending' = [pending EXCEPT ![s] = Nothing]
  /\ UNCHANGED <<chatVars, back, opened, streamVars, runVars, noticeVars,
                 bounds>>

(* WebChatMessageEvent._send of a chain with one component.                *)
SendTo(s, r, item) == OpenBack(r) /\ Put(s, r, BackOf(r), item)

-----------------------------------------------------------------------------
(* The task of an event.                                                   *)

Goto(r, label) == run' = [run EXCEPT ![r] = label]

(* finalize_follow_up_capture                                              *)
Leave(r) == order' = WithoutOne(order, {i \in DOMAIN order : order[i] = r})

(* try_capture_follow_up: the agent that runs takes the message.           *)
Capture(r) ==
  /\ run[r] = "dispatched" /\ Free(r) /\ holder # NoRequest
  /\ Goto(r, "captured")
  /\ order' = Append(order, r)
  /\ UNCHANGED <<chatVars, backVars, streamVars, count, called, sink, holder,
                 pending, noticeVars, bounds>>

(* It goes into a tool result, and its own task ends.                      *)
Merge(r) ==
  /\ run[r] = "captured"
  /\ Goto(r, "ending")
  /\ Leave(r)
  /\ UNCHANGED <<chatVars, backVars, streamVars, count, called, sink, holder,
                 pending, noticeVars, bounds>>

(* The agent of r is done, and returns the tickets it did not merge.       *)
ReturnTickets(r) ==
  /\ holder = r /\ \E q \in Requests : run[q] = "captured"
  /\ run' = [q \in Requests |-> IF run[q] = "captured" THEN "turn" ELSE run[q]]
  /\ UNCHANGED <<chatVars, backVars, streamVars, order, count, called, sink,
                 holder, pending, noticeVars, bounds>>

(* prepare_follow_up_capture: the ticket was returned, and then one waits  *)
(* to be the first of those that are not finished.                         *)
TakeTurn(r) ==
  /\ run[r] = "turn" /\ Head(order) = r
  /\ Goto(r, "activated")
  /\ UNCHANGED <<chatVars, backVars, streamVars, order, count, called, sink,
                 holder, pending, noticeVars, bounds>>

(* A plugin stops the message, or nothing answers it.                      *)
PassOver(r) ==
  /\ run[r] \in {"dispatched", "activated"} /\ Free(r)
  /\ Goto(r, "ending")
  /\ Leave(r)
  /\ UNCHANGED <<chatVars, backVars, streamVars, count, called, sink, holder,
                 pending, noticeVars, bounds>>

(* The agent answers under the session lock, in whole messages or through  *)
(* send_streaming, which opens the back queue first.                       *)
Begin(r) ==
  /\ run[r] \in {"dispatched", "activated"} /\ Free(r)
  /\ holder = NoRequest
  /\ holder' = r
  /\ IF r \in Streamed
     THEN /\ Goto(r, "streaming")
          /\ OpenBack(r)
          /\ sink' = [sink EXCEPT ![r] = BackOf(r)]
     ELSE Goto(r, "speaking") /\ UNCHANGED <<back, opened, sink>>
  /\ UNCHANGED <<chatVars, items, streamVars, order, count, called, pending,
                 noticeVars, bounds>>

(* The agent, its tools and the hooks send on the same back queue.  Before *)
(* and after the agent only plugins send.                                  *)
Sayable(r) ==
  LET whole == {"text", "media"}
      tools == {"call"} \cup (IF called[r] = 0 THEN {} ELSE {"result"})
  IN CASE run[r] = "streaming" -> {"delta", "part"} \cup whole \cup tools
       [] run[r] = "speaking"  -> whole \cup tools
       [] run[r] \in {"dispatched", "activated", "answered", "ending"} -> whole
       [] OTHER -> {}

Say(r) ==
  /\ Free(r) /\ count[r] < cast.pieces
  /\ count' = [count EXCEPT ![r] = @ + 1]
  /\ \E kind \in Sayable(r) \cap cast.kinds :
       LET id == IF kind = "call" THEN count[r] + 1
                 ELSE IF kind = "result" THEN called[r] ELSE 0
       IN /\ SendTo(r, r, [kind |-> kind, id |-> id])
          /\ called' = [called EXCEPT ![r] = IF kind = "call" THEN id
                                             ELSE IF kind = "result" THEN 0
                                             ELSE @]
  /\ UNCHANGED <<chatVars, streamVars, run, order, sink, holder, noticeVars,
                 bounds>>

(* The generator is exhausted: "complete" goes to the queue of the start.  *)
Complete(r) ==
  /\ run[r] = "streaming" /\ Free(r)
  /\ Put(r, r, sink[r], Plain("complete"))
  /\ Goto(r, "answered")
  /\ sink' = [sink EXCEPT ![r] = 0]
  /\ UNCHANGED <<chatVars, back, opened, streamVars, order, count, called,
                 holder, noticeVars, bounds>>

(* Mutant of Release: the lock is kept.                                    *)
ReleaseNothing(r) ==
  /\ run[r] \in {"speaking", "answered"} /\ Free(r)
  /\ Goto(r, "ending")
  /\ Leave(r)
  /\ UNCHANGED <<chatVars, backVars, streamVars, count, called, sink, holder,
                 pending, noticeVars, bounds>>

(* The run of r is over, and the lock is free.  The follow-ups that were   *)
(* captured and not merged have got their tickets back by now, unless the  *)
(* run broke off: then nobody resolves their tickets.                      *)
Over(r, label) ==
  /\ holder' = NoRequest
  /\ Leave(r)
  /\ \E outcome \in {"turn", "left"} :
       run' = [q \in Requests |-> IF q = r THEN label
                                  ELSE IF run[q] = "captured" THEN outcome
                                  ELSE run[q]]

Release(r) ==
  /\ run[r] \in {"speaking", "answered"} /\ Free(r)
  /\ Over(r, "ending")
  /\ UNCHANGED <<chatVars, backVars, streamVars, count, called, sink, pending,
                 noticeVars, bounds>>

(* A piece cannot be sent, say a file that is gone: the exception leaves   *)
(* send_streaming and the pipeline, which sends no end.                    *)
Fail(r) ==
  /\ run[r] = "streaming" /\ Free(r)
  /\ Over(r, "lost")
  /\ sink' = [sink EXCEPT ![r] = 0]
  /\ UNCHANGED <<chatVars, backVars, streamVars, count, called, pending,
                 noticeVars, bounds>>

(* The pipeline is over: send(None).                                       *)
End(r) ==
  /\ run[r] = "ending" /\ Free(r)
  /\ SendTo(r, r, Plain("end"))
  /\ Goto(r, "over")
  /\ UNCHANGED <<chatVars, streamVars, order, count, called, sink, holder,
                 noticeVars, bounds>>

-----------------------------------------------------------------------------
(* send_by_session: to the active streams, and else straight to the        *)
(* history.  A passive subscription is shown a message that is also saved. *)

Notify(p) ==
  /\ notice[p] = "none" /\ outside < cast.outside
  /\ outside' = outside + 1
  /\ notice' = [notice EXCEPT ![p] =
       IF ActiveRequests = {} THEN "saved" ELSE "sending"]
  /\ todo' = [todo EXCEPT ![p] = ActiveRequests]
  /\ UNCHANGED <<chatVars, backVars, streamVars, runVars, pending, told, cast>>

(* _send to one of them: the message, and a separate "complete" for it on  *)
(* the same queue, with whatever else comes on that queue between.         *)
Tell(p) ==
  /\ notice[p] = "sending" /\ Free(p) /\ told[p] = Nothing
  /\ \E r \in todo[p], kind \in {"delta", "part"} \cap cast.kinds :
       /\ SendTo(p, r, Plain(kind))
       /\ todo' = [todo EXCEPT ![p] = @ \ {r}]
       /\ told' = [told EXCEPT ![p] = [to |-> r, queue |-> BackOf(r)]]
  /\ UNCHANGED <<chatVars, streamVars, runVars, notice, bounds>>

TellComplete(p) ==
  /\ Free(p) /\ told[p] # Nothing
  /\ Put(p, told[p].to, told[p].queue, Plain("complete"))
  /\ told' = [told EXCEPT ![p] = Nothing]
  /\ UNCHANGED <<chatVars, back, opened, streamVars, runVars, notice, todo,
                 bounds>>

(* A component cannot be converted: the exception leaves the loop.         *)
TellFails(p) ==
  /\ notice[p] = "sending" /\ Free(p)
  /\ notice' = [notice EXCEPT ![p] = "failed"]
  /\ todo' = [todo EXCEPT ![p] = {}]
  /\ told' = [told EXCEPT ![p] = Nothing]
  /\ UNCHANGED <<chatVars, backVars, streamVars, runVars, pending, bounds>>

(* _delete_session_internal removes the queues of the conversation; its    *)
(* runs go on.                                                             *)
Delete ==
  /\ outside < cast.outside
  /\ outside' = outside + 1
  /\ run' = [r \in Requests |-> IF r \in LostWithChat THEN "lost" ELSE run[r]]
  /\ RemoveQueues
  /\ UNCHANGED <<streamVars, order, count, called, sink, holder, pending,
                 noticeVars, cast>>

-----------------------------------------------------------------------------
StreamStep(r) ==
  Receive(r) \/ Store(r) \/ Finish(r)

Answer(r) == TakeTurn(r) \/ Begin(r) \/ Complete(r) \/ Release(r) \/ End(r)

Next ==
  \/ \E r \in Requests :
       \/ Post(r) \/ UserNotSaved(r) \/ Cut(r) \/ StreamStep(r)
       \/ Capture(r) \/ Merge(r) \/ ReturnTickets(r) \/ PassOver(r)
       \/ Answer(r) \/ Say(r) \/ Fail(r)
  \/ \E c \in Chats : ListenerStep(c) \/ Deliver(c)
  \/ \E p \in Notices : Notify(p) \/ Tell(p) \/ TellComplete(p) \/ TellFails(p)
  \/ \E s \in Requests \cup Notices : Resume(s)
  \/ Delete

Spec == Init /\ [][Next]_vars

(* The event loop runs every ready task, and requests to the model and the *)
(* database end.  Nothing makes a user post, leave or delete, an agent or  *)
(* a plugin say anything, a message be captured, merged or passed over, or *)
(* a piece fail.                                                           *)
Fairness ==
  /\ \A r \in Requests : WF_vars(StreamStep(r)) /\ WF_vars(Answer(r))
  /\ \A c \in Chats : WF_vars(ListenerStep(c)) /\ WF_vars(Deliver(c))
  /\ \A s \in Requests \cup Notices : WF_vars(Resume(s))

FairSpec == Spec /\ Fairness
-----------------------------------------------------------------------------
(* Properties.                                                             *)

StreamStates == {"none", "posting", "open", "storing", "ending", "flushing",
                 "dropping", "again", "closed", "cut", "failed"}
RunStates == {"none", "posted", "dispatched", "captured", "turn", "left",
              "activated", "speaking", "streaming", "answered", "ending",
              "over", "lost"}
ListenerStates == {"none", "waiting", "calling", "leaving", "gone"}

(* Every variable has its type.                                            *)
TypeOK ==
  /\ current \in Chats \cup {0} /\ made \in Chats \cup {0}
  /\ entry \in Chats \cup {0}
  /\ inbox \in [Chats -> Seq(Requests)]
  /\ closed \in [Chats -> BOOLEAN]
  /\ listener \in [Chats -> ListenerStates]
  /\ hand \in [Chats -> Requests \cup {NoRequest}]
  /\ back \in [Requests -> Backs \cup {0}]
  /\ opened \in [Requests -> Backs \cup {0}]
  /\ items \in [Requests -> [Backs -> Seq(Item)]]
  /\ stream \in [Requests -> StreamStates]
  /\ heard \in [Requests -> Seq(Item)]
  /\ acc \in [Requests -> Accumulator]
  /\ saved \in [Requests -> Seq(Nat)]
  /\ run \in [Requests -> RunStates]
  /\ order \in Seq(Requests)
  /\ count \in [Requests -> 0..MaxPieces]
  /\ called \in [Requests -> 0..MaxPieces]
  /\ sink \in [Requests -> Backs \cup {0}]
  /\ holder \in Requests \cup {NoRequest}
  /\ pending \in [Requests \cup Notices ->
       [to : Requests, queue : Backs, item : Item] \cup {Nothing}]
  /\ notice \in [Notices -> {"none", "saved", "sending", "failed"}]
  /\ todo \in [Notices -> SUBSET Requests]
  /\ told \in [Notices -> [to : Requests, queue : Backs] \cup {Nothing}]
  /\ outside \in 0..MaxOutside
  /\ cast \in Cast

(* The chat queue that new messages go to has a listener that takes them,  *)
(* and no other listener goes on: whatever the done callback of an earlier *)
(* listener removes from the table.                                        *)
QueueHasListener ==
  /\ current # 0 => Listening(current) /\ ~closed[current]
  /\ \A c \in Chats : Listening(c) /\ c # current => closed[c]

(* What a stream has saved and is about to save; what it saves again after *)
(* a cut insertion that was committed is not counted twice.                *)
Kept(r) == IF stream[r] = "again" THEN saved[r] ELSE saved[r] \o Built(acc[r])

KindOf(r, n) == heard[r][n].kind

(* What is kept is there once and in the order in which it came, but for a *)
(* tool call without a result, which comes after text that followed it; it *)
(* does not come after a message saved before it.                          *)
InOrder(r) ==
  \A i, j \in DOMAIN Kept(r) :
    i < j => \/ Kept(r)[i] < Kept(r)[j]
             \/ /\ Kept(r)[j] < Kept(r)[i]
                /\ KindOf(r, Kept(r)[j]) = "call"
                /\ i > Len(saved[r]) \/ j <= Len(saved[r])

(* A streamed text is given up for a whole one that came right behind it,  *)
(* and a tool call is shown with its result.                               *)
Replaced(r, n) ==
  \E m \in ToSet(Kept(r)) :
    /\ n < m /\ KindOf(r, m) = "text"
    /\ \A k \in n..(m - 1) : KindOf(r, k) = "delta"

Answered(r, n) ==
  /\ KindOf(r, n) = "call"
  /\ \E m \in ToSet(Kept(r)) :
       n < m /\ KindOf(r, m) = "result" /\ heard[r][m].id = heard[r][n].id

NothingLost(r) ==
  \A n \in DOMAIN heard[r] :
    \/ n \in ToSet(Kept(r)) \/ KindOf(r, n) \in {"complete", "end"}
    \/ Replaced(r, n) \/ Answered(r, n)

(* Whenever its stream is cut or ends, whatever it has accumulated of its  *)
(* queue is saved or about to be, once and in order, with the exceptions   *)
(* above: text replaced by a whole message behind it, and tool calls, late *)
(* or shown with their results.  Only a message whose insertion was cut    *)
(* may be there again, as the last; and nothing is left to save at the end.*)
AnswerKept ==
  \A r \in Requests :
    /\ ToSet(Kept(r)) \subseteq DOMAIN heard[r]
    /\ InOrder(r) /\ NothingLost(r)
    /\ stream[r] = "again" => IsSuffix(Built(acc[r]), saved[r])
    /\ stream[r] = "flushing" => acc[r] = Blank

(* A task of the conversation waits for room in a queue nobody reads.      *)
Stuck ==
  \E s \in Requests \cup Notices :
    /\ ~Free(s)
    /\ pending[s].queue # 1 \/ ~Reading(pending[s].to)

Ended(r) == stream[r] \in {"closed", "cut", "failed"}

(* The run that captured the request broke off, or one that waits in front *)
(* of it has been left like that.                                          *)
Abandoned(r) ==
  /\ run[r] \in {"turn", "left"}
  /\ \E i, j \in DOMAIN order :
       i <= j /\ order[j] = r /\ run[order[i]] = "left"

(* Every message comes to the end of its pipeline and its stream to its    *)
(* own: unless the message was lost with its chat queue or its task failed,*)
(* it was captured by a run that broke off or waits behind one that was,   *)
(* the back queue was taken out of the table, or the conversation is stuck.*)
Finished ==
  \A r \in Requests :
    stream[r] # "none" ~>
      \/ run[r] = "over" /\ (Ended(r) \/ back[r] # 1)
      \/ run[r] = "lost"
      \/ Abandoned(r)
      \/ Stuck
=============================================================================
