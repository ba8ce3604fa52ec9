------------------------------ MODULE FollowUp ------------------------------
(***************************************************************************)
(* One session (UMO) of the internal agent stage: the tasks that process   *)
(* its messages, the session lock, the agent runner that is registered     *)
(* while a message is answered, and the follow-up messages a running agent *)
(* captures.  All the tables involved are keyed by the session, so one     *)
(* session is modelled.                                                    *)
(*                                                                         *)
(* A step is what a task does between two suspensions of the event loop.   *)
(*   pc        where the task of an event is                               *)
(*   lockq     the session lock: its owner and the tasks waiting for it    *)
(*   active    the event whose runner _ACTIVE_AGENT_RUNNERS holds          *)
(*   runner    "running" for IDLE and RUNNING, "done" for DONE and ERROR   *)
(*   pending   the runner's _pending_follow_ups, as the captured events    *)
(*   notices   follow-ups merged into tool results that no request to the  *)
(*             model has carried yet                                       *)
(*   stopReq   the event's "agent_stop_requested" extra                    *)
(*   abort     the runner's _abort_signal                                  *)
(*   ticket    "open": not resolved; "returned": resolved, not consumed    *)
(*   seq       order_seq of the capture                                    *)
(*   monitor   the monitor task of the capture is alive                    *)
(*   order     the session's follow-up order state                         *)
(***************************************************************************)
EXTENDS FollowUpOrder, Sequences, SequencesExt

CONSTANTS Events,     \* the messages of the session, one task each
          SenderOf,   \* who sent each message
          NoSender,   \* a message without a sender id or follow-up text
          NoEvent,
          Faults      \* what may go wrong, a subset of FaultKinds

FaultKinds == {"stop", "loop", "break", "direct"}

ASSUME EventsAssumption == NoEvent \notin Events
ASSUME FaultsAssumption == Faults \subseteq FaultKinds

VARIABLES pc, lockq, active, runner, pending, notices, stopReq, abort,
          ticket, seq, monitor, order

runVars    == <<active, runner, pending, notices, stopReq, abort>>
ticketVars == <<ticket, seq, monitor, order>>
vars       == <<pc, lockq, runVars, ticketVars>>

Lock == INSTANCE FifoMutex WITH Procs <- Events, queue <- lockq

PCs == {"idle", "ticket", "turn", "greeting", "lock", "building", "running",
        "hook", "aborting", "saving", "closing", "done"}

Busy == active # NoEvent

Init ==
  /\ pc = [e \in Events |-> "idle"]
  /\ lockq = <<>>
  /\ active = NoEvent
  /\ runner = [e \in Events |-> "none"]
  /\ pending = [e \in Events |-> <<>>]
  /\ notices = [e \in Events |-> {}]
  /\ stopReq = [e \in Events |-> FALSE]
  /\ abort = [e \in Events |-> FALSE]
  /\ ticket = [e \in Events |-> "none"]
  /\ seq = [e \in Events |-> 0]
  /\ monitor = [e \in Events |-> FALSE]
  /\ order = NoOrder

Goto(e, label) == pc' = [pc EXCEPT ![e] = label]

-----------------------------------------------------------------------------
(* Capturing a follow-up: InternalAgentSubStage.process up to its prepare. *)

(* try_capture_follow_up and runner.follow_up take the message.            *)
CanCapture(e) ==
  /\ SenderOf[e] # NoSender
  /\ Busy
  /\ SenderOf[active] = SenderOf[e]
  /\ ~stopReq[active]
  /\ runner[active] = "running"
  /\ ~abort[active]

Capture(e) ==
  /\ pc[e] = "idle"
  /\ CanCapture(e)
  /\ Goto(e, "ticket")
  /\ ticket' = [ticket EXCEPT ![e] = "open"]
  /\ pending' = [pending EXCEPT ![active] = Append(@, e)]
  /\ seq' = [seq EXCEPT ![e] = Opened(order).nextOrder]
  /\ order' = Allocate(order)
  /\ monitor' = [monitor EXCEPT ![e] = TRUE]
  /\ UNCHANGED <<lockq, active, runner, notices, stopReq, abort>>

Bypass(e) ==
  /\ pc[e] = "idle"
  /\ ~CanCapture(e)
  /\ Goto(e, "greeting")
  /\ UNCHANGED <<lockq, runVars, ticketVars>>

(* The task wakes on a consumed ticket: mark the slot, cancel the monitor  *)
(* and return without running an agent.                                    *)
WakeConsumed(e) ==
  /\ pc[e] = "ticket"
  /\ ticket[e] = "consumed"
  /\ order' = MarkConsumed(order, seq[e], Busy)
  /\ monitor' = [monitor EXCEPT ![e] = FALSE]
  /\ Goto(e, "done")
  /\ UNCHANGED <<lockq, runVars, ticket, seq>>

(* Mutant of WakeReturned: the slot is not activated and nobody waits.     *)
WakeWithoutTurn(e) ==
  /\ pc[e] = "ticket"
  /\ ticket[e] = "returned"
  /\ Goto(e, "greeting")
  /\ UNCHANGED <<lockq, runVars, ticketVars>>

(* The task wakes on a returned ticket and joins the turn order.           *)
WakeReturned(e) ==
  /\ pc[e] = "ticket"
  /\ ticket[e] = "returned"
  /\ order' = Activate(order, seq[e])
  /\ Goto(e, IF TurnHasCome(order, seq[e]) THEN "greeting" ELSE "turn")
  /\ UNCHANGED <<lockq, runVars, ticket, seq, monitor>>

TakeTurn(e) ==
  /\ pc[e] = "turn"
  /\ order.live
  /\ TurnHasCome(order, seq[e])
  /\ Goto(e, "greeting")
  /\ UNCHANGED <<lockq, runVars, ticketVars>>

(* The monitor task wakes on the resolved ticket.                          *)
RunMonitor(e) ==
  /\ monitor[e]
  /\ ticket[e] # "open"
  /\ monitor' = [monitor EXCEPT ![e] = FALSE]
  /\ order' = IF ticket[e] = "consumed"
              THEN MarkConsumed(order, seq[e], Busy) ELSE order
  /\ UNCHANGED <<pc, lockq, runVars, ticket, seq>>

-----------------------------------------------------------------------------
(* Answering under the session lock.                                       *)

(* send_typing and the waiting hook are over; ask for the session lock.    *)
EnterLock(e) ==
  /\ pc[e] = "greeting"
  /\ Lock!Request(e)
  /\ Goto(e, "lock")
  /\ UNCHANGED <<runVars, ticketVars>>

Acquire(e) ==
  /\ pc[e] = "lock"
  /\ Lock!Owns(e)
  /\ Goto(e, "building")
  /\ UNCHANGED <<lockq, runVars, ticketVars>>

(* No agent is built, the request hook stops the event, or building fails. *)
BuildEnds(e) ==
  /\ pc[e] = "building"
  /\ Lock!Release(e)
  /\ Goto(e, "closing")
  /\ UNCHANGED <<runVars, ticketVars>>

(* build_main_agent waits for the database, so the event loop has run      *)
(* every task that was woken before the lock changed hands.                *)
WakeupsDelivered ==
  \A e \in Events : pc[e] = "ticket" => ticket[e] = "open"

Register(e) ==
  /\ pc[e] = "building"
  /\ WakeupsDelivered
  /\ active' = e
  /\ runner' = [runner EXCEPT ![e] = "running"]
  /\ Goto(e, "running")
  /\ UNCHANGED <<lockq, pending, notices, stopReq, abort, ticketVars>>

Running(e) == pc[e] = "running" /\ runner[e] = "running"

(* Resolve every pending ticket of e's runner.                             *)
Resolve(e, outcome) ==
  /\ ticket' = [f \in Events |-> IF f \in ToSet(pending[e])
                                 THEN outcome ELSE ticket[f]]
  /\ pending' = [pending EXCEPT ![e] = <<>>]

(* A tool result is recorded: every pending follow-up is merged into it.   *)
ToolResult(e) ==
  /\ Running(e)
  /\ pending[e] # <<>>
  /\ Resolve(e, "consumed")
  /\ notices' = [notices EXCEPT ![e] = @ \cup ToSet(pending[e])]
  /\ UNCHANGED <<pc, lockq, active, runner, stopReq, abort, seq, monitor, order>>

(* The next request to the model carries the recorded tool results.        *)
AskModel(e) ==
  /\ Running(e)
  /\ notices[e] # {}
  /\ notices' = [notices EXCEPT ![e] = {}]
  /\ UNCHANGED <<pc, lockq, active, runner, pending, stopReq, abort, ticketVars>>

(* A tool has sent its result to the user itself: the loop ends, and the   *)
(* result still takes the pending follow-ups along.                        *)
ToolSendsDirect(e) ==
  /\ "direct" \in Faults
  /\ Running(e)
  /\ runner' = [runner EXCEPT ![e] = "done"]
  /\ Resolve(e, "consumed")
  /\ notices' = [notices EXCEPT ![e] = @ \cup ToSet(pending[e])]
  /\ Goto(e, "saving")
  /\ UNCHANGED <<lockq, active, stopReq, abort, seq, monitor, order>>

(* An answer without tool calls: DONE, then the on_agent_done hook.        *)
Complete(e) ==
  /\ Running(e)
  /\ notices[e] = {}
  /\ runner' = [runner EXCEPT ![e] = "done"]
  /\ Goto(e, "hook")
  /\ UNCHANGED <<lockq, active, pending, notices, stopReq, abort, ticketVars>>

AbortStep(e) ==
  /\ Running(e)
  /\ abort[e]
  /\ runner' = [runner EXCEPT ![e] = "done"]
  /\ Goto(e, "aborting")
  /\ UNCHANGED <<lockq, active, pending, notices, stopReq, abort, ticketVars>>

(* The hook is over: the follow-ups nobody consumed are returned.  On the  *)
(* aborted response run_agent also withdraws the stop request.             *)
ReturnTickets(e) ==
  /\ pc[e] \in {"hook", "aborting"}
  /\ Resolve(e, "returned")
  /\ stopReq' = [stopReq EXCEPT ![e] = @ /\ pc[e] = "hook"]
  /\ Goto(e, "saving")
  /\ UNCHANGED <<lockq, active, runner, notices, abort, seq, monitor, order>>

(* Mutant of ErrorResponse: ERROR without resolving the tickets.           *)
ErrorKeepsTickets(e) ==
  /\ Running(e)
  /\ notices[e] = {}
  /\ runner' = [runner EXCEPT ![e] = "done"]
  /\ Goto(e, "saving")
  /\ UNCHANGED <<lockq, active, pending, notices, stopReq, abort, ticketVars>>

ErrorResponse(e) ==
  /\ Running(e)
  /\ notices[e] = {}
  /\ runner' = [runner EXCEPT ![e] = "done"]
  /\ Resolve(e, "returned")
  /\ Goto(e, "saving")
  /\ UNCHANGED <<lockq, active, notices, stopReq, abort, seq, monitor, order>>

(* run_agent leaves its loop and the runner is not done: step() raised, or *)
(* the model still called tools in the step after the last one.            *)
LeaveLoop(e) ==
  /\ "loop" \in Faults
  /\ Running(e)
  /\ Goto(e, "saving")
  /\ UNCHANGED <<lockq, runVars, ticketVars>>

(* unregister_active_runner                                                *)
Unregister(e) == active' = IF active = e THEN NoEvent ELSE active

(* The pipeline drops the generator at a yield: only the finally runs.     *)
PipelineBreak(e) ==
  /\ "break" \in Faults
  /\ Running(e)
  /\ Unregister(e)
  /\ Lock!Release(e)
  /\ Goto(e, "closing")
  /\ UNCHANGED <<runner, pending, notices, stopReq, abort, ticketVars>>

(* The history is saved, or saving fails.                                  *)
Close(e) ==
  /\ pc[e] = "saving"
  /\ Unregister(e)
  /\ Lock!Release(e)
  /\ Goto(e, "closing")
  /\ UNCHANGED <<runner, pending, notices, stopReq, abort, ticketVars>>

(* stop_typing is over: finalize_follow_up_capture.                        *)
Finalize(e) ==
  /\ pc[e] = "closing"
  /\ order' = IF ticket[e] = "returned"
              THEN FinishTurn(order, seq[e], Busy) ELSE order
  /\ monitor' = [monitor EXCEPT ![e] = FALSE]
  /\ Goto(e, "done")
  /\ UNCHANGED <<lockq, runVars, ticket, seq>>

-----------------------------------------------------------------------------
(* A stop command marks the event; the watcher of the running step, or the *)
(* loop at the next response, passes it to the runner.                     *)

RequestStop(e) ==
  /\ "stop" \in Faults
  /\ pc[e] \notin {"idle", "done"}
  /\ ~stopReq[e]
  /\ stopReq' = [stopReq EXCEPT ![e] = TRUE]
  /\ UNCHANGED <<pc, lockq, active, runner, pending, notices, abort, ticketVars>>

SeeStop(e) ==
  /\ Running(e)
  /\ stopReq[e]
  /\ ~abort[e]
  /\ abort' = [abort EXCEPT ![e] = TRUE]
  /\ UNCHANGED <<pc, lockq, active, runner, pending, notices, stopReq, ticketVars>>

-----------------------------------------------------------------------------
Arrive(e) == Capture(e) \/ Bypass(e)

Wake(e) == WakeConsumed(e) \/ WakeReturned(e) \/ TakeTurn(e)

Answer(e) ==
  \/ ToolResult(e) \/ AskModel(e) \/ ToolSendsDirect(e)
  \/ Complete(e) \/ AbortStep(e) \/ ReturnTickets(e) \/ ErrorResponse(e)
  \/ LeaveLoop(e) \/ PipelineBreak(e)

(* What the task of e does by itself once its message has arrived.         *)
Continue(e) ==
  \/ Wake(e) \/ EnterLock(e) \/ Acquire(e) \/ BuildEnds(e) \/ Register(e)
  \/ Answer(e) \/ Close(e) \/ Finalize(e)

Step(e) ==
  \/ Arrive(e) \/ Continue(e) \/ RunMonitor(e) \/ RequestStop(e) \/ SeeStop(e)

Next == \E e \in Events : Step(e)

Spec == Init /\ [][Next]_vars

(* The event loop runs every ready task; model calls, tools and hooks end. *)
Fairness == \A e \in Events : WF_vars(Continue(e)) /\ WF_vars(RunMonitor(e))

FairSpec == Spec /\ Fairness
-----------------------------------------------------------------------------
(* Properties.                                                             *)

(* A follow-up that was returned and may go on with its own agent.         *)
Resumed(e) ==
  /\ ticket[e] = "returned"
  /\ pc[e] \in {"greeting", "lock", "building", "running", "hook", "aborting",
                "saving", "closing"}

(* A follow-up that still waits for its ticket or for its turn.            *)
Waiting(e) ==
  \/ pc[e] = "ticket" /\ ticket[e] # "consumed"
  \/ pc[e] = "turn"

(* Captured, and its slot not handled yet.                                 *)
Outstanding(e) ==
  \/ Waiting(e)
  \/ Resumed(e)
  \/ pc[e] = "ticket" /\ monitor[e]

Tickets == {"none", "open", "returned", "consumed"}

(* The types of the variables.                                             *)
TypeOK ==
  /\ pc \in [Events -> PCs]
  /\ lockq \in Seq(Events)
  /\ active \in Events \cup {NoEvent}
  /\ runner \in [Events -> {"none", "running", "done"}]
  /\ pending \in [Events -> Seq(Events)]
  /\ notices \in [Events -> SUBSET Events]
  /\ stopReq \in [Events -> BOOLEAN]
  /\ abort \in [Events -> BOOLEAN]
  /\ ticket \in [Events -> Tickets]
  /\ seq \in [Events -> Nat]
  /\ monitor \in [Events -> BOOLEAN]
  /\ OrderOK(order)

(* "Strict ordering: only the head can continue": a follow-up that runs    *)
(* its own agent was captured before every follow-up of the session that   *)
(* still waits, and no other one runs beside it - from the moment it takes *)
(* its turn until its slot is finished, whichever order the tasks woke in  *)
(* and however often the session's order state was dropped and rebuilt.    *)
TurnOrder ==
  \A e, f \in Events :
    e # f /\ Resumed(e) /\ (Waiting(f) \/ Resumed(f)) => seq[e] < seq[f]

(* Every capture that is not handled yet holds a slot of its own in the    *)
(* session's live order state, so dropping the state when a run ends never *)
(* loses a slot and a late mark never hits the slot of somebody else.      *)
SlotsHeld ==
  /\ \A e \in Events : Outstanding(e) =>
       /\ order.live
       /\ seq[e] \in DOMAIN order.statuses
       /\ ~Handled(order, seq[e])
       /\ order.nextTurn <= seq[e]
  /\ \A e, f \in Events :
       e # f /\ Outstanding(e) /\ Outstanding(f) => seq[e] # seq[f]

(* The run of e was left while its runner was neither DONE nor ERROR.      *)
Broken(e) == pc[e] # "running" /\ runner[e] = "running"

(* An unresolved ticket is in the queue of a runner that is still going to *)
(* resolve it: only a broken run leaves captured messages behind.          *)
OpenTicketsHaveRunner ==
  \A e \in Events : ticket[e] = "open" =>
    \E r \in Events :
      /\ e \in ToSet(pending[r])
      /\ pc[r] \in {"running", "hook", "aborting"} \/ Broken(r)

(* Every message that arrives is dealt with in the end: it is answered, or *)
(* merged into the run that captured it - unless a run broke.              *)
Served ==
  \A e \in Events :
    pc[e] # "idle" ~> pc[e] = "done" \/ \E r \in Events : Broken(r)

(* "monitor task is auxiliary and should not leak".                        *)
MonitorsEnd == \A e \in Events : monitor[e] ~> ~monitor[e]

(* The captured messages that are not handled yet, in the order of their   *)
(* slots, behave as the queue of OrderedResume.                            *)
Captured == {e \in Events : Outstanding(e)}

Queue ==
  CHOOSE q \in [1..Cardinality(Captured) -> Captured] :
    \A i, j \in DOMAIN q : i < j => seq[q[i]] < seq[q[j]]

Abstract == INSTANCE OrderedResume WITH
  Messages <- Events,
  seen     <- {e \in Events : ticket[e] # "none"},
  queue    <- Queue,
  resumed  <- \E e \in Events : Resumed(e)

HandledInOrder == Abstract!Spec
=============================================================================
