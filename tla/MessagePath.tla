----------------------------- MODULE MessagePath -----------------------------
(***************************************************************************)
(* The way of a chat's messages through the pipeline (STAGES_ORDER), where *)
(* they wait for one another and for time: RateLimitStage, the handler     *)
(* that hands messages to waiting plugins, and the session lock of         *)
(* InternalAgentSubStage.process.  Each message is a task of its own       *)
(* (EventBus.dispatch), and other stages may suspend between these.        *)
(*                                                                         *)
(* The limit is kept by session id and the lock by unified_msg_origin, so  *)
(* the messages of several Sessions (the bot twice in one group) share a   *)
(* limit.  Messages are numbered in the order they arrive.                 *)
(***************************************************************************)
EXTENDS SessionLock, RateLimit, SessionWaiter

ASSUME PathAssumption ==
  /\ Messages = Events /\ Tasks = Events
  /\ Messages \subseteq Nat
  /\ \A c \in Casts : \A m \in Events : c[m] # NoEvent => c[m].umo \in Sessions

pathVars == <<vars, limitVars, waitVars>>

PathInit == Init /\ InitLimit /\ InitWaiters

(* A copy goes through the event queue and a new task, so the opener that  *)
(* was woken before it was queued has run when it arrives.                 *)
Due(m) ==
  /\ event[m] # NoEvent
  /\ IF m \in Copies
     THEN \A o \in WaitingOpeners :
            event[o].kind = "mention" => future[o] = "open"
     ELSE /\ clock <= LastArrival
          /\ \A n \in Messages \ Copies : n < m => place[n] # "away"

Arrive(m) ==
  /\ Due(m)
  /\ ArriveFree(m) \/ ArriveBusy(m)
  /\ UNCHANGED <<vars, waitVars>>

InLimiter(m) == (TakeGate(m) \/ WakeUp(m)) /\ UNCHANGED <<vars, waitVars>>

(* StarRequestSubStage: the message reaches the handlers.                  *)
InHandlers(m) ==
  /\ \/ place[m] = "passed" /\ Hear(m)
     \/ TakeTurn(m) \/ Handle(m) \/ Register(m) \/ Elapse(m) \/ Cleanup(m)
  /\ UNCHANGED <<vars, limitVars>>

(* A text that no waiter took asks for the lock to run the agent; so does  *)
(* an empty mention, to have the user asked what he wants.                 *)
AskAgent(m) ==
  /\ step[m] = "free"
  /\ event[m].kind \in {"text", "mention"}
  /\ Enter(m, event[m].umo)
  /\ Goto(m, "agent")
  /\ UNCHANGED <<limitVars, event, filters, entry, future, timers, turnq, at, pos>>

Admit(m) == Wake(m) /\ UNCHANGED <<limitVars, waitVars>>

(* The agent has run: the handler of an empty mention goes on after it.    *)
AgentEnds(m) ==
  /\ Exit(m)
  /\ Goto(m, IF event[m].kind = "mention" THEN "opening" ELSE "over")
  /\ UNCHANGED <<limitVars, event, filters, entry, future, timers, turnq, at, pos>>

(* The task is cancelled while it waits for the lock.                      *)
GiveUp(m) ==
  /\ Cancel(m)
  /\ Goto(m, "over")
  /\ UNCHANGED <<limitVars, event, filters, entry, future, timers, turnq, at, pos>>

TimePasses == Tick /\ UNCHANGED <<vars, waitVars>>

PathNext ==
  \/ TimePasses
  \/ \E m \in Messages :
       \/ Arrive(m) \/ InLimiter(m) \/ InHandlers(m)
       \/ AskAgent(m) \/ Admit(m) \/ AgentEnds(m) \/ GiveUp(m)

(* Time passes and ready tasks run; handlers of plugins and agents end.    *)
PathFairness ==
  /\ WF_pathVars(TimePasses)
  /\ \A m \in Messages :
       /\ WF_pathVars(InLimiter(m))
       /\ WF_pathVars(InHandlers(m))
       /\ WF_pathVars(AskAgent(m) \/ Admit(m) \/ AgentEnds(m))
  /\ \A m \in Copies : WF_pathVars(Arrive(m))

PathSpec == PathInit /\ [][PathNext]_pathVars /\ PathFairness
-----------------------------------------------------------------------------
(* Properties.                                                             *)

(* The types of the variables of RateLimit and SessionWaiter.              *)
PathTypeOK == LimitTypeOK /\ WaiterTypeOK

(* Every message that arrives, and every copy that is put back into the    *)
(* event queue, is dropped by the limit or comes to its end: answered,     *)
(* taken by a waiter, or given up.  No place where it waits keeps it, and  *)
(* none of them waits for another.                                         *)
Answered ==
  \A m \in Messages :
    place[m] # "away" \/ (m \in Copies /\ event[m] # NoEvent)
      ~> place[m] = "gone" \/ step[m] = "over"
=============================================================================
