--------------------------- MODULE SessionHistory ---------------------------
(***************************************************************************)
(* The conversations of one session (UMO) and everybody who rewrites their *)
(* history: the messages that an agent answers under the session lock, the *)
(* requests a plugin prepares before the lock is taken, the jobs (cron and *)
(* background tools) that run an agent without the lock, and the commands  *)
(* /reset, /new, /stop and the deletion of a conversation.                 *)
(*                                                                         *)
(* A history is the sequence of the tasks whose turn it holds: saving      *)
(* writes the whole history the task read, followed by its own turn.  The  *)
(* shortening of a long context is not modelled.                           *)
(*   kind        what each task is: "message", "early" or "job"            *)
(*   pc, cmdpc   where a task, a command is                                *)
(*   current     session_conversations: the conversation in use            *)
(*   rows        the conversations in the database                         *)
(*   used        the conversation ids given out so far                     *)
(*   history     content of each conversation                              *)
(*   conv, base  req.conversation of a task: its cid and its history       *)
(*   stopped     the event was stopped (stop_event)                        *)
(*   stopReq     the event's "agent_stop_requested" extra                  *)
(*   aborted     the runner was aborted                                    *)
(*   target      the conversation a command works on                       *)
(*   wiped       history variable: the turns that resets have cleared      *)
(*   silenced    history variable: the tasks stopped before their agent    *)
(*               had started                                               *)
(***************************************************************************)
EXTENDS Sequences, SequencesExt, FiniteSets

CONSTANTS Tasks, Kinds,       \* the kinds the tasks may have
          Cmds, CommandOf,    \* "reset", "new", "stop" or "delete"
          Convs, NoConv

ASSUME KindAssumption == Kinds \subseteq [Tasks -> {"message", "early", "job"}]
ASSUME CommandAssumption ==
  CommandOf \in [Cmds -> {"reset", "new", "stop", "delete"}]
ASSUME ConvAssumption == NoConv \notin Convs

VARIABLES kind, pc, cmdpc, lockq, current, rows, used, history,
          conv, base, stopped, stopReq, aborted, target, wiped, silenced

taskVars  == <<conv, base>>
stopVars  == <<stopped, stopReq, silenced>>
storeVars == <<current, rows, used, history>>
cmdVars   == <<cmdpc, target, wiped>>
vars == <<kind, pc, lockq, taskVars, stopVars, aborted, storeVars, cmdVars>>

Lock == INSTANCE FifoMutex WITH Procs <- Tasks, queue <- lockq

PCs == {"idle", "prepared", "lock", "building", "picked", "loaded",
        "running", "answered", "saving", "done"}

(* A session with one conversation, still empty.                           *)
Init ==
  /\ kind \in Kinds
  /\ pc = [t \in Tasks |-> "idle"]
  /\ cmdpc = [c \in Cmds |-> "idle"]
  /\ lockq = <<>>
  /\ current \in Convs
  /\ rows = {current}
  /\ used = {current}
  /\ history = [c \in Convs |-> <<>>]
  /\ conv = [t \in Tasks |-> NoConv]
  /\ base = [t \in Tasks |-> <<>>]
  /\ stopped = [t \in Tasks |-> FALSE]
  /\ stopReq = [t \in Tasks |-> FALSE]
  /\ aborted = [t \in Tasks |-> FALSE]
  /\ target = [c \in Cmds |-> NoConv]
  /\ wiped = {} /\ silenced = {}

Goto(t, label) == pc' = [pc EXCEPT ![t] = label]

-----------------------------------------------------------------------------
(* The tasks that run an agent.                                            *)

UsesLock(t) == kind[t] # "job"

(* A message arrives and asks for the lock; a job starts without it.       *)
Arrive(t) ==
  /\ pc[t] = "idle"
  /\ kind[t] # "early"
  /\ IF UsesLock(t)
     THEN Lock!Request(t) /\ Goto(t, "lock")
     ELSE Goto(t, "building") /\ UNCHANGED lockq
  /\ UNCHANGED <<taskVars, stopVars, aborted, storeVars, cmdVars>>

(* A plugin prepares the request (active reply, empty mention) and reads   *)
(* the conversation for it, if there is one.                               *)
Prepare(t) ==
  /\ pc[t] = "idle"
  /\ kind[t] = "early"
  /\ IF current \in rows
     THEN /\ Goto(t, "prepared")
          /\ conv' = [conv EXCEPT ![t] = current]
          /\ base' = [base EXCEPT ![t] = history[current]]
     ELSE Goto(t, "done") /\ UNCHANGED taskVars
  /\ UNCHANGED <<lockq, stopVars, aborted, storeVars, cmdVars>>

EnterLock(t) ==
  /\ pc[t] = "prepared"
  /\ Lock!Request(t)
  /\ Goto(t, "lock")
  /\ UNCHANGED <<taskVars, stopVars, aborted, storeVars, cmdVars>>

(* Mutant of Acquire: the conversation is loaded without the lock.         *)
AcquireEarly(t) ==
  /\ pc[t] = "lock"
  /\ Goto(t, IF kind[t] = "early" THEN "loaded" ELSE "building")
  /\ UNCHANGED <<lockq, taskVars, stopVars, aborted, storeVars, cmdVars>>

Acquire(t) ==
  /\ pc[t] = "lock"
  /\ Lock!Owns(t)
  /\ Goto(t, IF kind[t] = "early" THEN "loaded" ELSE "building")
  /\ UNCHANGED <<lockq, taskVars, stopVars, aborted, storeVars, cmdVars>>

(* _get_session_conv: the id of the current conversation ...               *)
Pick(t) ==
  /\ pc[t] = "building"
  /\ conv' = [conv EXCEPT ![t] = current]
  /\ Goto(t, "picked")
  /\ UNCHANGED <<lockq, base, stopVars, aborted, storeVars, cmdVars>>

(* Mutant of Load: the history of what is the current conversation by now. *)
LoadCurrent(t) ==
  /\ pc[t] = "picked"
  /\ conv[t] \in rows
  /\ current # NoConv
  /\ base' = [base EXCEPT ![t] = history[current]]
  /\ Goto(t, "loaded")
  /\ UNCHANGED <<lockq, conv, stopVars, aborted, storeVars, cmdVars>>

(* ... and its row, or a new conversation when there is none.              *)
Load(t) ==
  /\ pc[t] = "picked"
  /\ conv[t] \in rows
  /\ base' = [base EXCEPT ![t] = history[conv[t]]]
  /\ Goto(t, "loaded")
  /\ UNCHANGED <<lockq, conv, stopVars, aborted, storeVars, cmdVars>>

Create(c) ==
  /\ c \notin used
  /\ used' = used \cup {c}
  /\ rows' = rows \cup {c}
  /\ current' = c
  /\ UNCHANGED history

(* Mutant of LoadNew: a new conversation has no history, not an empty one. *)
LoadNewWithoutHistory(t, c) ==
  /\ pc[t] = "picked"
  /\ conv[t] \notin rows
  /\ Create(c)
  /\ conv' = [conv EXCEPT ![t] = c]
  /\ base' = [base EXCEPT ![t] = NoConv]
  /\ Goto(t, "loaded")
  /\ UNCHANGED <<lockq, stopVars, aborted, cmdVars>>

LoadNew(t, c) ==
  /\ pc[t] = "picked"
  /\ conv[t] \notin rows
  /\ Create(c)
  /\ conv' = [conv EXCEPT ![t] = c]
  /\ base' = [base EXCEPT ![t] = <<>>]
  /\ Goto(t, "loaded")
  /\ UNCHANGED <<lockq, stopVars, aborted, cmdVars>>

Leave(t) == IF UsesLock(t) THEN Lock!Release(t) ELSE UNCHANGED lockq

(* Mutant of Start: nobody asks whether the event was stopped meanwhile.   *)
StartAnyway(t) ==
  /\ pc[t] = "loaded"
  /\ Goto(t, "running")
  /\ UNCHANGED <<lockq, taskVars, stopVars, aborted, storeVars, cmdVars>>

(* The request hook is over and the event was not stopped.                 *)
Start(t) ==
  /\ pc[t] = "loaded"
  /\ ~stopped[t]
  /\ Goto(t, "running")
  /\ UNCHANGED <<lockq, taskVars, stopVars, aborted, storeVars, cmdVars>>

(* The event was stopped, no agent can be built, or the run ends with an   *)
(* error or is dropped by the pipeline: nothing is saved.                  *)
GiveUp(t) ==
  /\ pc[t] \in {"loaded", "running"}
  /\ Leave(t)
  /\ Goto(t, "done")
  /\ UNCHANGED <<taskVars, stopVars, aborted, storeVars, cmdVars>>

Finish(t) ==
  /\ pc[t] = "running"
  /\ Goto(t, "answered")
  /\ UNCHANGED <<lockq, taskVars, stopVars, aborted, storeVars, cmdVars>>

(* The runner sees the stop; run_agent withdraws the request to stop.      *)
Abort(t) ==
  /\ pc[t] = "running"
  /\ stopped[t] \/ stopReq[t]
  /\ aborted' = [aborted EXCEPT ![t] = TRUE]
  /\ stopReq' = [stopReq EXCEPT ![t] = FALSE]
  /\ Goto(t, "answered")
  /\ UNCHANGED <<lockq, taskVars, stopped, silenced, storeVars, cmdVars>>

(* The turn of a stopped event is saved only when its run was aborted.     *)
MaySave(t) == ~stopped[t] \/ aborted[t]

DecideToSave(t) ==
  /\ pc[t] = "answered"
  /\ MaySave(t)
  /\ Goto(t, "saving")
  /\ UNCHANGED <<lockq, taskVars, stopVars, aborted, storeVars, cmdVars>>

DecideNotToSave(t) ==
  /\ pc[t] = "answered"
  /\ ~MaySave(t)
  /\ Leave(t)
  /\ Goto(t, "done")
  /\ UNCHANGED <<taskVars, stopVars, aborted, storeVars, cmdVars>>

(* update_conversation: a row that is gone is not written.                 *)
Save(t) ==
  /\ pc[t] = "saving"
  /\ history' = IF conv[t] \in rows
                THEN [history EXCEPT ![conv[t]] = Append(base[t], t)]
                ELSE history
  /\ Leave(t)
  /\ Goto(t, "done")
  /\ UNCHANGED <<taskVars, stopVars, aborted, current, rows, used, cmdVars>>

-----------------------------------------------------------------------------
(* Commands.  Each is an event of its own and does not take the lock.      *)

(* The events the registry holds: jobs do not pass through the pipeline.   *)
Registered(t) == UsesLock(t) /\ pc[t] \notin {"idle", "done"}

NotStarted(t) == pc[t] \in {"prepared", "lock", "building", "picked", "loaded"}

StopAll ==
  /\ stopped' = [t \in Tasks |-> stopped[t] \/ Registered(t)]
  /\ silenced' = silenced \cup {t \in Tasks : Registered(t) /\ NotStarted(t)}

Cmd(c, label) == cmdpc' = [cmdpc EXCEPT ![c] = label]

(* /reset: stop the events of the session ...                              *)
ResetStops(c) ==
  /\ CommandOf[c] = "reset"
  /\ cmdpc[c] = "idle"
  /\ IF current = NoConv
     THEN Cmd(c, "done") /\ UNCHANGED <<stopped, silenced, target>>
     ELSE /\ Cmd(c, "stopped")
          /\ StopAll
          /\ target' = [target EXCEPT ![c] = current]
  /\ UNCHANGED <<pc, lockq, taskVars, stopReq, aborted, storeVars, wiped>>

(* ... and empty the conversation.                                         *)
ResetClears(c) ==
  /\ CommandOf[c] = "reset"
  /\ cmdpc[c] = "stopped"
  /\ history' = [history EXCEPT ![target[c]] = <<>>]
  /\ wiped' = wiped \cup ToSet(history[target[c]])
  /\ Cmd(c, "done")
  /\ UNCHANGED <<pc, lockq, taskVars, stopVars, aborted, current, rows, used,
                 target>>

(* /new: stop the events of the session ...                                *)
NewStops(c) ==
  /\ CommandOf[c] = "new"
  /\ cmdpc[c] = "idle"
  /\ StopAll
  /\ Cmd(c, "stopped")
  /\ UNCHANGED <<pc, lockq, taskVars, stopReq, aborted, storeVars, target, wiped>>

(* ... and use a new conversation from now on.                             *)
NewCreates(c, d) ==
  /\ CommandOf[c] = "new"
  /\ cmdpc[c] = "stopped"
  /\ Create(d)
  /\ Cmd(c, "done")
  /\ UNCHANGED <<pc, lockq, taskVars, stopVars, aborted, target, wiped>>

(* /stop: request_agent_stop_all.                                          *)
Stop(c) ==
  /\ CommandOf[c] = "stop"
  /\ cmdpc[c] = "idle"
  /\ stopReq' = [t \in Tasks |-> stopReq[t] \/ Registered(t)]
  /\ Cmd(c, "done")
  /\ UNCHANGED <<pc, lockq, taskVars, stopped, silenced, aborted, storeVars,
                 target, wiped>>

(* delete_conversation: the row goes ...                                   *)
DeleteRow(c, d) ==
  /\ CommandOf[c] = "delete"
  /\ cmdpc[c] = "idle"
  /\ d \in rows
  /\ rows' = rows \ {d}
  /\ history' = [history EXCEPT ![d] = <<>>]
  /\ target' = [target EXCEPT ![c] = d]
  /\ Cmd(c, "deleted")
  /\ UNCHANGED <<pc, lockq, taskVars, stopVars, aborted, current, used, wiped>>

(* ... and then the selection, if it is still the deleted conversation.    *)
Deselect(c) ==
  /\ CommandOf[c] = "delete"
  /\ cmdpc[c] = "deleted"
  /\ current' = IF current = target[c] THEN NoConv ELSE current
  /\ Cmd(c, "done")
  /\ UNCHANGED <<pc, lockq, taskVars, stopVars, aborted, rows, used, history,
                 target, wiped>>

-----------------------------------------------------------------------------
Run(t) ==
  \/ Arrive(t) \/ Prepare(t) \/ EnterLock(t) \/ Acquire(t)
  \/ Pick(t) \/ Load(t) \/ (\E c \in Convs : LoadNew(t, c))
  \/ Start(t) \/ GiveUp(t) \/ Finish(t) \/ Abort(t)
  \/ DecideToSave(t) \/ DecideNotToSave(t) \/ Save(t)

Command(c) ==
  \/ ResetStops(c) \/ ResetClears(c) \/ NewStops(c)
  \/ (\E d \in Convs : NewCreates(c, d)) \/ Stop(c)
  \/ (\E d \in Convs : DeleteRow(c, d)) \/ Deselect(c)

Next ==
  /\ (\E t \in Tasks : Run(t)) \/ (\E c \in Cmds : Command(c))
  /\ UNCHANGED kind

Spec == Init /\ [][Next]_vars
-----------------------------------------------------------------------------
(* Properties.                                                             *)

(* The types of the variables.                                             *)
TypeOK ==
  /\ kind \in [Tasks -> {"message", "early", "job"}]
  /\ pc \in [Tasks -> PCs]
  /\ cmdpc \in [Cmds -> {"idle", "stopped", "deleted", "done"}]
  /\ lockq \in Seq(Tasks)
  /\ current \in Convs \cup {NoConv}
  /\ rows \subseteq used
  /\ used \subseteq Convs
  /\ history \in [Convs -> Seq(Tasks)]
  /\ conv \in [Tasks -> Convs \cup {NoConv}]
  /\ base \in [Tasks -> Seq(Tasks)]
  /\ stopped \in [Tasks -> BOOLEAN]
  /\ stopReq \in [Tasks -> BOOLEAN]
  /\ aborted \in [Tasks -> BOOLEAN]
  /\ target \in [Cmds -> Convs \cup {NoConv}]
  /\ wiped \subseteq Tasks /\ silenced \subseteq Tasks

(* Nobody writes a history without the session lock, but the commands.     *)
OnlyMessages == \A t \in Tasks : kind[t] = "message"

(* The command that a step completes, or begins, works on c.               *)
ClearedByCommand(c) ==
  \E k \in Cmds : cmdpc'[k] # cmdpc[k] /\ target'[k] = c /\ history'[c] = <<>>

(* Once a turn is in a history it stays, at its place: nobody who holds    *)
(* the session lock saves over the turn of somebody else.  Only /reset and *)
(* a deletion take turns away.                                             *)
TurnsKept ==
  [][OnlyMessages =>
       \A c \in Convs :
         IsPrefix(history[c], history'[c]) \/ ClearedByCommand(c)]_vars

(* While a message is answered the history it has read stays the history   *)
(* of its conversation, unless that was emptied: the agent has seen every  *)
(* turn before its own, and saving is never a step back.                   *)
BaseIsCurrent ==
  OnlyMessages =>
    \A t \in Tasks : pc[t] \in {"loaded", "running", "answered", "saving"} =>
      history[conv[t]] \in {base[t], <<>>}

(* A message that /reset or /new stops before its agent has started leaves *)
(* no trace in any conversation, however long it still waits for the lock, *)
(* and whoever else writes histories meanwhile.                            *)
StoppedLeavesNoTrace ==
  \A t \in silenced : \A c \in Convs : t \notin ToSet(history[c])

(* "/reset resets the LLM context": a turn that a reset has cleared does   *)
(* not come back.                                                          *)
ResetSticks == \A c \in Convs : ToSet(history[c]) \cap wiped = {}
=============================================================================
