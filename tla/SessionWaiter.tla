---------------------------- MODULE SessionWaiter ----------------------------
(***************************************************************************)
(* Plugins that wait for the next messages of a session: session_waiter    *)
(* (utils/session_waiter.py), the handler of the built-in plugin that      *)
(* hands messages to the waiters before any other handler sees them        *)
(* (handle_session_control_agent), and its own use of it for an empty      *)
(* mention (handle_empty_mention).  The message whose handler waits is     *)
(* the opener, and stands for its waiter, controller and filter.           *)
(*                                                                         *)
(*   event     what a message is: [kind, umo, sender, by], where by names  *)
(*             the field an opener's filter takes as the id                *)
(*   step      where a message is in the handlers                          *)
(*   filters   FILTERS                                                     *)
(*   entry     USER_SESSIONS                                               *)
(*   future    the future of an opener's controller                        *)
(*   timers    the opener's timers: "running", and "fired" for one whose   *)
(*             time is over but whose task has not run yet                 *)
(*   turnq     the waiter's lock: who is in its handler, and who waits     *)
(*   at, pos   the waiter a message is handed to, and its filter's place   *)
(***************************************************************************)
EXTENDS Integers, Sequences, SequencesExt, FiniteSets, FiniteSetsExt

CONSTANTS Events,
          Copies,    \* the events that come into being when one is requeued
          Casts,     \* what the events may be at first
          Ids,       \* session ids: the umos and senders of the Casts
          Nobody, NoEvent

ASSUME WaiterAssumption == Nobody \notin Events /\ Copies \subseteq Events

Shapes == [kind : {"text", "mention", "command"}, umo : Ids, sender : Ids,
           by : {"umo", "sender"}]

ASSUME CastAssumption ==
  NoEvent \notin Shapes /\ \A c \in Casts : c \in [Events -> Shapes \cup {NoEvent}]

VARIABLES event, step, filters, entry, future, timers, turnq, at, pos

waitVars == <<event, step, filters, entry, future, timers, turnq, at, pos>>

InitWaiters ==
  /\ event \in Casts
  /\ step = [m \in Events |-> "idle"]
  /\ filters = <<>>
  /\ entry = [i \in Ids |-> Nobody]
  /\ future = [m \in Events |-> "none"]
  /\ timers = [m \in Events |-> {}]
  /\ turnq = [m \in Events |-> <<>>]
  /\ at = [m \in Events |-> Nobody]
  /\ pos = [m \in Events |-> 0]

Goto(m, s) == step' = [step EXCEPT ![m] = s]

-----------------------------------------------------------------------------
(* handle_session_control_agent.                                           *)

(* The id that the filter of opener o makes of a message.                  *)
IdUnder(o, m) == event[m][event[o].by]

Registered(i, m) == entry[IdUnder(filters[i], m)]

(* The loop over FILTERS from the i-th on, up to a waiter whose future is  *)
(* open; FILTERS may have changed since m entered the loop.  A waiter that *)
(* is found stops the event, open or not: stopped says whether there was   *)
(* one before.  queues is turnq, perhaps without m.                        *)
Walk(m, i, stopped, queues) ==
  LET hits == {j \in i..Len(filters) : Registered(j, m) # Nobody}
      open == {j \in hits : future'[Registered(j, m)] = "open"}
      w == Registered(Min(open), m)
  IN \/ /\ open = {}
        /\ Goto(m, IF stopped \/ hits # {} THEN "over" ELSE "free")
        /\ turnq' = queues
        /\ at' = [at EXCEPT ![m] = Nobody]
        /\ pos' = [pos EXCEPT ![m] = 0]
     \/ /\ open # {}
        /\ Goto(m, IF queues[w] = <<>> THEN "handling" ELSE "queued")
        /\ turnq' = [queues EXCEPT ![w] = Append(@, m)]
        /\ at' = [at EXCEPT ![m] = w]
        /\ pos' = [pos EXCEPT ![m] = Min(open)]

(* A message reaches the handlers.                                         *)
Hear(m) ==
  /\ step[m] = "idle"
  /\ UNCHANGED <<event, filters, entry, future, timers>>
  /\ Walk(m, 1, FALSE, turnq)

(* trigger is over: the lock is given back, and the loop goes on.          *)
GoOn(m) == Walk(m, pos[m] + 1, TRUE, [turnq EXCEPT ![at[m]] = Tail(@)])

(* Mutant of TakeTurn: the future is not looked at again under the lock.   *)
TakeTurnBlindly(m) ==
  /\ step[m] = "queued"
  /\ Head(turnq[at[m]]) = m
  /\ Goto(m, "handling")
  /\ UNCHANGED <<event, filters, entry, future, timers, turnq, at, pos>>

(* The waiter's lock comes to m.                                           *)
TakeTurn(m) ==
  /\ step[m] = "queued"
  /\ Head(turnq[at[m]]) = m
  /\ UNCHANGED <<event, filters, entry, future, timers>>
  /\ IF future[at[m]] = "open"
     THEN Goto(m, "handling") /\ UNCHANGED <<turnq, at, pos>>
     ELSE GoOn(m)

-----------------------------------------------------------------------------
(* What the handler of a waiter has done with m when it returns.           *)

(* It leaves the session as it is.                                         *)
Ignore(m) ==
  /\ step[m] = "handling"
  /\ UNCHANGED <<event, filters, entry, future, timers>>
  /\ GoOn(m)

ByPlugin(m) == step[m] = "handling" /\ event[at[m]].kind = "command"

(* Mutant of Keep: the timer is released and no new one started.           *)
KeepWithoutTimer(m) ==
  /\ ByPlugin(m)
  /\ timers' = [timers EXCEPT ![at[m]] = @ \ {"running"}]
  /\ UNCHANGED <<event, filters, entry, future>>
  /\ GoOn(m)

(* keep: the running timer is released and a new one started.  A timer     *)
(* that has fired does not hear of it.                                     *)
Keep(m) ==
  /\ ByPlugin(m)
  /\ timers' = [timers EXCEPT ![at[m]] = @ \cup {"running"}]
  /\ UNCHANGED <<event, filters, entry, future>>
  /\ GoOn(m)

(* stop, keep for no time, or an exception, which trigger turns into stop. *)
Stop(m) ==
  /\ ByPlugin(m)
  /\ future' = [future EXCEPT ![at[m]] = "done"]
  /\ UNCHANGED <<event, filters, entry, timers>>
  /\ GoOn(m)

(* empty_mention_waiter: a message with text is put back into the event    *)
(* queue and ends the wait; there is no await on the way, so the future is *)
(* still open.                                                             *)
Requeue(m) ==
  /\ step[m] = "handling"
  /\ event[at[m]].kind = "mention" /\ event[m].kind # "mention"
  /\ \E n \in Copies :
       /\ event[n] = NoEvent
       /\ event' = [event EXCEPT ![n] = event[m]]
  /\ future' = [future EXCEPT ![at[m]] = "done"]
  /\ UNCHANGED <<filters, entry, timers>>
  /\ GoOn(m)
-----------------------------------------------------------------------------
(* The wait of an opener.                                                  *)

OwnId(m) == IdUnder(m, m)

(* session_waiter's wrapper up to the await in register_wait.              *)
Register(m) ==
  /\ step[m] \in {"free", "opening"}
  /\ event[m].kind \in {"mention", "command"}
  /\ filters' = Append(filters, m)
  /\ entry' = [entry EXCEPT ![OwnId(m)] = m]
  /\ future' = [future EXCEPT ![m] = "open"]
  /\ timers' = [timers EXCEPT ![m] = {"running"}]
  /\ Goto(m, "waiting")
  /\ UNCHANGED <<event, turnq, at, pos>>

(* The time of the timer is over.                                          *)
Fire(m) ==
  /\ "running" \in timers[m]
  /\ timers' = [timers EXCEPT ![m] = (@ \ {"running"}) \cup {"fired"}]
  /\ UNCHANGED <<event, step, filters, entry, future, turnq, at, pos>>

(* _holding runs after its time: the wait fails.  It does not come between *)
(* the steps of the handler of an empty mention, which does not suspend.   *)
Expire(m) ==
  /\ "fired" \in timers[m]
  /\ event[m].kind = "mention" => \A n \in Events : step[n] = "handling" => at[n] # m
  /\ timers' = [timers EXCEPT ![m] = @ \ {"fired"}]
  /\ future' = [future EXCEPT ![m] = "done"]
  /\ UNCHANGED <<event, step, filters, entry, turnq, at, pos>>

(* FILTERS.remove; each filter is there once.                              *)
WithoutFilter(m) ==
  IF m \in ToSet(filters)
  THEN RemoveAt(filters, CHOOSE i \in DOMAIN filters : filters[i] = m)
  ELSE filters

(* Mutant of Cleanup: only the filter is taken back.                       *)
CleanupFilter(m) ==
  /\ step[m] = "waiting"
  /\ future[m] = "done"
  /\ filters' = WithoutFilter(m)
  /\ timers' = [timers EXCEPT ![m] = {}]
  /\ Goto(m, "over")
  /\ UNCHANGED <<event, entry, future, turnq, at, pos>>

(* The opener wakes: _cleanup takes the entry out, whoever it is of.  The  *)
(* timers that are left have no effect any more.                           *)
Cleanup(m) ==
  /\ step[m] = "waiting"
  /\ future[m] = "done"
  /\ entry' = [entry EXCEPT ![OwnId(m)] = Nobody]
  /\ filters' = WithoutFilter(m)
  /\ timers' = [timers EXCEPT ![m] = {}]
  /\ Goto(m, "over")
  /\ UNCHANGED <<event, future, turnq, at, pos>>

Handle(m) == Ignore(m) \/ Keep(m) \/ Stop(m) \/ Requeue(m)

Elapse(m) == Fire(m) \/ Expire(m)
-----------------------------------------------------------------------------
(* Properties.                                                             *)

Steps == {"idle", "queued", "handling", "free", "agent", "opening", "waiting",
          "over"}

(* The types of the variables.                                             *)
WaiterTypeOK ==
  /\ step \in [Events -> Steps]
  /\ filters \in Seq(Events)
  /\ entry \in [Ids -> Events \cup {Nobody}]
  /\ future \in [Events -> {"none", "open", "done"}]
  /\ timers \in [Events -> SUBSET {"running", "fired"}]
  /\ turnq \in [Events -> Seq(Events)]
  /\ at \in [Events -> Events \cup {Nobody}]
  /\ pos \in [Events -> Nat]

WaitingOpeners == {m \in Events : step[m] = "waiting"}

(* An entry is of an opener that still waits, so no message is handed to a *)
(* waiter that is gone; FILTERS holds the filters of those that wait, and  *)
(* a waiter that never shared its id is found under it.                    *)
EntriesMatchWaiters ==
  /\ \A i \in Ids : entry[i] # Nobody =>
       entry[i] \in WaitingOpeners /\ OwnId(entry[i]) = i
  /\ IsInjective(filters) /\ ToSet(filters) = WaitingOpeners
  /\ \A m \in WaitingOpeners :
       (\A o \in Events \ {m} : future[o] # "none" => OwnId(o) # OwnId(m))
         => entry[OwnId(m)] = m

(* The handlers of one waiter do not overlap, and none starts once the     *)
(* wait is over, however long its message waited for the waiter's lock.    *)
HandlersInTime ==
  [][\A m \in Events :
       step[m] # "handling" /\ step'[m] = "handling" =>
         /\ future[at'[m]] = "open"
         /\ \A n \in Events \ {m} : step'[n] = "handling" => at'[n] # at'[m]
    ]_waitVars
=============================================================================
