---------------------------- MODULE SessionLock ----------------------------
(***************************************************************************)
(* SessionLockManager (utils/session_lock.py) on one event loop: a table   *)
(* of asyncio locks by session, created on demand and dropped when nobody  *)
(* uses them.  Neither section under _access_lock suspends, so that lock   *)
(* is always free when it is asked for, and each section is one step with  *)
(* what the task does up to its next suspension.                           *)
(*                                                                         *)
(*   table, count   _locks and _lock_count (NoLock and 0: no entry)        *)
(*   locked         the lock objects that are taken                        *)
(*   waiters        the futures of a lock object, as their tasks           *)
(*   woken          the tasks whose future has its result                  *)
(*   mine           the lock object a task got from the table              *)
(***************************************************************************)
EXTENDS Integers, Sequences, SequencesExt, FiniteSets

CONSTANTS Tasks, Sessions,
          LockIds,     \* the lock objects that can be alive at once
          NoLock, NoSession

ASSUME LockAssumption ==
  /\ IsFiniteSet(Tasks)
  /\ NoLock \notin LockIds /\ NoSession \notin Sessions

VARIABLES pc, session, mine, table, count, locked, waiters, woken

vars == <<pc, session, mine, table, count, locked, waiters, woken>>

Init ==
  /\ pc = [t \in Tasks |-> "idle"]
  /\ session = [t \in Tasks |-> NoSession]
  /\ mine = [t \in Tasks |-> NoLock]
  /\ table = [s \in Sessions |-> NoLock]
  /\ count = [s \in Sessions |-> 0]
  /\ locked = {}
  /\ waiters = [l \in LockIds |-> <<>>]
  /\ woken = {}

-----------------------------------------------------------------------------
(* The asyncio lock.                                                       *)

(* A task leaves the queue; it is there once.  (SequencesExt!Remove, in a  *)
(* form the provers know how to use.)                                      *)
Without(queue, t) ==
  LET i == CHOOSE i \in DOMAIN queue : queue[i] = t
  IN [j \in 1..(Len(queue) - 1) |-> queue[IF j < i THEN j ELSE j + 1]]

(* _wake_up_first on what is left of the queue.                            *)
WakeFirst(queue) == IF queue = <<>> THEN {} ELSE {Head(queue)}

(* acquire: at once when the lock is free and nobody waits.                *)
TakeOrWait(t, l) ==
  IF l \notin locked /\ waiters[l] = <<>>
  THEN /\ locked' = locked \cup {l}
       /\ pc' = [pc EXCEPT ![t] = "holding"]
       /\ UNCHANGED waiters
  ELSE /\ waiters' = [waiters EXCEPT ![l] = Append(@, t)]
       /\ pc' = [pc EXCEPT ![t] = "waiting"]
       /\ UNCHANGED locked

(* The woken task takes the lock.                                          *)
Wake(t) ==
  /\ pc[t] = "waiting"
  /\ t \in woken
  /\ waiters' = [waiters EXCEPT ![mine[t]] = Without(@, t)]
  /\ woken' = woken \ {t}
  /\ locked' = locked \cup {mine[t]}
  /\ pc' = [pc EXCEPT ![t] = "holding"]
  /\ UNCHANGED <<session, mine, table, count>>

-----------------------------------------------------------------------------
(* acquire_lock.                                                           *)

(* A lock object that nobody refers to: what defaultdict creates is new.   *)
FreshLock(l) ==
  /\ \A s \in Sessions : table[s] # l
  /\ \A t \in Tasks : mine[t] # l

(* Mutant of Enter: only a task that finds the lock free is counted.       *)
CountOnlyHolders(t, s) ==
  /\ pc[t] = "idle"
  /\ \E l \in LockIds :
       /\ IF table[s] = NoLock THEN FreshLock(l) ELSE l = table[s]
       /\ table' = [table EXCEPT ![s] = l]
       /\ mine' = [mine EXCEPT ![t] = l]
       /\ TakeOrWait(t, l)
  /\ count' = IF pc'[t] = "holding" THEN [count EXCEPT ![s] = @ + 1] ELSE count
  /\ session' = [session EXCEPT ![t] = s]
  /\ UNCHANGED woken

(* The first section under _access_lock, then the lock itself.             *)
Enter(t, s) ==
  /\ pc[t] = "idle"
  /\ \E l \in LockIds :
       /\ IF table[s] = NoLock THEN FreshLock(l) ELSE l = table[s]
       /\ table' = [table EXCEPT ![s] = l]
       /\ mine' = [mine EXCEPT ![t] = l]
       /\ TakeOrWait(t, l)
  /\ count' = [count EXCEPT ![s] = @ + 1]
  /\ session' = [session EXCEPT ![t] = s]
  /\ UNCHANGED woken

(* Mutant of Forget: the entry goes whenever somebody leaves.              *)
ForgetAlways(t) ==
  /\ count' = [count EXCEPT ![session[t]] = @ - 1]
  /\ table' = [table EXCEPT ![session[t]] = NoLock]
  /\ session' = [session EXCEPT ![t] = NoSession]
  /\ mine' = [mine EXCEPT ![t] = NoLock]
  /\ pc' = [pc EXCEPT ![t] = "idle"]

(* Mutant of Forget: the entry goes one user too early.                    *)
ForgetEarly(t) ==
  /\ count' = [count EXCEPT ![session[t]] = @ - 1]
  /\ table' = IF count[session[t]] <= 2
              THEN [table EXCEPT ![session[t]] = NoLock] ELSE table
  /\ session' = [session EXCEPT ![t] = NoSession]
  /\ mine' = [mine EXCEPT ![t] = NoLock]
  /\ pc' = [pc EXCEPT ![t] = "idle"]

(* Mutant of Forget: the entry stays when its last user leaves.            *)
ForgetNever(t) ==
  /\ count' = [count EXCEPT ![session[t]] = @ - 1]
  /\ session' = [session EXCEPT ![t] = NoSession]
  /\ mine' = [mine EXCEPT ![t] = NoLock]
  /\ pc' = [pc EXCEPT ![t] = "idle"]
  /\ UNCHANGED table

(* The second section under _access_lock, in the finally.                  *)
Forget(t) ==
  /\ count' = [count EXCEPT ![session[t]] = @ - 1]
  /\ table' = IF count[session[t]] = 1
              THEN [table EXCEPT ![session[t]] = NoLock] ELSE table
  /\ session' = [session EXCEPT ![t] = NoSession]
  /\ mine' = [mine EXCEPT ![t] = NoLock]
  /\ pc' = [pc EXCEPT ![t] = "idle"]

(* The body of the with statement is over, or has raised.                  *)
Exit(t) ==
  /\ pc[t] = "holding"
  /\ locked' = locked \ {mine[t]}
  /\ woken' = woken \cup WakeFirst(waiters[mine[t]])
  /\ Forget(t)
  /\ UNCHANGED waiters

(* Mutant of Cancel: a task that is cancelled after it was woken keeps the *)
(* wake-up for itself.                                                     *)
CancelAndKeep(t) ==
  /\ pc[t] = "waiting"
  /\ waiters' = [waiters EXCEPT ![mine[t]] = Without(@, t)]
  /\ woken' = woken \ {t}
  /\ Forget(t)
  /\ UNCHANGED locked

(* The task is cancelled while it waits: it leaves the queue, and passes   *)
(* the wake-up on when the lock is free.                                   *)
Cancel(t) ==
  /\ pc[t] = "waiting"
  /\ waiters' = [waiters EXCEPT ![mine[t]] = Without(@, t)]
  /\ woken' = (woken \ {t}) \cup
              IF mine[t] \in locked THEN {} ELSE WakeFirst(waiters'[mine[t]])
  /\ Forget(t)
  /\ UNCHANGED locked

Next == \E t \in Tasks :
  \/ \E s \in Sessions : Enter(t, s)
  \/ Wake(t)
  \/ Exit(t)
  \/ Cancel(t)

Spec == Init /\ [][Next]_vars

-----------------------------------------------------------------------------
(* Properties.                                                             *)

(* The types of the variables.                                             *)
TypeOK ==
  /\ pc \in [Tasks -> {"idle", "waiting", "holding"}]
  /\ session \in [Tasks -> Sessions \cup {NoSession}]
  /\ mine \in [Tasks -> LockIds \cup {NoLock}]
  /\ table \in [Sessions -> LockIds \cup {NoLock}]
  /\ count \in [Sessions -> Nat]
  /\ locked \subseteq LockIds
  /\ waiters \in [LockIds -> Seq(Tasks)]
  /\ woken \subseteq Tasks

(* Two tasks never run under the lock of one session together, however     *)
(* often its lock object was dropped and created again meanwhile.          *)
MutualExclusion ==
  \A t, u \in Tasks :
    t # u /\ pc[t] = "holding" /\ pc[u] = "holding" => session[t] # session[u]

(* An entry of the table lives exactly as long as it has users, and counts *)
(* them: it neither leaks nor goes away under a task that waits.           *)
EntryMatchesUsers ==
  \A s \in Sessions :
    /\ count[s] = Cardinality({t \in Tasks : session[t] = s})
    /\ table[s] = NoLock <=> count[s] = 0
    /\ \A t \in Tasks : session[t] = s => mine[t] = table[s]

(* No wake-up is lost, whoever is cancelled when: a lock that is free      *)
(* while tasks wait for it has woken the first of them.                    *)
WakeNotLost ==
  \A l \in LockIds :
    l \notin locked /\ waiters[l] # <<>> => Head(waiters[l]) \in woken
=============================================================================
