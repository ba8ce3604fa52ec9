--------------------------- MODULE SessionLockFifo ---------------------------
(***************************************************************************)
(* What SessionLock implements: a first-come first-served lock for each    *)
(* session, FifoMutex, although the lock object of a session changes.      *)
(* Watched stands for any session.                                         *)
(***************************************************************************)
EXTENDS SessionLock

CONSTANT Watched

ASSUME WatchedAssumption == Watched \in Sessions

(* The queue of a session: the task inside, then those that wait.          *)
Holders(s) == {t \in Tasks : pc[t] = "holding" /\ session[t] = s}

QueueOf(s) ==
  SetToSeq(Holders(s)) \o
  IF table[s] = NoLock THEN <<>> ELSE waiters[table[s]]

Mutex == INSTANCE FifoMutex WITH Procs <- Tasks, queue <- QueueOf(Watched)

(* The lock of a session is a first-come first-served lock.                *)
FifoPerSession == Mutex!Spec
=============================================================================
