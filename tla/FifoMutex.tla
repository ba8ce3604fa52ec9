----------------------------- MODULE FifoMutex -----------------------------
(***************************************************************************)
(* What the session lock promises for one session: a queue of tasks whose  *)
(* head owns the lock.  SessionLock implements it; the modules that take a *)
(* lock use it.                                                            *)
(***************************************************************************)
EXTENDS Sequences, SequencesExt

CONSTANT Procs

VARIABLE queue

Owns(p) == queue # <<>> /\ Head(queue) = p

Request(p) ==
  /\ p \notin ToSet(queue)
  /\ queue' = Append(queue, p)

Release(p) ==
  /\ Owns(p)
  /\ queue' = Tail(queue)

(* A task that is cancelled while it waits leaves its place.               *)
Abandon(p) ==
  /\ ~Owns(p)
  /\ \E i \in DOMAIN queue : queue[i] = p /\ queue' = RemoveAt(queue, i)

Init == queue = <<>>

Next == \E p \in Procs : Request(p) \/ Release(p) \/ Abandon(p)

Spec == Init /\ [][Next]_queue
=============================================================================
