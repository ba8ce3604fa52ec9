------------------------------ MODULE RateLimit ------------------------------
(***************************************************************************)
(* RateLimitStage (pipeline/rate_limit_check/stage.py) for the messages of *)
(* one session id: at most limit.count of them in a window; a message over *)
(* the limit sleeps with the lock of the session id held ("stall") or is   *)
(* dropped ("discard").  A handler looks at the clock before it waits for  *)
(* the lock and after a sleep, at no other time.                           *)
(*                                                                         *)
(*   limit     the configuration, read once by initialize                  *)
(*   clock     datetime.now(); a tick is the 0.3 s a stall adds            *)
(*   place     where a message is                                          *)
(*   limitq    the lock: its owner, then the messages that wait for it     *)
(*   now       the handler's variable now                                  *)
(*   stamps    event_timestamps                                            *)
(*   wake      the clock at which a sleep ends                             *)
(*   passedAt  history variable: the clock when a message was let through  *)
(***************************************************************************)
EXTENDS Integers, Sequences, SequencesExt, FiniteSets, FiniteSetsExt

CONSTANTS Messages,
          Limits,        \* configurations: [count, strategy]
          Window,        \* rate_limit.time, in ticks
          LastArrival    \* bound: no message arrives after this tick

ASSUME LimitAssumption ==
  /\ \A l \in Limits : l.count \in Int /\ l.strategy \in {"stall", "discard"}
  /\ Window \in Nat /\ LastArrival \in Nat

VARIABLES limit, clock, place, limitq, now, stamps, wake, passedAt

limitVars == <<limit, clock, place, limitq, now, stamps, wake, passedAt>>

Gate == INSTANCE FifoMutex WITH Procs <- Messages, queue <- limitq

InitLimit ==
  /\ limit \in Limits
  /\ clock = 0
  /\ place = [m \in Messages |-> "away"]
  /\ limitq = <<>>
  /\ now = [m \in Messages |-> 0]
  /\ stamps = <<>>
  /\ wake = [m \in Messages |-> 0]
  /\ passedAt = [m \in Messages |-> -1]

Put(m, p) == place' = [place EXCEPT ![m] = p]

(* Mutant of Recent: a stamp at the very edge of the window is dropped.    *)
RecentShort(t) ==
  LET kept == {i \in DOMAIN stamps : stamps[i] > t - Window}
  IN IF kept = {} THEN <<>> ELSE SubSeq(stamps, Min(kept), Len(stamps))

(* _remove_expired_timestamps: from the left, up to the first recent one.  *)
Recent(t) ==
  LET kept == {i \in DOMAIN stamps : stamps[i] >= t - Window}
  IN IF kept = {} THEN <<>> ELSE SubSeq(stamps, Min(kept), Len(stamps))

(* The message goes on to the next stage and gives the lock back.          *)
Pass(m) ==
  /\ Put(m, "passed")
  /\ passedAt' = [passedAt EXCEPT ![m] = clock]
  /\ UNCHANGED wake

(* Mutant of KeepGate: the message sleeps after it gave the lock back.     *)
DropGate(queue) == limitq' = Tail(queue)

(* A message that stalls keeps the lock.                                   *)
KeepGate(queue) == limitq' = queue

(* A round of the loop at the time t as the handler knows it, with the     *)
(* lock's queue.  The sleep is computed from t and counted from the clock. *)
Round(m, t, queue) ==
  LET left == Recent(t)
  IN /\ now' = [now EXCEPT ![m] = t]
     /\ \/ /\ limit.count <= 0
           /\ Pass(m)
           /\ stamps' = left
           /\ limitq' = Tail(queue)
        \/ /\ limit.count > Len(left)
           /\ Pass(m)
           /\ stamps' = Append(left, t)
           /\ limitq' = Tail(queue)
        \/ /\ 0 < limit.count /\ limit.count <= Len(left)
           /\ limit.strategy = "stall"
           /\ Put(m, "asleep")
           /\ wake' = [wake EXCEPT ![m] = clock + (left[1] + Window - t) + 1]
           /\ stamps' = left
           /\ KeepGate(queue)
           /\ UNCHANGED passedAt
        \/ /\ 0 < limit.count /\ limit.count <= Len(left)
           /\ limit.strategy = "discard"
           /\ Put(m, "gone")
           /\ stamps' = left
           /\ limitq' = Tail(queue)
           /\ UNCHANGED <<wake, passedAt>>
  /\ UNCHANGED <<limit, clock>>

(* A message reaches the stage and goes on at once if the lock is free.    *)
ArriveFree(m) ==
  /\ place[m] = "away"
  /\ limitq = <<>>
  /\ Round(m, clock, <<m>>)

ArriveBusy(m) ==
  /\ place[m] = "away"
  /\ limitq # <<>>
  /\ Gate!Request(m)
  /\ Put(m, "queued")
  /\ now' = [now EXCEPT ![m] = clock]
  /\ UNCHANGED <<limit, clock, stamps, wake, passedAt>>

(* The lock comes to a message: now is still the time of its arrival.      *)
TakeGate(m) ==
  /\ place[m] = "queued"
  /\ Gate!Owns(m)
  /\ Round(m, now[m], limitq)

(* The sleep is over: the next round, with a new look at the clock.        *)
WakeUp(m) ==
  /\ place[m] = "asleep"
  /\ clock >= wake[m]
  /\ Round(m, clock, limitq)

(* Time passes, as long as somebody may still look at the clock.  A ready  *)
(* handler runs within a tick: the loop is not blocked for 0.3 s.          *)
Tick ==
  /\ clock < LastArrival \/ \E m \in Messages : place[m] = "asleep"
  /\ \A m \in Messages :
       /\ ~(place[m] = "queued" /\ Gate!Owns(m))
       /\ place[m] = "asleep" => clock < wake[m]
  /\ clock' = clock + 1
  /\ UNCHANGED <<limit, place, limitq, now, stamps, wake, passedAt>>

-----------------------------------------------------------------------------
(* Properties.                                                             *)

Places == {"away", "queued", "asleep", "passed", "gone"}

(* The types of the variables; who is in the queue of the lock, and that   *)
(* only its owner sleeps.                                                  *)
LimitTypeOK ==
  /\ limit \in Limits
  /\ clock \in Nat
  /\ place \in [Messages -> Places]
  /\ limitq \in Seq(Messages)
  /\ IsInjective(limitq)
  /\ ToSet(limitq) = {m \in Messages : place[m] \in {"queued", "asleep"}}
  /\ \A i \in DOMAIN limitq : i > 1 => place[limitq[i]] = "queued"
  /\ now \in [Messages -> 0..clock]
  /\ stamps \in Seq(0..clock)
  /\ wake \in [Messages -> Nat]
  /\ passedAt \in [Messages -> -1..clock]

(* However late the lock came to a message, and however old the time it    *)
(* was counted under: no window of time, wherever it starts, sees more     *)
(* messages let through than the limit allows.                             *)
WindowBound ==
  limit.count > 0 =>
    \A t \in {passedAt[m] : m \in Messages} \ {-1} :
      Cardinality({m \in Messages : passedAt[m] \in t..(t + Window)})
        <= limit.count
=============================================================================
