--------------------------- MODULE OrderedResume ---------------------------
(***************************************************************************)
(* What the follow-up machinery promises: captured messages queue up in    *)
(* the order of their arrival; each one is either merged into a running    *)
(* agent (once, and never after it was resumed) or resumed when it is at   *)
(* the head, and the next one is resumed only after it has finished.       *)
(***************************************************************************)
EXTENDS Sequences, SequencesExt

CONSTANT Messages

VARIABLES seen,     \* the messages captured so far
          queue,    \* those not handled yet
          resumed   \* the head of the queue is being answered

vars == <<seen, queue, resumed>>

Init == seen = {} /\ queue = <<>> /\ resumed = FALSE

Capture(m) ==
  /\ m \notin seen
  /\ seen' = seen \cup {m}
  /\ queue' = Append(queue, m)
  /\ UNCHANGED resumed

Merge(m) ==
  /\ \E i \in DOMAIN queue :
       /\ queue[i] = m
       /\ resumed => i # 1
       /\ queue' = RemoveAt(queue, i)
  /\ UNCHANGED <<seen, resumed>>

Resume ==
  /\ ~resumed
  /\ queue # <<>>
  /\ resumed' = TRUE
  /\ UNCHANGED <<seen, queue>>

Finish ==
  /\ resumed
  /\ queue' = Tail(queue)
  /\ resumed' = FALSE
  /\ UNCHANGED seen

Next == Resume \/ Finish \/ \E m \in Messages : Capture(m) \/ Merge(m)

Spec == Init /\ [][Next]_vars
=============================================================================
