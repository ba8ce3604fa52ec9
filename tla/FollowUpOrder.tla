--------------------------- MODULE FollowUpOrder ---------------------------
(***************************************************************************)
(* The follow-up order state of one session (UMO): the value that          *)
(* pipeline/process_stage/follow_up.py keeps in _FOLLOW_UP_ORDER_STATE and *)
(* the synchronous part of each operation on it.  Every operation runs     *)
(* under the state's asyncio.Condition and awaits nothing while it holds   *)
(* it, so each one is a single step of its caller; the condition itself    *)
(* carries no data and is not part of the value.                           *)
(***************************************************************************)
EXTENDS Naturals

Status == {"pending", "active", "consumed", "finished"}

(* The dictionary has no entry for the session.  An entry that is created  *)
(* again starts from the same counters.                                    *)
NoOrder == [live |-> FALSE, statuses |-> [s \in {} |-> "pending"],
            nextOrder |-> 0, nextTurn |-> 0]

(* The shape of a value of the order state.                                *)
OrderOK(o) ==
  /\ o = [live |-> o.live, statuses |-> o.statuses,
          nextOrder |-> o.nextOrder, nextTurn |-> o.nextTurn]
  /\ o.live \in BOOLEAN
  /\ o.nextOrder \in Nat
  /\ o.nextTurn \in Nat
  /\ \A s \in DOMAIN o.statuses : s \in Nat /\ o.statuses[s] \in Status

Opened(o) == IF o.live THEN o ELSE [NoOrder EXCEPT !.live = TRUE]

SetSlot(o, seq, status) ==
  [o EXCEPT !.statuses = [s \in DOMAIN o.statuses \cup {seq} |->
                            IF s = seq THEN status ELSE o.statuses[s]]]

Handled(o, seq) ==
  /\ seq \in DOMAIN o.statuses
  /\ o.statuses[seq] \in {"consumed", "finished"}

(* The first slot, from nextTurn on, that is not handled.                  *)
FirstUnhandled(o) ==
  CHOOSE n \in o.nextTurn .. o.nextOrder :
    /\ ~Handled(o, n)
    /\ \A m \in o.nextTurn .. (n - 1) : Handled(o, m)

(* Mutant of Advanced: the slot the turn stops at is forgotten too.        *)
AdvancedPastHead(o) ==
  LET turn == FirstUnhandled(o)
      kept == {s \in DOMAIN o.statuses : ~(o.nextTurn <= s /\ s <= turn)}
  IN  [live |-> o.live, statuses |-> [s \in kept |-> o.statuses[s]],
       nextOrder |-> o.nextOrder, nextTurn |-> turn]

(* Mutant of Advanced: the turn is put one slot before the head.           *)
AdvancedShort(o) ==
  LET turn == FirstUnhandled(o)
      kept == {s \in DOMAIN o.statuses : ~(o.nextTurn <= s /\ s < turn)}
  IN  [live |-> o.live, statuses |-> [s \in kept |-> o.statuses[s]],
       nextOrder |-> o.nextOrder, nextTurn |-> turn - 1]

(* Skip the handled slots at the head and forget them.                     *)
Advanced(o) ==
  LET turn == FirstUnhandled(o)
      kept == {s \in DOMAIN o.statuses : ~(o.nextTurn <= s /\ s < turn)}
  IN  [live |-> o.live, statuses |-> [s \in kept |-> o.statuses[s]],
       nextOrder |-> o.nextOrder, nextTurn |-> turn]

(* busy: some agent runner is registered for the session.                  *)
Released(o, busy) ==
  IF DOMAIN o.statuses = {} /\ ~busy THEN NoOrder ELSE o

(* The slot of a new capture is Opened(o).nextOrder.                       *)
Allocate(o) ==
  LET p == Opened(o)
  IN  [SetSlot(p, p.nextOrder, "pending") EXCEPT !.nextOrder = @ + 1]

MarkConsumed(o, seq, busy) ==
  IF ~o.live THEN o
  ELSE IF seq \in DOMAIN o.statuses /\ o.statuses[seq] # "finished"
       THEN Released(Advanced(SetSlot(o, seq, "consumed")), busy)
       ELSE Released(Advanced(o), busy)

Activate(o, seq) ==
  IF seq \in DOMAIN o.statuses THEN SetSlot(o, seq, "active") ELSE o

(* Mutant of TurnHasCome: everybody at or before the turn may go on, and   *)
(* so may the slot right behind it.                                        *)
TurnIsNear(o, seq) == ~o.live \/ seq <= o.nextTurn + 1

(* Whether _activate_and_wait_follow_up_turn returns now: it does not wait *)
(* when the entry is gone.                                                 *)
TurnHasCome(o, seq) == ~o.live \/ o.nextTurn = seq

(* Mutant of FinishTurn: the slot is finished, the turn stays where it is. *)
FinishWithoutAdvance(o, seq, busy) ==
  IF seq \in DOMAIN o.statuses THEN SetSlot(o, seq, "finished") ELSE o

FinishTurn(o, seq, busy) ==
  IF ~o.live THEN o
  ELSE IF seq \in DOMAIN o.statuses
       THEN Released(Advanced(SetSlot(o, seq, "finished")), busy)
       ELSE Released(Advanced(o), busy)
=============================================================================
