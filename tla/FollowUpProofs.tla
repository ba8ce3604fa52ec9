--------------------------- MODULE FollowUpProofs ---------------------------
(***************************************************************************)
(* TypeOK, SlotsHeld, TurnOrder and OpenTicketsHaveRunner hold in every    *)
(* behaviour of FollowUp, which implements OrderedResume, for any set of   *)
(* messages, any senders and any of the faults.                            *)
(***************************************************************************)
EXTENDS FollowUp, TLAPS, WellFoundedInduction, SequenceTheorems,
        FiniteSetTheorems

-----------------------------------------------------------------------------
(* The order state.                                                        *)

(* A non-empty set of naturals has a least element.                        *)
LEMMA LeastNatural ==
  ASSUME NEW T \in SUBSET Nat, T # {}
  PROVE  \E n \in T : \A m \in T : n <= m
<1> DEFINE R == OpToRel(<, Nat)
<1>1. IsWellFoundedOn(R, Nat)
  BY NatLessThanWellFounded
<1>2. \E x \in T : \A y \in T : ~(<<y, x>> \in R)
  <2> HIDE DEF R
  <2> QED BY <1>1, WFMin
<1>3. PICK x \in T : \A y \in T : ~(<<y, x>> \in R)
  BY <1>2
<1>4. \A y \in T : ~(y < x)
  BY <1>3 DEF OpToRel
<1> QED BY <1>4

(* The invariant of the order state by itself: its slots lie between the   *)
(* turn and the next free one, and a dropped entry is the initial one.     *)
OrderInv(o) ==
  /\ OrderOK(o)
  /\ o.nextTurn <= o.nextOrder
  /\ \A s \in DOMAIN o.statuses : o.nextTurn <= s /\ s < o.nextOrder
  /\ ~o.live => o = NoOrder

(* The turn stops at the first slot that is not handled.                   *)
LEMMA FirstUnhandledFacts ==
  ASSUME NEW o, OrderInv(o)
  PROVE  LET t == FirstUnhandled(o)
         IN  /\ t \in Nat /\ o.nextTurn <= t /\ t <= o.nextOrder
             /\ ~Handled(o, t)
             /\ \A m \in o.nextTurn .. (t - 1) : Handled(o, m)
<1> DEFINE T == {n \in o.nextTurn .. o.nextOrder : ~Handled(o, n)}
<1>1. o.nextTurn \in Nat /\ o.nextOrder \in Nat /\ o.nextTurn <= o.nextOrder
  BY DEF OrderInv, OrderOK
<1>2. o.nextOrder \in T
  BY <1>1 DEF OrderInv, Handled
<1>3. T \in SUBSET Nat
  BY <1>1
<1>4. PICK n \in T : \A m \in T : n <= m
  <2> HIDE DEF T
  <2> QED BY <1>2, <1>3, LeastNatural
<1>5. \A m \in o.nextTurn .. (n - 1) : Handled(o, m)
  BY <1>1, <1>3, <1>4
<1>6. /\ n \in o.nextTurn .. o.nextOrder
      /\ ~Handled(o, n)
      /\ \A m \in o.nextTurn .. (n - 1) : Handled(o, m)
  BY <1>4, <1>5
<1>7. /\ FirstUnhandled(o) \in o.nextTurn .. o.nextOrder
      /\ ~Handled(o, FirstUnhandled(o))
      /\ \A m \in o.nextTurn .. (FirstUnhandled(o) - 1) : Handled(o, m)
  BY <1>6 DEF FirstUnhandled
<1> QED BY <1>1, <1>7

(* q's slot may have been handled between a and b; every other slot that   *)
(* is not handled in a keeps its place and its status, nothing new comes   *)
(* up, and the turn does not pass an unhandled slot.                       *)
Moved(a, b, q) ==
  /\ b.live = a.live
  /\ b.nextOrder = a.nextOrder
  /\ a.nextTurn <= b.nextTurn
  /\ \A s \in DOMAIN b.statuses :
       /\ s \in DOMAIN a.statuses
       /\ b.statuses[s] = a.statuses[s] \/ (s = q /\ Handled(b, s))
  /\ \A s \in DOMAIN a.statuses : s # q /\ ~Handled(a, s) =>
       /\ s \in DOMAIN b.statuses
       /\ b.statuses[s] = a.statuses[s]
       /\ a.nextTurn = s => b.nextTurn = s

(* Forgetting the handled head slots.                                      *)
LEMMA AdvancedFacts ==
  ASSUME NEW o, OrderInv(o)
  PROVE  OrderInv(Advanced(o)) /\ \A q : Moved(o, Advanced(o), q)
<1> DEFINE t == FirstUnhandled(o)
           a == Advanced(o)
           K == {s \in DOMAIN o.statuses : ~(o.nextTurn <= s /\ s < t)}
<1>1. /\ t \in Nat /\ o.nextTurn <= t /\ t <= o.nextOrder
      /\ ~Handled(o, t)
      /\ \A m \in o.nextTurn .. (t - 1) : Handled(o, m)
  BY FirstUnhandledFacts
<1>2. OrderOK(o)
  BY DEF OrderInv
<1>3. a = [live |-> o.live, statuses |-> [s \in K |-> o.statuses[s]],
           nextOrder |-> o.nextOrder, nextTurn |-> t]
  BY DEF Advanced
<1> HIDE DEF t, a
<1>4. DOMAIN a.statuses = K /\ \A s \in K : a.statuses[s] = o.statuses[s]
  BY <1>3
<1>5. OrderOK(a)
  BY <1>1, <1>2, <1>3 DEF OrderOK
<1>6. \A s \in K : t <= s /\ s < o.nextOrder
  BY <1>1, <1>2 DEF OrderInv, OrderOK
<1>7. ~o.live => a = NoOrder
  <2>1. SUFFICES ASSUME ~o.live PROVE a = NoOrder
    OBVIOUS
  <2>2. o.live = FALSE /\ o.nextOrder = 0 /\ DOMAIN o.statuses = {}
    BY <2>1 DEF OrderInv, NoOrder
  <2>3. t = 0 /\ K = {}
    BY <1>1, <2>2
  <2> QED BY <1>3, <2>2, <2>3 DEF NoOrder
<1>8. OrderInv(a)
  BY <1>1, <1>3, <1>4, <1>5, <1>6, <1>7 DEF OrderInv
<1>9. ASSUME NEW s \in DOMAIN o.statuses, ~Handled(o, s)
      PROVE  s \in K /\ (o.nextTurn = s => t = s)
  BY <1>1, <1>2, <1>9 DEF OrderInv, OrderOK
<1>10. ASSUME NEW q PROVE Moved(o, a, q)
  BY <1>1, <1>3, <1>4, <1>9 DEF Moved
<1> QED BY <1>8, <1>10 DEF a

(* Writing one slot that lies in the range of the slots.                   *)
LEMMA SetSlotFacts ==
  ASSUME NEW o, OrderOK(o), NEW q \in Nat, NEW st \in Status
  PROVE  LET b == SetSlot(o, q, st)
         IN  /\ OrderOK(b)
             /\ b.live = o.live /\ b.nextOrder = o.nextOrder
             /\ b.nextTurn = o.nextTurn
             /\ DOMAIN b.statuses = DOMAIN o.statuses \cup {q}
             /\ b.statuses[q] = st
             /\ \A s \in DOMAIN o.statuses : s # q => b.statuses[s] = o.statuses[s]
<1> DEFINE F == [s \in DOMAIN o.statuses \cup {q} |->
                   IF s = q THEN st ELSE o.statuses[s]]
           b == SetSlot(o, q, st)
<1>1. b = [o EXCEPT !.statuses = F]
  BY DEF SetSlot
<1>2. b = [live |-> o.live, statuses |-> F,
           nextOrder |-> o.nextOrder, nextTurn |-> o.nextTurn]
  BY <1>1 DEF OrderOK
<1>3. /\ DOMAIN F = DOMAIN o.statuses \cup {q}
      /\ F[q] = st
      /\ \A s \in DOMAIN o.statuses : s # q => F[s] = o.statuses[s]
  OBVIOUS
<1> HIDE DEF F, b
<1>4. OrderOK(b)
  BY <1>2, <1>3 DEF OrderOK
<1> QED BY <1>2, <1>3, <1>4 DEF b

LEMMA NoOrderFacts ==
  /\ OrderInv(NoOrder)
  /\ ~NoOrder.live
  /\ DOMAIN NoOrder.statuses = {}
BY DEF OrderInv, OrderOK, NoOrder

(* Allocate gives out the slot nextOrder and moves nothing else.           *)
LEMMA AllocateFacts ==
  ASSUME NEW o, OrderInv(o)
  PROVE  LET b == Allocate(o)
         IN  /\ OrderInv(b)
             /\ b.live
             /\ Opened(o).nextOrder = o.nextOrder
             /\ b.nextOrder = o.nextOrder + 1
             /\ b.nextTurn = o.nextTurn
             /\ DOMAIN b.statuses = DOMAIN o.statuses \cup {o.nextOrder}
             /\ b.statuses[o.nextOrder] = "pending"
             /\ \A s \in DOMAIN o.statuses : b.statuses[s] = o.statuses[s]
<1> DEFINE p == Opened(o)
           c == SetSlot(p, p.nextOrder, "pending")
           b == Allocate(o)
<1>1. OrderInv(p) /\ p.live /\ p.nextOrder = o.nextOrder
      /\ p.nextTurn = o.nextTurn /\ p.statuses = o.statuses
  BY DEF OrderInv, OrderOK, Opened, NoOrder
<1> HIDE DEF p
<1>a. OrderOK(p) /\ p.nextOrder \in Nat /\ "pending" \in Status
  BY <1>1 DEF OrderInv, OrderOK, Status
<1>2. /\ OrderOK(c)
      /\ c.live = p.live /\ c.nextOrder = p.nextOrder
      /\ c.nextTurn = p.nextTurn
      /\ DOMAIN c.statuses = DOMAIN p.statuses \cup {p.nextOrder}
      /\ c.statuses[p.nextOrder] = "pending"
      /\ \A s \in DOMAIN p.statuses :
           s # p.nextOrder => c.statuses[s] = p.statuses[s]
  BY <1>a, SetSlotFacts
<1>3. b = [c EXCEPT !.nextOrder = c.nextOrder + 1]
  BY DEF Allocate, p
<1> HIDE DEF c, b
<1>4. b = [live |-> c.live, statuses |-> c.statuses,
           nextOrder |-> c.nextOrder + 1, nextTurn |-> c.nextTurn]
  BY <1>2, <1>3 DEF OrderOK
<1>5. OrderOK(b)
  BY <1>2, <1>4 DEF OrderOK
<1>6. OrderInv(b)
  BY <1>1, <1>2, <1>4, <1>5 DEF OrderInv, OrderOK
<1> QED BY <1>1, <1>2, <1>4, <1>6 DEF b, p, OrderInv, OrderOK

(* Marking a slot that exists as handled, and skipping.                    *)
LEMMA HandleFacts ==
  ASSUME NEW o, OrderInv(o), NEW q \in DOMAIN o.statuses,
         NEW st \in {"consumed", "finished"}
  PROVE  LET a == Advanced(SetSlot(o, q, st))
         IN  /\ OrderInv(a)
             /\ Moved(o, a, q)
             /\ q \in DOMAIN a.statuses => Handled(a, q)
<1> DEFINE b == SetSlot(o, q, st)
           a == Advanced(b)
<1>1. OrderOK(o) /\ q \in Nat /\ st \in Status
  BY DEF OrderInv, OrderOK, Status
<1>a. /\ OrderOK(b)
      /\ b.live = o.live /\ b.nextOrder = o.nextOrder
      /\ b.nextTurn = o.nextTurn
      /\ DOMAIN b.statuses = DOMAIN o.statuses \cup {q}
      /\ b.statuses[q] = st
      /\ \A s \in DOMAIN o.statuses : s # q => b.statuses[s] = o.statuses[s]
  BY <1>1, SetSlotFacts
<1>2. /\ OrderOK(b)
      /\ b.live = o.live /\ b.nextOrder = o.nextOrder
      /\ b.nextTurn = o.nextTurn
      /\ DOMAIN b.statuses = DOMAIN o.statuses
      /\ b.statuses[q] = st
      /\ \A s \in DOMAIN o.statuses : s # q => b.statuses[s] = o.statuses[s]
  BY <1>a
<1> HIDE DEF b
<1>3. OrderInv(b)
  <2>1. o.live
    BY NoOrderFacts DEF OrderInv
  <2> QED BY <1>2, <2>1 DEF OrderInv
<1>4. OrderInv(a) /\ Moved(b, a, q)
  BY <1>3, AdvancedFacts
<1> HIDE DEF a
<1>5. Moved(o, a, q)
  BY <1>2, <1>4 DEF Moved, Handled
<1>6. q \in DOMAIN a.statuses => Handled(a, q)
  BY <1>2, <1>4 DEF Moved, Handled
<1> QED BY <1>4, <1>5, <1>6 DEF a, b

(* What MarkConsumed and FinishTurn do: the entry stays away, or it is     *)
(* dropped with no unhandled slot but q left and no runner active, or it   *)
(* moves on.                                                               *)
Handles(o, n, q, busy) ==
  \/ ~o.live /\ n = o
  \/ /\ o.live /\ ~busy
     /\ n = NoOrder
     /\ \A s \in DOMAIN o.statuses : s = q \/ Handled(o, s)
  \/ /\ o.live
     /\ Moved(o, n, q)
     /\ q \in DOMAIN n.statuses => Handled(n, q)

LEMMA ReleasedFacts ==
  ASSUME NEW o, OrderInv(o), o.live, NEW q, NEW busy \in BOOLEAN,
         NEW a, OrderInv(a), Moved(o, a, q),
         q \in DOMAIN a.statuses => Handled(a, q)
  PROVE  /\ OrderInv(Released(a, busy))
         /\ Handles(o, Released(a, busy), q, busy)
BY NoOrderFacts DEF Released, Handles, Moved

LEMMA MarkConsumedFacts ==
  ASSUME NEW o, OrderInv(o), NEW q, NEW busy \in BOOLEAN
  PROVE  LET n == MarkConsumed(o, q, busy)
         IN  OrderInv(n) /\ Handles(o, n, q, busy)
<1>1. CASE ~o.live
  BY <1>1 DEF MarkConsumed, Handles
<1>2. CASE o.live /\ q \in DOMAIN o.statuses /\ o.statuses[q] # "finished"
  BY <1>2, HandleFacts, ReleasedFacts DEF MarkConsumed
<1>3. CASE o.live /\ ~(q \in DOMAIN o.statuses /\ o.statuses[q] # "finished")
  <2>1. q \in DOMAIN Advanced(o).statuses => Handled(Advanced(o), q)
    BY <1>3, AdvancedFacts DEF Moved, Handled
  <2> QED BY <1>3, <2>1, AdvancedFacts, ReleasedFacts DEF MarkConsumed
<1> QED BY <1>1, <1>2, <1>3

LEMMA FinishTurnFacts ==
  ASSUME NEW o, OrderInv(o), NEW q, NEW busy \in BOOLEAN
  PROVE  LET n == FinishTurn(o, q, busy)
         IN  OrderInv(n) /\ Handles(o, n, q, busy)
<1>1. CASE ~o.live
  BY <1>1 DEF FinishTurn, Handles
<1>2. CASE o.live /\ q \in DOMAIN o.statuses
  BY <1>2, HandleFacts, ReleasedFacts DEF FinishTurn
<1>3. CASE o.live /\ q \notin DOMAIN o.statuses
  <2>1. q \notin DOMAIN Advanced(o).statuses
    BY <1>3, AdvancedFacts DEF Moved
  <2> QED BY <1>3, <2>1, AdvancedFacts, ReleasedFacts DEF FinishTurn
<1> QED BY <1>1, <1>2, <1>3

-----------------------------------------------------------------------------
(* Types.                                                                  *)

LEMMA ToSetAppend ==
  ASSUME NEW S, NEW s \in Seq(S), NEW x \in S
  PROVE  ToSet(Append(s, x)) = ToSet(s) \cup {x}
<1>1. /\ DOMAIN s = 1 .. Len(s) /\ Len(s) \in Nat
      /\ DOMAIN Append(s, x) = 1 .. Len(s) + 1
      /\ Append(s, x)[Len(s) + 1] = x
      /\ \A i \in 1 .. Len(s) : Append(s, x)[i] = s[i]
  OBVIOUS
<1>2. 1 .. Len(s) + 1 = (1 .. Len(s)) \cup {Len(s) + 1}
  BY <1>1
<1> QED BY <1>1, <1>2 DEF ToSet

LEMMA ToSetType ==
  ASSUME NEW S, NEW s \in Seq(S)
  PROVE  ToSet(s) \subseteq S
BY DEF ToSet

LEMMA ToSetEmpty == ToSet(<<>>) = {}
BY DEF ToSet

LEMMA ActivateFacts ==
  ASSUME NEW o, OrderInv(o), NEW q \in DOMAIN o.statuses
  PROVE  LET b == Activate(o, q)
         IN  /\ OrderInv(b)
             /\ b.live = o.live /\ b.nextOrder = o.nextOrder
             /\ b.nextTurn = o.nextTurn
             /\ DOMAIN b.statuses = DOMAIN o.statuses
             /\ b.statuses[q] = "active"
             /\ \A s \in DOMAIN o.statuses : s # q => b.statuses[s] = o.statuses[s]
<1> DEFINE b == SetSlot(o, q, "active")
<1>1. OrderOK(o) /\ q \in Nat /\ "active" \in Status
  BY DEF OrderInv, OrderOK, Status
<1>2. /\ OrderOK(b)
      /\ b.live = o.live /\ b.nextOrder = o.nextOrder
      /\ b.nextTurn = o.nextTurn
      /\ DOMAIN b.statuses = DOMAIN o.statuses \cup {q}
      /\ b.statuses[q] = "active"
      /\ \A s \in DOMAIN o.statuses : s # q => b.statuses[s] = o.statuses[s]
  BY <1>1, SetSlotFacts
<1> HIDE DEF b
<1>3. o.live
  BY NoOrderFacts DEF OrderInv
<1>4. OrderInv(b)
  BY <1>2, <1>3 DEF OrderInv
<1>5. Activate(o, q) = b
  BY DEF Activate, b
<1> QED BY <1>2, <1>4, <1>5

LEMMA ActivateAbsent ==
  ASSUME NEW o, NEW q, q \notin DOMAIN o.statuses
  PROVE  Activate(o, q) = o
BY DEF Activate

LEMMA BusyType == Busy \in BOOLEAN
BY DEF Busy

LEMMA InitType == Init => TypeOK /\ OrderInv(order)
BY NoOrderFacts DEF Init, TypeOK, OrderInv, PCs, Tickets

(* Resolving the tickets of one runner.                                    *)
LEMMA ResolveType ==
  ASSUME TypeOK, NEW e \in Events, NEW outcome \in {"returned", "consumed"},
         Resolve(e, outcome)
  PROVE  ticket' \in [Events -> Tickets] /\ pending' \in [Events -> Seq(Events)]
BY DEF TypeOK, Resolve, Tickets

(* Every step keeps the types and the range of the order state's slots.    *)
LEMMA NextType ==
  ASSUME TypeOK, OrderInv(order), [Next]_vars
  PROVE  TypeOK' /\ OrderInv(order')
<1>1. CASE UNCHANGED vars
  BY <1>1 DEF vars, runVars, ticketVars, TypeOK
<1>2. ASSUME NEW e \in Events, Step(e)
      PROVE  TypeOK' /\ OrderInv(order')
  <2> USE <1>2
  <2>o. OrderInv(order') => OrderOK(order')
    BY DEF OrderInv
  <2>q. /\ Lock!Request(e) => lockq' \in Seq(Events)
        /\ Lock!Release(e) => lockq' \in Seq(Events)
    <3>1. lockq \in Seq(Events)
      BY DEF TypeOK
    <3>2. lockq # <<>> => Tail(lockq) \in Seq(Events)
      BY <3>1
    <3>3. Lock!Release(e) => lockq # <<>> /\ lockq' = Tail(lockq)
      BY DEF Lock!Release, Lock!Owns
    <3>4. Lock!Request(e) => lockq' = Append(lockq, e)
      BY DEF Lock!Request
    <3> QED BY <3>1, <3>2, <3>3, <3>4
  <2>1. CASE Capture(e)
    <3>1. OrderInv(order') /\ Opened(order).nextOrder \in Nat
      BY <2>1, AllocateFacts DEF Capture, OrderInv, OrderOK
    <3>2. active \in Events
      BY <2>1 DEF Capture, CanCapture, Busy, TypeOK
    <3> QED BY <2>1, <2>o, <3>1, <3>2
         DEF Capture, TypeOK, Goto, PCs, Tickets
  <2>2. CASE Bypass(e)
    BY <2>2 DEF Bypass, TypeOK, Goto, PCs, runVars, ticketVars
  <2>3. CASE WakeConsumed(e)
    <3>1. OrderInv(order')
      BY <2>3, BusyType, MarkConsumedFacts DEF WakeConsumed
    <3> QED BY <2>3, <2>o, <3>1 DEF WakeConsumed, TypeOK, Goto, PCs, runVars
  <2>4. CASE WakeReturned(e)
    <3>1. OrderInv(order')
      BY <2>4, ActivateFacts, ActivateAbsent DEF WakeReturned
    <3> QED BY <2>4, <2>o, <3>1 DEF WakeReturned, TypeOK, Goto, PCs, runVars
  <2>5. CASE TakeTurn(e)
    BY <2>5 DEF TakeTurn, TypeOK, Goto, PCs, runVars, ticketVars
  <2>6. CASE RunMonitor(e)
    <3>1. OrderInv(order')
      BY <2>6, BusyType, MarkConsumedFacts DEF RunMonitor
    <3> QED BY <2>6, <2>o, <3>1 DEF RunMonitor, TypeOK, runVars
  <2>7. CASE EnterLock(e)
    BY <2>7, <2>q DEF EnterLock, TypeOK, Goto, PCs, runVars, ticketVars
  <2>8. CASE Acquire(e)
    BY <2>8 DEF Acquire, TypeOK, Goto, PCs, runVars, ticketVars
  <2>9. CASE BuildEnds(e)
    BY <2>9, <2>q DEF BuildEnds, TypeOK, Goto, PCs, runVars, ticketVars
  <2>10. CASE Register(e)
    BY <2>10 DEF Register, TypeOK, Goto, PCs, ticketVars
  <2>11. CASE ToolResult(e)
    BY <2>11, ResolveType, ToSetType DEF ToolResult, TypeOK
  <2>12. CASE AskModel(e)
    BY <2>12 DEF AskModel, TypeOK, ticketVars
  <2>13. CASE ToolSendsDirect(e)
    BY <2>13, ResolveType, ToSetType DEF ToolSendsDirect, TypeOK, Goto, PCs
  <2>14. CASE Complete(e)
    BY <2>14 DEF Complete, TypeOK, Goto, PCs, ticketVars
  <2>15. CASE AbortStep(e)
    BY <2>15 DEF AbortStep, TypeOK, Goto, PCs, ticketVars
  <2>16. CASE ReturnTickets(e)
    BY <2>16, ResolveType DEF ReturnTickets, TypeOK, Goto, PCs
  <2>17. CASE ErrorResponse(e)
    BY <2>17, ResolveType DEF ErrorResponse, TypeOK, Goto, PCs
  <2>18. CASE LeaveLoop(e)
    BY <2>18 DEF LeaveLoop, TypeOK, Goto, PCs, runVars, ticketVars
  <2>19. CASE PipelineBreak(e)
    BY <2>19, <2>q DEF PipelineBreak, Unregister, TypeOK, Goto, PCs, ticketVars
  <2>20. CASE Close(e)
    BY <2>20, <2>q DEF Close, Unregister, TypeOK, Goto, PCs, ticketVars
  <2>21. CASE Finalize(e)
    <3>1. OrderInv(order')
      BY <2>21, BusyType, FinishTurnFacts DEF Finalize
    <3> QED BY <2>21, <2>o, <3>1 DEF Finalize, TypeOK, Goto, PCs, runVars
  <2>22. CASE RequestStop(e)
    BY <2>22 DEF RequestStop, TypeOK, ticketVars
  <2>23. CASE SeeStop(e)
    BY <2>23 DEF SeeStop, TypeOK, ticketVars
  <2> QED
    BY <2>1, <2>2, <2>3, <2>4, <2>5, <2>6, <2>7, <2>8, <2>9, <2>10, <2>11,
       <2>12, <2>13, <2>14, <2>15, <2>16, <2>17, <2>18, <2>19, <2>20, <2>21,
       <2>22, <2>23 DEF Step, Arrive, Continue, Wake, Answer
<1> QED BY <1>1, <1>2 DEF Next

-----------------------------------------------------------------------------
(* Tickets.                                                                *)

(* Where a task may be for each state of its ticket, and which tickets the *)
(* queues of the runners hold.                                             *)
TicketInv ==
  /\ \A e \in Events :
       /\ pc[e] = "idle" => ticket[e] = "none" /\ ~monitor[e]
       /\ pc[e] = "ticket" => ticket[e] # "none"
       /\ pc[e] = "turn" => ticket[e] = "returned"
       /\ ticket[e] = "open" => pc[e] = "ticket" /\ monitor[e]
       /\ ticket[e] = "consumed" => pc[e] \in {"ticket", "done"}
       /\ ticket[e] = "consumed" /\ monitor[e] => pc[e] = "ticket"
  /\ \A r \in Events : \A f \in ToSet(pending[r]) : ticket[f] = "open"
  /\ \A r1, r2 \in Events :
       r1 # r2 => ToSet(pending[r1]) \cap ToSet(pending[r2]) = {}

LEMMA InitTicket == Init => TicketInv
BY ToSetEmpty DEF Init, TicketInv

(* What resolving a runner's tickets does to the tickets of all tasks.     *)
LEMMA ResolveTicket ==
  ASSUME TypeOK, TicketInv, NEW e \in Events,
         NEW outcome \in {"returned", "consumed"}, Resolve(e, outcome)
  PROVE  /\ \A f \in Events :
              \/ ticket'[f] = ticket[f]
              \/ ticket[f] = "open" /\ ticket'[f] = outcome
         /\ \A r \in Events : \A f \in ToSet(pending'[r]) : ticket'[f] = "open"
         /\ \A r1, r2 \in Events :
              r1 # r2 => ToSet(pending'[r1]) \cap ToSet(pending'[r2]) = {}
<1>1. \A f \in Events : ticket'[f] = IF f \in ToSet(pending[e])
                                     THEN outcome ELSE ticket[f]
  BY DEF Resolve
<1>2. \A r \in Events : pending'[r] = IF r = e THEN <<>> ELSE pending[r]
  BY DEF Resolve, TypeOK
<1>3. \A r \in Events : ToSet(pending[r]) \subseteq Events
  BY ToSetType DEF TypeOK
<1> HIDE DEF ToSet
<1> QED BY <1>1, <1>2, <1>3, ToSetEmpty DEF TicketInv

LEMMA NextTicket ==
  ASSUME TypeOK, TicketInv, [Next]_vars
  PROVE  TicketInv'
<1>1. CASE UNCHANGED vars
  BY <1>1 DEF vars, runVars, ticketVars, TicketInv
<1>2. ASSUME NEW e \in Events, Step(e)
      PROVE  TicketInv'
  <2> USE <1>2
  <2>1. CASE Capture(e)
    <3>1. active \in Events
      BY <2>1 DEF Capture, CanCapture, Busy, TypeOK
    <3>2. \A r \in Events : ToSet(pending'[r]) =
            IF r = active THEN ToSet(pending[r]) \cup {e} ELSE ToSet(pending[r])
      <4>1. \A r \in Events : pending'[r] =
              IF r = active THEN Append(pending[r], e) ELSE pending[r]
        BY <2>1, <3>1 DEF Capture, TypeOK
      <4>2. \A r \in Events : pending[r] \in Seq(Events)
        BY DEF TypeOK
      <4>3. \A r \in Events : ToSet(Append(pending[r], e)) = ToSet(pending[r]) \cup {e}
        BY <4>2, ToSetAppend
      <4> QED BY <4>1, <4>3
    <3>3. \A r \in Events : e \notin ToSet(pending[r])
      BY <2>1 DEF Capture, TicketInv
    <3>4. \A r \in Events : ToSet(pending[r]) \subseteq Events
      BY ToSetType DEF TypeOK
    <3>5. /\ pc' = [pc EXCEPT ![e] = "ticket"]
          /\ ticket' = [ticket EXCEPT ![e] = "open"]
          /\ monitor' = [monitor EXCEPT ![e] = TRUE]
      BY <2>1 DEF Capture, Goto
    <3>6. \A f \in Events : /\ pc'[f] = IF f = e THEN "ticket" ELSE pc[f]
                            /\ ticket'[f] = IF f = e THEN "open" ELSE ticket[f]
                            /\ monitor'[f] = IF f = e THEN TRUE ELSE monitor[f]
      BY <3>5 DEF TypeOK
    <3>7. pc[e] = "idle"
      BY <2>1 DEF Capture
    <3>8. \A r \in Events : \A f \in ToSet(pending'[r]) : ticket'[f] = "open"
      <4>1. \A r \in Events : \A f \in ToSet(pending[r]) :
              f \in Events /\ f # e /\ ticket[f] = "open"
        BY <3>3, <3>4 DEF TicketInv
      <4>2. ASSUME NEW r \in Events, NEW f \in ToSet(pending'[r])
            PROVE  f = e \/ f \in ToSet(pending[r])
        BY <3>2, <4>2
      <4> QED BY <3>6, <4>1, <4>2
    <3>9. \A r1, r2 \in Events :
            r1 # r2 => ToSet(pending'[r1]) \cap ToSet(pending'[r2]) = {}
      <4>1. \A r1, r2 \in Events :
              r1 # r2 => ToSet(pending[r1]) \cap ToSet(pending[r2]) = {}
        BY DEF TicketInv
      <4>2. ASSUME NEW r1 \in Events, NEW r2 \in Events, r1 # r2,
                   NEW f \in ToSet(pending'[r1]), f \in ToSet(pending'[r2])
            PROVE  FALSE
        <5>1. /\ (f = e /\ r1 = active) \/ f \in ToSet(pending[r1])
              /\ (f = e /\ r2 = active) \/ f \in ToSet(pending[r2])
          BY <3>2, <4>2
        <5>2. f \in ToSet(pending[r1]) /\ f \in ToSet(pending[r2])
          BY <3>3, <4>2, <5>1
        <5>3. ToSet(pending[r1]) \cap ToSet(pending[r2]) = {}
          BY <4>1, <4>2
        <5> HIDE DEF ToSet
        <5> QED BY <5>2, <5>3
      <4> QED BY <4>2
    <3>10. \A f \in Events :
             /\ pc'[f] = "idle" => ticket'[f] = "none" /\ ~monitor'[f]
             /\ pc'[f] = "ticket" => ticket'[f] # "none"
             /\ pc'[f] = "turn" => ticket'[f] = "returned"
             /\ ticket'[f] = "open" => pc'[f] = "ticket" /\ monitor'[f]
             /\ ticket'[f] = "consumed" => pc'[f] \in {"ticket", "done"}
             /\ ticket'[f] = "consumed" /\ monitor'[f] => pc'[f] = "ticket"
      BY <3>6, <3>7 DEF TicketInv
    <3> QED BY <3>8, <3>9, <3>10 DEF TicketInv
  <2>2. CASE Bypass(e)
    BY <2>2 DEF Bypass, TypeOK, TicketInv, Goto, runVars, ticketVars
  <2>3. CASE WakeConsumed(e)
    BY <2>3 DEF WakeConsumed, TypeOK, TicketInv, Goto, runVars
  <2>4. CASE WakeReturned(e)
    BY <2>4 DEF WakeReturned, TypeOK, TicketInv, Goto, runVars
  <2>5. CASE TakeTurn(e)
    BY <2>5 DEF TakeTurn, TypeOK, TicketInv, Goto, runVars, ticketVars
  <2>6. CASE RunMonitor(e)
    BY <2>6 DEF RunMonitor, TypeOK, TicketInv, runVars
  <2>7. CASE EnterLock(e)
    BY <2>7 DEF EnterLock, TypeOK, TicketInv, Goto, runVars, ticketVars
  <2>8. CASE Acquire(e)
    BY <2>8 DEF Acquire, TypeOK, TicketInv, Goto, runVars, ticketVars
  <2>9. CASE BuildEnds(e)
    BY <2>9 DEF BuildEnds, TypeOK, TicketInv, Goto, runVars, ticketVars
  <2>10. CASE Register(e)
    BY <2>10 DEF Register, TypeOK, TicketInv, Goto, ticketVars
  <2>11. CASE ToolResult(e)
    BY <2>11, ResolveTicket DEF ToolResult, TypeOK, TicketInv
  <2>12. CASE AskModel(e)
    BY <2>12 DEF AskModel, TypeOK, TicketInv, ticketVars
  <2>13. CASE ToolSendsDirect(e)
    BY <2>13, ResolveTicket DEF ToolSendsDirect, Running, TypeOK, TicketInv, Goto
  <2>14. CASE Complete(e)
    BY <2>14 DEF Complete, Running, TypeOK, TicketInv, Goto, ticketVars
  <2>15. CASE AbortStep(e)
    BY <2>15 DEF AbortStep, Running, TypeOK, TicketInv, Goto, ticketVars
  <2>16. CASE ReturnTickets(e)
    BY <2>16, ResolveTicket DEF ReturnTickets, TypeOK, TicketInv, Goto
  <2>17. CASE ErrorResponse(e)
    BY <2>17, ResolveTicket DEF ErrorResponse, Running, TypeOK, TicketInv, Goto
  <2>18. CASE LeaveLoop(e)
    BY <2>18 DEF LeaveLoop, Running, TypeOK, TicketInv, Goto, runVars, ticketVars
  <2>19. CASE PipelineBreak(e)
    BY <2>19 DEF PipelineBreak, Running, TypeOK, TicketInv, Goto, ticketVars
  <2>20. CASE Close(e)
    BY <2>20 DEF Close, TypeOK, TicketInv, Goto, ticketVars
  <2>21. CASE Finalize(e)
    BY <2>21 DEF Finalize, TypeOK, TicketInv, Goto, runVars
  <2>22. CASE RequestStop(e)
    BY <2>22 DEF RequestStop, TypeOK, TicketInv, ticketVars
  <2>23. CASE SeeStop(e)
    BY <2>23 DEF SeeStop, TypeOK, TicketInv, ticketVars
  <2> QED
    BY <2>1, <2>2, <2>3, <2>4, <2>5, <2>6, <2>7, <2>8, <2>9, <2>10, <2>11,
       <2>12, <2>13, <2>14, <2>15, <2>16, <2>17, <2>18, <2>19, <2>20, <2>21,
       <2>22, <2>23 DEF Step, Arrive, Continue, Wake, Answer
<1> QED BY <1>1, <1>2 DEF Next

-----------------------------------------------------------------------------
(* Slots.                                                                  *)

(* The capture has not been left by its task: its seq may still be used.   *)
Owner(e) == pc[e] \in {"ticket", "turn"} \/ Resumed(e)

(* The monitor has marked the slot and the task has not woken yet: the     *)
(* task will mark its seq once more, whatever that number stands for then. *)
Marked(e) == pc[e] = "ticket" /\ ticket[e] = "consumed" /\ ~monitor[e]

(* The inductive invariant.  The part on Marked is what makes the second   *)
(* mark harmless: the slot is handled or gone, and while the order state   *)
(* is gone too, no runner is there to capture into a new one.              *)
SlotInv ==
  /\ OrderInv(order)
  /\ \A e \in Events : Outstanding(e) =>
       /\ order.live
       /\ seq[e] \in DOMAIN order.statuses
       /\ order.statuses[seq[e]] = IF pc[e] = "ticket" THEN "pending" ELSE "active"
  /\ \A e \in Events : Owner(e) /\ order.live => seq[e] < order.nextOrder
  /\ \A e, f \in Events : e # f /\ Owner(e) /\ Owner(f) => seq[e] # seq[f]
  /\ \A e \in Events : Marked(e) =>
       /\ seq[e] \in DOMAIN order.statuses => Handled(order, seq[e])
       /\ order.live \/ ~Busy
  /\ \A e \in Events : Resumed(e) => seq[e] = order.nextTurn

LEMMA InitSlot == Init => SlotInv
BY NoOrderFacts DEF Init, SlotInv, Owner, Marked, Outstanding, Waiting, Resumed

(* An owner's slot is unhandled, or only the second mark is missing.       *)
LEMMA OwnerCases ==
  ASSUME NEW e \in Events, Owner(e)
  PROVE  Outstanding(e) \/ Marked(e)
BY DEF Owner, Outstanding, Waiting, Marked

(* Steps that leave the order state alone and let no task into a class it  *)
(* was not in.                                                             *)
LEMMA SlotFrame ==
  ASSUME SlotInv, order' = order, seq' = seq,
         \A f \in Events :
           /\ Outstanding(f)' => Outstanding(f) /\ (pc'[f] = "ticket" <=> pc[f] = "ticket")
           /\ Owner(f)' => Owner(f)
           /\ Marked(f)' => Marked(f) /\ (Busy' => Busy)
           /\ Resumed(f)' => Resumed(f)
  PROVE  SlotInv'
<1>1. OrderInv(order)'
  BY DEF SlotInv
<1>2. ASSUME NEW e \in Events, Outstanding(e)'
      PROVE  /\ order'.live
             /\ seq'[e] \in DOMAIN order'.statuses
             /\ order'.statuses[seq'[e]] =
                  IF pc'[e] = "ticket" THEN "pending" ELSE "active"
  BY <1>2 DEF SlotInv
<1>3. \A e \in Events : Owner(e)' /\ order'.live => seq'[e] < order'.nextOrder
  BY DEF SlotInv
<1>4. \A e, f \in Events : e # f /\ Owner(e)' /\ Owner(f)' => seq'[e] # seq'[f]
  BY DEF SlotInv
<1>5. ASSUME NEW e \in Events, Marked(e)'
      PROVE  /\ seq'[e] \in DOMAIN order'.statuses => Handled(order', seq'[e])
             /\ order'.live \/ ~Busy'
  BY <1>5 DEF SlotInv
<1>6. \A e \in Events : Resumed(e)' => seq'[e] = order'.nextTurn
  BY DEF SlotInv
<1> QED BY <1>1, <1>2, <1>3, <1>4, <1>5, <1>6 DEF SlotInv

(* Steps in which e's slot is marked consumed or finished.                 *)
LEMMA SlotHandled ==
  ASSUME SlotInv, NEW e \in Events, Owner(e),
         OrderInv(order'), Handles(order, order', seq[e], Busy),
         seq' = seq, active' = active, ~Outstanding(e)', Owner(e)' => Marked(e)',
         ~Resumed(e)',
         \A f \in Events : f # e =>
           /\ pc'[f] = pc[f]
           /\ ticket'[f] = ticket[f]
           /\ monitor'[f] = monitor[f]
  PROVE  SlotInv'
<1>a. Busy' = Busy
  BY DEF Busy
<1>b. ASSUME NEW f \in Events, f # e
      PROVE  /\ Outstanding(f)' <=> Outstanding(f)
             /\ Owner(f)' <=> Owner(f)
             /\ Marked(f)' <=> Marked(f)
             /\ Resumed(f)' <=> Resumed(f)
  BY <1>b DEF Outstanding, Owner, Marked, Waiting, Resumed
<1>c. \A f \in Events : /\ Outstanding(f)' => f # e /\ Outstanding(f)
                        /\ Owner(f)' => Owner(f)
                        /\ Marked(f)' => f = e \/ Marked(f)
                        /\ Resumed(f)' => f # e /\ Resumed(f)
  BY <1>b
<1>d. \A f \in Events : Resumed(f) => Outstanding(f)
  BY DEF Outstanding
<1>4. \A g, f \in Events : g # f /\ Owner(g)' /\ Owner(f)' => seq'[g] # seq'[f]
  BY <1>c DEF SlotInv
<1>5. CASE ~order.live /\ order' = order
  <2>1. \A f \in Events : ~Outstanding(f)
    BY <1>5 DEF SlotInv
  <2>2. Marked(e)
    BY <2>1, OwnerCases
  <2>3. ~Busy'
    BY <1>5, <1>a, <2>2 DEF SlotInv
  <2>4. DOMAIN order'.statuses = {}
    BY <1>5, NoOrderFacts DEF SlotInv, OrderInv
  <2> QED BY <1>4, <1>5, <1>c, <1>d, <2>1, <2>3, <2>4 DEF SlotInv
<1>6. CASE /\ order.live /\ ~Busy
           /\ order' = NoOrder
           /\ \A s \in DOMAIN order.statuses : s = seq[e] \/ Handled(order, s)
  <2>1. ASSUME NEW f \in Events, f # e, Outstanding(f)
        PROVE  FALSE
    <3>1. /\ seq[f] \in DOMAIN order.statuses
          /\ order.statuses[seq[f]] \in {"pending", "active"}
      BY <2>1 DEF SlotInv
    <3>2. Owner(f)
      BY <2>1 DEF Owner, Outstanding, Waiting
    <3>3. seq[f] # seq[e]
      BY <2>1, <3>2 DEF SlotInv
    <3> QED BY <1>6, <3>1, <3>3 DEF Handled
  <2> QED BY <1>4, <1>6, <1>a, <1>c, <1>d, <2>1, NoOrderFacts DEF SlotInv
<1>7. CASE /\ order.live
           /\ Moved(order, order', seq[e])
           /\ seq[e] \in DOMAIN order'.statuses => Handled(order', seq[e])
  <2>1. order'.live /\ order'.nextOrder = order.nextOrder
    BY <1>7 DEF Moved
  <2>2. ASSUME NEW f \in Events, f # e, Outstanding(f)
        PROVE  /\ seq[f] \in DOMAIN order'.statuses
               /\ order'.statuses[seq[f]] = order.statuses[seq[f]]
               /\ order.nextTurn = seq[f] => order'.nextTurn = seq[f]
    <3>1. Owner(f)
      BY <2>2 DEF Owner, Outstanding, Waiting
    <3>2. seq[f] # seq[e]
      BY <2>2, <3>1 DEF SlotInv
    <3>3. seq[f] \in DOMAIN order.statuses /\ ~Handled(order, seq[f])
      BY <2>2 DEF SlotInv, Handled
    <3> QED BY <1>7, <3>2, <3>3 DEF Moved
  <2>3. ASSUME NEW f \in Events, Outstanding(f)'
        PROVE  /\ order'.live
               /\ seq'[f] \in DOMAIN order'.statuses
               /\ order'.statuses[seq'[f]] =
                    IF pc'[f] = "ticket" THEN "pending" ELSE "active"
    BY <1>c, <2>1, <2>2, <2>3 DEF SlotInv
  <2>4. ASSUME NEW f \in Events, Marked(f)'
        PROVE  seq'[f] \in DOMAIN order'.statuses => Handled(order', seq'[f])
    <3>1. CASE f = e
      BY <1>7, <3>1
    <3>2. CASE f # e
      BY <1>7, <1>c, <2>4, <3>2 DEF SlotInv, Moved, Handled
    <3> QED BY <3>1, <3>2
  <2>5. \A f \in Events : Resumed(f)' => seq'[f] = order'.nextTurn
    BY <1>c, <1>d, <2>2 DEF SlotInv
  <2>6. \A f \in Events : Owner(f)' /\ order'.live => seq'[f] < order'.nextOrder
    BY <1>7, <1>c, <2>1 DEF SlotInv
  <2> QED BY <1>4, <2>1, <2>3, <2>4, <2>5, <2>6 DEF SlotInv
<1> QED BY <1>5, <1>6, <1>7 DEF Handles

LEMMA NextSlot ==
  ASSUME TypeOK, TicketInv, TypeOK', SlotInv, OrderInv(order'), [Next]_vars
  PROVE  SlotInv'
<1>1. CASE UNCHANGED vars
  BY <1>1, SlotFrame DEF vars, runVars, ticketVars, Busy,
     Outstanding, Owner, Marked, Waiting, Resumed
<1>2. ASSUME NEW e \in Events, Step(e)
      PROVE  SlotInv'
  <2> USE <1>2
  <2>o. OrderInv(order)
    BY DEF SlotInv
  <2>1. CASE Capture(e)
    <3> DEFINE q == order.nextOrder
    <3>1. /\ pc[e] = "idle" /\ ticket[e] = "none"
          /\ Busy /\ active' = active
          /\ order' = Allocate(order)
          /\ pc' = [pc EXCEPT ![e] = "ticket"]
          /\ ticket' = [ticket EXCEPT ![e] = "open"]
          /\ monitor' = [monitor EXCEPT ![e] = TRUE]
          /\ seq' = [seq EXCEPT ![e] = Opened(order).nextOrder]
      BY <2>1 DEF Capture, CanCapture, Goto, TicketInv
    <3>2. /\ order'.live
          /\ Opened(order).nextOrder = q
          /\ order'.nextOrder = q + 1
          /\ order'.nextTurn = order.nextTurn
          /\ DOMAIN order'.statuses = DOMAIN order.statuses \cup {q}
          /\ order'.statuses[q] = "pending"
          /\ \A s \in DOMAIN order.statuses : order'.statuses[s] = order.statuses[s]
      BY <2>o, <3>1, AllocateFacts
    <3>3. q \in Nat
      BY <2>o DEF OrderInv, OrderOK
    <3>4. /\ pc'[e] = "ticket" /\ ticket'[e] = "open" /\ seq'[e] = q
          /\ \A f \in Events : f # e =>
               /\ pc'[f] = pc[f] /\ ticket'[f] = ticket[f]
               /\ monitor'[f] = monitor[f] /\ seq'[f] = seq[f]
      BY <3>1, <3>2 DEF TypeOK
    <3>5. ASSUME NEW f \in Events, f # e
          PROVE  /\ Outstanding(f)' <=> Outstanding(f)
                 /\ Owner(f)' <=> Owner(f)
                 /\ Marked(f)' <=> Marked(f)
                 /\ Resumed(f)' <=> Resumed(f)
      BY <3>4, <3>5 DEF Outstanding, Owner, Marked, Waiting, Resumed
    <3>6. Outstanding(e)' /\ ~Marked(e)' /\ ~Resumed(e)'
      BY <3>4 DEF Outstanding, Marked, Waiting, Resumed
    <3>7. ASSUME NEW f \in Events, Owner(f)
          PROVE  order.live /\ seq[f] < q
      <4>1. order.live
        BY <3>1, <3>7, OwnerCases DEF SlotInv
      <4> QED BY <3>7, <4>1 DEF SlotInv
    <3>8. \A f \in Events : seq[f] \in Nat
      BY DEF TypeOK
    <3> HIDE DEF q
    <3>9. ASSUME NEW f \in Events, Outstanding(f)'
          PROVE  /\ order'.live
                 /\ seq'[f] \in DOMAIN order'.statuses
                 /\ order'.statuses[seq'[f]] =
                      IF pc'[f] = "ticket" THEN "pending" ELSE "active"
      <4>1. CASE f = e
        BY <3>2, <3>4, <4>1
      <4>2. CASE f # e
        BY <3>2, <3>4, <3>5, <3>9, <4>2 DEF SlotInv
      <4> QED BY <4>1, <4>2
    <3>10. ASSUME NEW f \in Events, Owner(f)'
           PROVE  seq'[f] < order'.nextOrder
      <4>1. CASE f = e
        BY <3>2, <3>3, <3>4, <4>1
      <4>2. CASE f # e
        BY <3>2, <3>3, <3>4, <3>5, <3>7, <3>8, <3>10, <4>2
      <4> QED BY <4>1, <4>2
    <3>11. ASSUME NEW f \in Events, NEW h \in Events, f # h, Owner(f)', Owner(h)'
           PROVE  seq'[f] # seq'[h]
      <4>1. CASE f = e
        BY <3>3, <3>4, <3>5, <3>7, <3>8, <3>11, <4>1
      <4>2. CASE h = e
        BY <3>3, <3>4, <3>5, <3>7, <3>8, <3>11, <4>2
      <4>3. CASE f # e /\ h # e
        BY <3>4, <3>5, <3>11, <4>3 DEF SlotInv
      <4> QED BY <4>1, <4>2, <4>3
    <3>12. ASSUME NEW f \in Events, Marked(f)'
           PROVE  seq'[f] \in DOMAIN order'.statuses => Handled(order', seq'[f])
      <4>1. f # e /\ Marked(f) /\ seq'[f] = seq[f]
        BY <3>4, <3>5, <3>6, <3>12
      <4>2. Owner(f)
        BY <4>1 DEF Marked, Owner
      <4>3. seq[f] # q
        BY <3>3, <3>7, <3>8, <4>2
      <4> QED BY <3>2, <4>1, <4>3 DEF SlotInv, Handled
    <3>13. \A f \in Events : Resumed(f)' => seq'[f] = order'.nextTurn
      BY <3>2, <3>4, <3>5, <3>6 DEF SlotInv
    <3> QED BY <3>2, <3>9, <3>10, <3>11, <3>12, <3>13 DEF SlotInv
  <2>2. CASE Bypass(e)
    BY <2>2, SlotFrame
    DEF Bypass, TypeOK, Goto, TicketInv, Busy, runVars, ticketVars,
        Outstanding, Owner, Marked, Waiting, Resumed
  <2>3. CASE WakeConsumed(e)
    <3>1. /\ order' = MarkConsumed(order, seq[e], Busy)
          /\ pc[e] = "ticket" /\ pc'[e] = "done"
          /\ seq' = seq /\ active' = active
      BY <2>3 DEF WakeConsumed, Goto, runVars, TypeOK
    <3>2. Handles(order, order', seq[e], Busy)
      BY <2>o, <3>1, BusyType, MarkConsumedFacts
    <3>3. \A f \in Events : f # e => /\ pc'[f] = pc[f]
                                     /\ ticket'[f] = ticket[f]
                                     /\ monitor'[f] = monitor[f]
      BY <2>3 DEF WakeConsumed, Goto, TypeOK
    <3>4. Owner(e) /\ ~Outstanding(e)' /\ ~Owner(e)' /\ ~Resumed(e)'
      BY <3>1 DEF Owner, Outstanding, Waiting, Resumed
    <3> QED BY <3>1, <3>2, <3>3, <3>4, SlotHandled
  <2>4. CASE WakeReturned(e)
    <3>1. /\ pc[e] = "ticket" /\ ticket[e] = "returned"
          /\ order' = Activate(order, seq[e])
          /\ pc' = [pc EXCEPT ![e] = IF TurnHasCome(order, seq[e])
                                     THEN "greeting" ELSE "turn"]
          /\ seq' = seq /\ ticket' = ticket /\ monitor' = monitor
          /\ active' = active
      BY <2>4 DEF WakeReturned, Goto, runVars
    <3>2. /\ Outstanding(e) /\ Owner(e) /\ order.live
          /\ seq[e] \in DOMAIN order.statuses
      BY <3>1 DEF Outstanding, Owner, Waiting, SlotInv
    <3>3. /\ order'.live /\ order'.nextOrder = order.nextOrder
          /\ order'.nextTurn = order.nextTurn
          /\ DOMAIN order'.statuses = DOMAIN order.statuses
          /\ order'.statuses[seq[e]] = "active"
          /\ \A s \in DOMAIN order.statuses :
               s # seq[e] => order'.statuses[s] = order.statuses[s]
      BY <2>o, <3>1, <3>2, ActivateFacts
    <3>4. /\ pc'[e] \in {"greeting", "turn"}
          /\ pc'[e] = "greeting" => order.nextTurn = seq[e]
          /\ \A f \in Events : f # e => pc'[f] = pc[f]
      BY <3>1, <3>2 DEF TypeOK, TurnHasCome
    <3>5. ASSUME NEW f \in Events, f # e
          PROVE  /\ Outstanding(f)' <=> Outstanding(f)
                 /\ Owner(f)' <=> Owner(f)
                 /\ Marked(f)' <=> Marked(f)
                 /\ Resumed(f)' <=> Resumed(f)
      BY <3>1, <3>4, <3>5 DEF Outstanding, Owner, Marked, Waiting, Resumed
    <3>6. ~Marked(e)' /\ (Resumed(e)' => seq[e] = order.nextTurn)
      BY <3>1, <3>4 DEF Marked, Resumed
    <3>7. \A f \in Events : Owner(f)' => Owner(f)
      BY <3>2, <3>5
    <3>8. ASSUME NEW f \in Events, Outstanding(f)'
          PROVE  /\ order'.live
                 /\ seq'[f] \in DOMAIN order'.statuses
                 /\ order'.statuses[seq'[f]] =
                      IF pc'[f] = "ticket" THEN "pending" ELSE "active"
      <4>1. CASE f = e
        BY <3>1, <3>2, <3>3, <3>4, <4>1
      <4>2. CASE f # e
        <5>1. Outstanding(f) /\ Owner(f)
          BY <3>5, <3>8, <4>2 DEF Owner, Outstanding, Waiting
        <5>2. seq[f] # seq[e]
          BY <3>2, <4>2, <5>1 DEF SlotInv
        <5> QED BY <3>1, <3>3, <3>4, <4>2, <5>1, <5>2 DEF SlotInv
      <4> QED BY <4>1, <4>2
    <3>9. ASSUME NEW f \in Events, Marked(f)'
          PROVE  seq'[f] \in DOMAIN order'.statuses => Handled(order', seq'[f])
      <4>1. f # e /\ Marked(f) /\ Owner(f)
        BY <3>5, <3>6, <3>9 DEF Marked, Owner
      <4>2. seq[f] # seq[e]
        BY <3>2, <4>1 DEF SlotInv
      <4> QED BY <3>1, <3>3, <4>1, <4>2 DEF SlotInv, Handled
    <3>10. \A f \in Events : Resumed(f)' => seq'[f] = order'.nextTurn
      BY <3>1, <3>3, <3>5, <3>6 DEF SlotInv
    <3>11. \A f, h \in Events : f # h /\ Owner(f)' /\ Owner(h)' => seq'[f] # seq'[h]
      BY <3>1, <3>7 DEF SlotInv
    <3>12. \A f \in Events : Owner(f)' /\ order'.live => seq'[f] < order'.nextOrder
      BY <3>1, <3>2, <3>3, <3>7 DEF SlotInv
    <3> QED BY <3>3, <3>8, <3>9, <3>10, <3>11, <3>12 DEF SlotInv
  <2>5. CASE TakeTurn(e)
    <3>1. /\ pc[e] = "turn" /\ ticket[e] = "returned" /\ order.live
          /\ seq[e] = order.nextTurn
          /\ pc' = [pc EXCEPT ![e] = "greeting"]
          /\ UNCHANGED <<seq, ticket, monitor, order, active>>
      BY <2>5 DEF TakeTurn, TurnHasCome, Goto, runVars, ticketVars, TicketInv
    <3>2. /\ pc'[e] = "greeting"
          /\ \A f \in Events : f # e => pc'[f] = pc[f]
      BY <3>1 DEF TypeOK
    <3>3. \A f \in Events :
            /\ Outstanding(f)' => Outstanding(f) /\ (pc'[f] = "ticket" <=> pc[f] = "ticket")
            /\ Owner(f)' => Owner(f)
            /\ Marked(f)' => Marked(f)
            /\ Resumed(f)' => f = e \/ Resumed(f)
      BY <3>1, <3>2 DEF Outstanding, Owner, Marked, Waiting, Resumed
    <3>4. Busy' = Busy
      BY <3>1 DEF Busy
    <3> QED BY <3>1, <3>3, <3>4 DEF SlotInv
  <2>6. CASE RunMonitor(e)
    <3>1. /\ seq' = seq /\ active' = active /\ pc' = pc /\ ticket' = ticket
          /\ monitor' = [monitor EXCEPT ![e] = FALSE]
          /\ ~monitor'[e] /\ monitor[e] /\ ticket[e] # "open"
      BY <2>6 DEF RunMonitor, runVars, TypeOK
    <3>2. \A f \in Events : f # e => monitor'[f] = monitor[f]
      BY <3>1 DEF TypeOK
    <3>3. CASE ticket[e] = "consumed"
      <4>1. order' = MarkConsumed(order, seq[e], Busy)
        BY <2>6, <3>3 DEF RunMonitor
      <4>2. Handles(order, order', seq[e], Busy)
        BY <2>o, <4>1, BusyType, MarkConsumedFacts
      <4>3. pc[e] = "ticket"
        BY <3>1, <3>3 DEF TicketInv
      <4>4. Owner(e) /\ ~Outstanding(e)' /\ Marked(e)' /\ ~Resumed(e)'
        BY <3>1, <3>3, <4>3 DEF Owner, Outstanding, Waiting, Resumed, Marked
      <4> QED BY <3>1, <3>2, <4>2, <4>4, SlotHandled
    <3>4. CASE ticket[e] # "consumed"
      <4>1. order' = order
        BY <2>6, <3>4 DEF RunMonitor
      <4>2. \A f \in Events :
              /\ Outstanding(f)' => Outstanding(f)
              /\ Owner(f)' => Owner(f)
              /\ Marked(f)' => Marked(f)
              /\ Resumed(f)' => Resumed(f)
        BY <3>1, <3>2, <3>4 DEF Outstanding, Owner, Marked, Waiting, Resumed
      <4> QED BY <3>1, <4>1, <4>2, SlotFrame DEF Busy
    <3> QED BY <3>3, <3>4
  <2>7. CASE EnterLock(e)
    BY <2>7, SlotFrame
    DEF EnterLock, TypeOK, Goto, TicketInv, Busy, runVars, ticketVars,
        Outstanding, Owner, Marked, Waiting, Resumed
  <2>8. CASE Acquire(e)
    BY <2>8, SlotFrame
    DEF Acquire, TypeOK, Goto, TicketInv, Busy, runVars, ticketVars,
        Outstanding, Owner, Marked, Waiting, Resumed
  <2>9. CASE BuildEnds(e)
    BY <2>9, SlotFrame
    DEF BuildEnds, TypeOK, Goto, TicketInv, Busy, runVars, ticketVars,
        Outstanding, Owner, Marked, Waiting, Resumed
  <2>10. CASE Register(e)
    BY <2>10, SlotFrame
    DEF Register, WakeupsDelivered, TypeOK, Goto, TicketInv, ticketVars,
        Outstanding, Owner, Marked, Waiting, Resumed
  <2>11. CASE ToolResult(e)
    BY <2>11, ResolveTicket, SlotFrame
    DEF ToolResult, Running, TicketInv, Busy,
        Outstanding, Owner, Marked, Waiting, Resumed
  <2>12. CASE AskModel(e)
    BY <2>12, SlotFrame
    DEF AskModel, TypeOK, Goto, TicketInv, Busy, ticketVars,
        Outstanding, Owner, Marked, Waiting, Resumed
  <2>13. CASE ToolSendsDirect(e)
    BY <2>13, ResolveTicket, SlotFrame
    DEF ToolSendsDirect, Running, TypeOK, Goto, TicketInv, Busy,
        Outstanding, Owner, Marked, Waiting, Resumed
  <2>14. CASE Complete(e)
    BY <2>14, SlotFrame
    DEF Complete, Running, TypeOK, Goto, TicketInv, Busy, ticketVars,
        Outstanding, Owner, Marked, Waiting, Resumed
  <2>15. CASE AbortStep(e)
    BY <2>15, SlotFrame
    DEF AbortStep, Running, TypeOK, Goto, TicketInv, Busy, ticketVars,
        Outstanding, Owner, Marked, Waiting, Resumed
  <2>16. CASE ReturnTickets(e)
    BY <2>16, ResolveTicket, SlotFrame
    DEF ReturnTickets, TypeOK, Goto, TicketInv, Busy,
        Outstanding, Owner, Marked, Waiting, Resumed
  <2>17. CASE ErrorResponse(e)
    BY <2>17, ResolveTicket, SlotFrame
    DEF ErrorResponse, Running, TypeOK, Goto, TicketInv, Busy,
        Outstanding, Owner, Marked, Waiting, Resumed
  <2>18. CASE LeaveLoop(e)
    BY <2>18, SlotFrame
    DEF LeaveLoop, Running, TypeOK, Goto, TicketInv, Busy, runVars, ticketVars,
        Outstanding, Owner, Marked, Waiting, Resumed
  <2>19. CASE PipelineBreak(e)
    BY <2>19, SlotFrame
    DEF PipelineBreak, Running, Unregister, TypeOK, Goto, TicketInv, Busy, ticketVars,
        Outstanding, Owner, Marked, Waiting, Resumed
  <2>20. CASE Close(e)
    BY <2>20, SlotFrame
    DEF Close, Unregister, TypeOK, Goto, TicketInv, Busy, ticketVars,
        Outstanding, Owner, Marked, Waiting, Resumed
  <2>21. CASE Finalize(e)
    <3>1. /\ pc[e] = "closing" /\ pc'[e] = "done" /\ ~monitor'[e]
          /\ seq' = seq /\ active' = active /\ ticket' = ticket
          /\ \A f \in Events : f # e => pc'[f] = pc[f] /\ monitor'[f] = monitor[f]
      BY <2>21 DEF Finalize, Goto, runVars, TypeOK
    <3>2. ~Outstanding(e)' /\ ~Owner(e)' /\ ~Resumed(e)' /\ ~Marked(e)'
      BY <3>1 DEF Owner, Outstanding, Waiting, Resumed, Marked
    <3>3. CASE ticket[e] = "returned"
      <4>1. order' = FinishTurn(order, seq[e], Busy)
        BY <2>21, <3>3 DEF Finalize
      <4>2. Handles(order, order', seq[e], Busy)
        BY <2>o, <4>1, BusyType, FinishTurnFacts
      <4>3. Owner(e)
        BY <3>1, <3>3 DEF Owner, Resumed
      <4> QED BY <3>1, <3>2, <4>2, <4>3, SlotHandled
    <3>4. CASE ticket[e] # "returned"
      <4>1. order' = order
        BY <2>21, <3>4 DEF Finalize
      <4>2. \A f \in Events :
              /\ Outstanding(f)' => Outstanding(f) /\ (pc'[f] = "ticket" <=> pc[f] = "ticket")
              /\ Owner(f)' => Owner(f)
              /\ Marked(f)' => Marked(f)
              /\ Resumed(f)' => Resumed(f)
        BY <3>1, <3>2 DEF Outstanding, Owner, Marked, Waiting, Resumed
      <4> QED BY <3>1, <4>1, <4>2, SlotFrame DEF Busy
    <3> QED BY <3>3, <3>4
  <2>22. CASE RequestStop(e)
    BY <2>22, SlotFrame
    DEF RequestStop, TypeOK, Goto, TicketInv, Busy, ticketVars,
        Outstanding, Owner, Marked, Waiting, Resumed
  <2>23. CASE SeeStop(e)
    BY <2>23, SlotFrame
    DEF SeeStop, TypeOK, Goto, TicketInv, Busy, ticketVars,
        Outstanding, Owner, Marked, Waiting, Resumed
  <2> QED
    BY <2>1, <2>2, <2>3, <2>4, <2>5, <2>6, <2>7, <2>8, <2>9, <2>10, <2>11,
       <2>12, <2>13, <2>14, <2>15, <2>16, <2>17, <2>18, <2>19, <2>20, <2>21,
       <2>22, <2>23 DEF Step, Arrive, Continue, Wake, Answer
<1> QED BY <1>1, <1>2 DEF Next

-----------------------------------------------------------------------------
(* The runners that are to resolve the open tickets.                       *)

(* The run of r is going on, ending, or broken.                            *)
Serving(r) == pc[r] \in {"running", "hook", "aborting"} \/ Broken(r)

LEMMA InitRunner == Init => OpenTicketsHaveRunner
BY DEF Init, OpenTicketsHaveRunner

(* A step that opens no ticket and takes none from a queue.                *)
LEMMA RunnerFrame ==
  ASSUME OpenTicketsHaveRunner, UNCHANGED <<ticket, pending>>,
         \A r \in Events : Serving(r) => Serving(r)'
  PROVE  OpenTicketsHaveRunner'
<1>1. \A r \in Events : pc[r] \in {"running", "hook", "aborting"} \/ Broken(r)
        => Serving(r)
  BY DEF Serving
<1>2. \A r \in Events : Serving(r)' =>
        pc'[r] \in {"running", "hook", "aborting"} \/ Broken(r)'
  BY DEF Serving
<1>3. ASSUME NEW e \in Events, ticket'[e] = "open"
      PROVE  \E r \in Events :
               /\ e \in ToSet(pending'[r])
               /\ pc'[r] \in {"running", "hook", "aborting"} \/ Broken(r)'
  <2>1. PICK r \in Events :
          /\ e \in ToSet(pending[r])
          /\ pc[r] \in {"running", "hook", "aborting"} \/ Broken(r)
    BY <1>3 DEF OpenTicketsHaveRunner
  <2>2. Serving(r)'
    BY <1>1, <2>1
  <2>3. e \in ToSet(pending'[r])
    BY <2>1
  <2> HIDE DEF ToSet
  <2> QED BY <1>2, <2>2, <2>3
<1> QED BY <1>3 DEF OpenTicketsHaveRunner

(* A step in which the runner of x resolves its tickets.                   *)
LEMMA RunnerResolves ==
  ASSUME TypeOK, OpenTicketsHaveRunner, NEW x \in Events,
         NEW outcome \in {"returned", "consumed"}, Resolve(x, outcome),
         \A r \in Events : r # x /\ Serving(r) => Serving(r)'
  PROVE  OpenTicketsHaveRunner'
<1>1. ASSUME NEW e \in Events, ticket'[e] = "open"
      PROVE  \E r \in Events :
               /\ e \in ToSet(pending'[r])
               /\ pc'[r] \in {"running", "hook", "aborting"} \/ Broken(r)'
  <2>1. e \notin ToSet(pending[x]) /\ ticket[e] = "open"
    BY <1>1 DEF Resolve
  <2>2. PICK r \in Events :
          /\ e \in ToSet(pending[r])
          /\ pc[r] \in {"running", "hook", "aborting"} \/ Broken(r)
    BY <2>1 DEF OpenTicketsHaveRunner
  <2>3. r # x
    BY <2>1, <2>2
  <2>4. pending'[r] = pending[r]
    BY <2>3 DEF Resolve, TypeOK
  <2>5. Serving(r)'
    BY <2>2, <2>3 DEF Serving
  <2>6. pc'[r] \in {"running", "hook", "aborting"} \/ Broken(r)'
    BY <2>5 DEF Serving
  <2>7. e \in ToSet(pending'[r])
    BY <2>2, <2>4
  <2> QED BY <2>6, <2>7
<1> QED BY <1>1 DEF OpenTicketsHaveRunner

(* A captured message joins the queue of a runner that is at work.         *)
LEMMA RunnerCaptures ==
  ASSUME TypeOK, OpenTicketsHaveRunner, NEW e \in Events, Capture(e)
  PROVE  OpenTicketsHaveRunner'
<1>1. active \in Events /\ Serving(active)
  BY DEF Capture, CanCapture, Busy, TypeOK, Serving, Broken
<1>2. \A r \in Events : Serving(r) => Serving(r)'
  BY DEF Capture, Goto, Serving, Broken, TypeOK
<1>3. \A r \in Events : ToSet(pending'[r]) =
        IF r = active THEN ToSet(pending[r]) \cup {e} ELSE ToSet(pending[r])
  <2>1. \A r \in Events : pending'[r] =
          IF r = active THEN Append(pending[r], e) ELSE pending[r]
    BY <1>1 DEF Capture, TypeOK
  <2>2. \A r \in Events : pending[r] \in Seq(Events)
    BY DEF TypeOK
  <2>3. \A r \in Events : ToSet(Append(pending[r], e)) = ToSet(pending[r]) \cup {e}
    BY <2>2, ToSetAppend
  <2> QED BY <2>1, <2>3
<1>4. ASSUME NEW f \in Events, ticket'[f] = "open"
      PROVE  \E r \in Events : f \in ToSet(pending'[r]) /\ Serving(r)'
  <2>1. CASE f = e
    <3>1. f \in ToSet(pending'[active])
      BY <1>1, <1>3, <2>1
    <3> QED BY <1>1, <1>2, <3>1
  <2>2. CASE f # e
    <3>1. ticket[f] = "open"
      BY <1>4, <2>2 DEF Capture, TypeOK
    <3>2. PICK r \in Events : f \in ToSet(pending[r]) /\ Serving(r)
      BY <3>1 DEF OpenTicketsHaveRunner, Serving
    <3>3. f \in ToSet(pending'[r])
      BY <1>3, <3>2
    <3> QED BY <1>2, <3>2, <3>3
  <2> QED BY <2>1, <2>2
<1> QED BY <1>4 DEF OpenTicketsHaveRunner, Serving

LEMMA NextRunner ==
  ASSUME TypeOK, OpenTicketsHaveRunner, [Next]_vars
  PROVE  OpenTicketsHaveRunner'
<1>1. CASE UNCHANGED vars
  BY <1>1, RunnerFrame DEF vars, runVars, ticketVars, Serving, Broken
<1>2. ASSUME NEW e \in Events, Step(e)
      PROVE  OpenTicketsHaveRunner'
  <2>1. CASE Capture(e)
    BY <2>1, RunnerCaptures
  <2>2. CASE Bypass(e)
    BY <2>2, RunnerFrame
    DEF Bypass, Running, Goto, TypeOK, Serving, Broken, runVars, ticketVars
  <2>3. CASE WakeConsumed(e)
    BY <2>3, RunnerFrame
    DEF WakeConsumed, Running, Goto, TypeOK, Serving, Broken, runVars, ticketVars
  <2>4. CASE WakeReturned(e)
    BY <2>4, RunnerFrame
    DEF WakeReturned, Running, Goto, TypeOK, Serving, Broken, runVars, ticketVars
  <2>5. CASE TakeTurn(e)
    BY <2>5, RunnerFrame
    DEF TakeTurn, Running, Goto, TypeOK, Serving, Broken, runVars, ticketVars
  <2>6. CASE RunMonitor(e)
    BY <2>6, RunnerFrame
    DEF RunMonitor, Running, Goto, TypeOK, Serving, Broken, runVars, ticketVars
  <2>7. CASE EnterLock(e)
    BY <2>7, RunnerFrame
    DEF EnterLock, Running, Goto, TypeOK, Serving, Broken, runVars, ticketVars
  <2>8. CASE Acquire(e)
    BY <2>8, RunnerFrame
    DEF Acquire, Running, Goto, TypeOK, Serving, Broken, runVars, ticketVars
  <2>9. CASE BuildEnds(e)
    BY <2>9, RunnerFrame
    DEF BuildEnds, Running, Goto, TypeOK, Serving, Broken, runVars, ticketVars
  <2>10. CASE Register(e)
    BY <2>10, RunnerFrame
    DEF Register, Running, Goto, TypeOK, Serving, Broken, runVars, ticketVars
  <2>11. CASE ToolResult(e)
    BY <2>11, RunnerResolves
    DEF ToolResult, Running, Goto, TypeOK, Serving, Broken, runVars, ticketVars
  <2>12. CASE AskModel(e)
    BY <2>12, RunnerFrame
    DEF AskModel, Running, Goto, TypeOK, Serving, Broken, runVars, ticketVars
  <2>13. CASE ToolSendsDirect(e)
    BY <2>13, RunnerResolves
    DEF ToolSendsDirect, Running, Goto, TypeOK, Serving, Broken, runVars, ticketVars
  <2>14. CASE Complete(e)
    BY <2>14, RunnerFrame
    DEF Complete, Running, Goto, TypeOK, Serving, Broken, runVars, ticketVars
  <2>15. CASE AbortStep(e)
    BY <2>15, RunnerFrame
    DEF AbortStep, Running, Goto, TypeOK, Serving, Broken, runVars, ticketVars
  <2>16. CASE ReturnTickets(e)
    BY <2>16, RunnerResolves
    DEF ReturnTickets, Running, Goto, TypeOK, Serving, Broken, runVars, ticketVars
  <2>17. CASE ErrorResponse(e)
    BY <2>17, RunnerResolves
    DEF ErrorResponse, Running, Goto, TypeOK, Serving, Broken, runVars, ticketVars
  <2>18. CASE LeaveLoop(e)
    BY <2>18, RunnerFrame
    DEF LeaveLoop, Running, Goto, TypeOK, Serving, Broken, runVars, ticketVars
  <2>19. CASE PipelineBreak(e)
    BY <2>19, RunnerFrame
    DEF PipelineBreak, Running, Goto, TypeOK, Serving, Broken, runVars, ticketVars
  <2>20. CASE Close(e)
    BY <2>20, RunnerFrame
    DEF Close, Running, Goto, TypeOK, Serving, Broken, runVars, ticketVars
  <2>21. CASE Finalize(e)
    BY <2>21, RunnerFrame
    DEF Finalize, Running, Goto, TypeOK, Serving, Broken, runVars, ticketVars
  <2>22. CASE RequestStop(e)
    BY <2>22, RunnerFrame
    DEF RequestStop, Running, Goto, TypeOK, Serving, Broken, runVars, ticketVars
  <2>23. CASE SeeStop(e)
    BY <2>23, RunnerFrame
    DEF SeeStop, Running, Goto, TypeOK, Serving, Broken, runVars, ticketVars
  <2> QED
    BY <1>2, <2>1, <2>2, <2>3, <2>4, <2>5, <2>6, <2>7, <2>8, <2>9, <2>10, <2>11,
       <2>12, <2>13, <2>14, <2>15, <2>16, <2>17, <2>18, <2>19, <2>20, <2>21,
       <2>22, <2>23 DEF Step, Arrive, Continue, Wake, Answer
<1> QED BY <1>1, <1>2 DEF Next

-----------------------------------------------------------------------------
(* The theorems.                                                           *)

IInv == TypeOK /\ TicketInv /\ SlotInv

(* The invariant is inductive.                                             *)
THEOREM Inductive == Spec => []IInv
<1>1. Init => IInv
  BY InitType, InitTicket, InitSlot DEF IInv
<1>2. IInv /\ [Next]_vars => IInv'
  <2> SUFFICES ASSUME IInv, [Next]_vars PROVE IInv'
    OBVIOUS
  <2>1. TypeOK /\ TicketInv /\ SlotInv /\ OrderInv(order)
    BY DEF IInv, SlotInv
  <2>2. TypeOK' /\ OrderInv(order')
    BY <2>1, NextType
  <2>3. TicketInv'
    BY <2>1, NextTicket
  <2>4. SlotInv'
    BY <2>1, <2>2, NextSlot
  <2> QED BY <2>2, <2>3, <2>4 DEF IInv
<1> QED BY <1>1, <1>2, PTL DEF Spec

(* The variables of FollowUp keep their types.                             *)
THEOREM TypeCorrect == Spec => []TypeOK
<1>1. IInv => TypeOK
  BY DEF IInv
<1> QED BY <1>1, Inductive, PTL

(* Every capture that is not handled yet holds a slot of its own.          *)
THEOREM CapturesHoldSlots == Spec => []SlotsHeld
<1>1. IInv => SlotsHeld
  <2> SUFFICES ASSUME IInv PROVE SlotsHeld
    OBVIOUS
  <2>1. ASSUME NEW e \in Events, Outstanding(e)
        PROVE  /\ order.live
               /\ seq[e] \in DOMAIN order.statuses
               /\ ~Handled(order, seq[e])
               /\ order.nextTurn <= seq[e]
    BY <2>1 DEF IInv, SlotInv, OrderInv, Handled
  <2>2. \A e \in Events : Outstanding(e) => Owner(e)
    BY DEF Outstanding, Owner, Waiting
  <2>3. \A e, f \in Events :
          e # f /\ Outstanding(e) /\ Outstanding(f) => seq[e] # seq[f]
    BY <2>2 DEF IInv, SlotInv
  <2> QED BY <2>1, <2>3 DEF SlotsHeld
<1> QED BY <1>1, Inductive, PTL

(* Follow-ups that run their own agent do so one at a time, in the order   *)
(* in which they were captured.                                            *)
THEOREM StrictOrdering == Spec => []TurnOrder
<1>1. IInv => TurnOrder
  <2> SUFFICES ASSUME IInv,
                      NEW e \in Events, NEW f \in Events,
                      e # f, Resumed(e), Waiting(f) \/ Resumed(f)
               PROVE  seq[e] < seq[f]
    BY DEF TurnOrder
  <2>1. Outstanding(e) /\ Outstanding(f) /\ Owner(e) /\ Owner(f)
    BY DEF Outstanding, Owner, Waiting
  <2>2. seq[e] = order.nextTurn
    BY DEF IInv, SlotInv
  <2>3. order.nextTurn <= seq[f]
    BY <2>1 DEF IInv, SlotInv, OrderInv
  <2>4. seq[e] # seq[f]
    BY <2>1 DEF IInv, SlotInv
  <2>5. seq[e] \in Nat /\ seq[f] \in Nat
    BY DEF IInv, TypeOK
  <2> QED BY <2>2, <2>3, <2>4, <2>5
<1> QED BY <1>1, Inductive, PTL

(* Every open ticket is in the queue of a runner that is still going to    *)
(* resolve it, or was left by a broken run.                                *)
THEOREM NoTicketForgotten == Spec => []OpenTicketsHaveRunner
<1>1. Init => OpenTicketsHaveRunner
  BY InitRunner
<1>2. TypeOK /\ OpenTicketsHaveRunner /\ [Next]_vars => OpenTicketsHaveRunner'
  BY NextRunner
<1> QED BY <1>1, <1>2, TypeCorrect, PTL DEF Spec

-----------------------------------------------------------------------------
(* The refinement of OrderedResume: ascending lists.                       *)

(* q lists the elements of O in ascending order of s.                      *)
Sorted(q, O, s) ==
  /\ q \in Seq(O)
  /\ \A o \in O : \E i \in 1..Len(q) : q[i] = o
  /\ \A i, j \in 1..Len(q) : i < j => s[q[i]] < s[q[j]]

(* Two facts on < that the provers need by name.                           *)
LEMMA LessIsProper ==
  ASSUME NEW x, NEW y, x \in Nat, x < y, x = y
  PROVE  FALSE
OBVIOUS

LEMMA LessIsAsymmetric ==
  ASSUME NEW x, NEW y, x \in Nat, y \in Nat, x < y, y < x
  PROVE  FALSE
OBVIOUS

(* p lists the elements of O, from 1 to n, in ascending order of s.        *)
Lists(p, n, O, s) ==
  /\ p \in [1..n -> O]
  /\ \A i, j \in 1..n : i < j => s[p[i]] < s[p[j]]
  /\ \A o \in O : \E i \in 1..n : p[i] = o

(* Two ascending lists of the same set do not differ.                      *)
LEMMA SortedAgree ==
  ASSUME NEW O, NEW s, \A o \in O : s[o] \in Nat, NEW n \in Nat,
         NEW p, NEW q, Lists(p, n, O, s), Lists(q, n, O, s)
  PROVE  p = q
<1>a. /\ p \in [1..n -> O] /\ q \in [1..n -> O]
      /\ \A i, j \in 1..n : i < j => s[p[i]] < s[p[j]]
      /\ \A i, j \in 1..n : i < j => s[q[i]] < s[q[j]]
      /\ \A o \in O : \E i \in 1..n : p[i] = o
      /\ \A o \in O : \E i \in 1..n : q[i] = o
  BY DEF Lists
<1> USE <1>a
<1> DEFINE D == {i \in 1..n : p[i] # q[i]}
<1>0. (\A i \in 1..n : p[i] = q[i]) => p = q
  OBVIOUS
<1>1. SUFFICES ASSUME D # {} PROVE FALSE
  BY <1>0
<1>2. PICK i \in D : \A j \in D : i <= j
  <2>1. D \in SUBSET Nat
    OBVIOUS
  <2> HIDE DEF D
  <2> QED BY <1>1, <2>1, LeastNatural
<1>3. /\ i \in 1..n /\ p[i] # q[i]
      /\ \A j \in 1..n : j < i => p[j] = q[j]
  BY <1>2
<1>4. PICK j \in 1..n : q[j] = p[i]
  BY <1>3
<1>5. PICK k \in 1..n : p[k] = q[i]
  BY <1>3
<1>6. \A a, b \in 1..n : a < b => p[a] # p[b] /\ q[a] # q[b]
  <2> SUFFICES ASSUME NEW a \in 1..n, NEW b \in 1..n, a < b
               PROVE  p[a] # p[b] /\ q[a] # q[b]
    OBVIOUS
  <2>1. p[a] \in O /\ q[a] \in O
    OBVIOUS
  <2>2. s[p[a]] < s[p[b]] /\ s[q[a]] < s[q[b]]
    OBVIOUS
  <2>3. ASSUME p[a] = p[b] PROVE FALSE
    <3>1. s[p[a]] \in Nat
      BY <2>1
    <3>2. s[p[a]] = s[p[b]]
      BY <2>3
    <3> QED BY <2>2, <3>1, <3>2, LessIsProper
  <2>4. ASSUME q[a] = q[b] PROVE FALSE
    <3>1. s[q[a]] \in Nat
      BY <2>1
    <3>2. s[q[a]] = s[q[b]]
      BY <2>4
    <3> QED BY <2>2, <3>1, <3>2, LessIsProper
  <2> QED BY <2>3, <2>4
<1>7. i < j /\ i < k
  <2>1. i \in Nat /\ j \in Nat /\ k \in Nat
    BY <1>3
  <2>2. j # i /\ k # i
    BY <1>3, <1>4, <1>5
  <2>3. ~(j < i)
    <3> SUFFICES ASSUME j < i PROVE FALSE
      OBVIOUS
    <3>1. p[j] = p[i]
      BY <1>3, <1>4
    <3> QED BY <1>3, <1>6, <3>1
  <2>4. ~(k < i)
    <3> SUFFICES ASSUME k < i PROVE FALSE
      OBVIOUS
    <3>1. q[k] = q[i]
      BY <1>3, <1>5
    <3> QED BY <1>3, <1>6, <3>1
  <2> QED BY <2>1, <2>2, <2>3, <2>4
<1>8. s[p[i]] \in Nat /\ s[q[i]] \in Nat
  <2>1. p[i] \in O /\ q[i] \in O
    BY <1>3
  <2> QED BY <2>1
<1>9. s[q[i]] < s[p[i]] /\ s[p[i]] < s[q[i]]
  <2>1. s[p[i]] < s[p[k]]
    BY <1>3, <1>7
  <2>2. s[q[i]] < s[q[j]]
    BY <1>3, <1>7
  <2> QED BY <1>4, <1>5, <2>1, <2>2
<1> QED BY <1>8, <1>9, LessIsAsymmetric

(* An ascending list of the set is the one that Queue chooses.             *)
LEMMA SortedIsQueue ==
  ASSUME NEW O, NEW s, \A o \in O : s[o] \in Nat, NEW q, Sorted(q, O, s)
  PROVE  q = CHOOSE p \in [1..Cardinality(O) -> O] :
               \A i, j \in DOMAIN p : i < j => s[p[i]] < s[p[j]]
<1> DEFINE n == Len(q)
           p == CHOOSE r \in [1..Cardinality(O) -> O] :
                  \A i, j \in DOMAIN r : i < j => s[r[i]] < s[r[j]]
<1>1. n \in Nat /\ q \in [1..n -> O]
  BY DEF Sorted
<1>2. /\ \A i, j \in 1..n : i < j => s[q[i]] < s[q[j]]
      /\ \A o \in O : \E i \in 1..n : q[i] = o
  BY DEF Sorted
<1> HIDE DEF n
<1>3. Cardinality(O) = n
  <2>1. \A a, b \in 1..n : q[a] = q[b] => a = b
    <3> SUFFICES ASSUME NEW a \in 1..n, NEW b \in 1..n, a < b
                 PROVE  q[a] # q[b]
      BY <1>1
    <3>1. q[a] \in O /\ s[q[a]] < s[q[b]]
      BY <1>1, <1>2
    <3>2. s[q[a]] \in Nat
      BY <3>1
    <3> QED BY <3>1, <3>2, LessIsProper
  <2>2. q \in Bijection(1..n, O)
    BY <1>1, <1>2, <2>1 DEF Bijection, Injection, Surjection, IsInjective
  <2>3. ExistsBijection(1..n, O)
    BY <2>2 DEF ExistsBijection
  <2>4. IsFiniteSet(1..n) /\ Cardinality(1..n) = n
    BY <1>1, FS_Interval
  <2> QED BY <2>3, <2>4, FS_Bijection
<1>4. p \in [1..n -> O] /\ \A i, j \in 1..n : i < j => s[p[i]] < s[p[j]]
  BY <1>1, <1>2, <1>3
<1> HIDE DEF p
<1>5. \A o \in O : \E i \in 1..n : p[i] = o
  <2>1. \A a, b \in 1..n : p[a] = p[b] => a = b
    <3> SUFFICES ASSUME NEW a \in 1..n, NEW b \in 1..n, a < b
                 PROVE  p[a] # p[b]
      BY <1>1
    <3>1. p[a] \in O /\ s[p[a]] < s[p[b]]
      BY <1>4
    <3>2. s[p[a]] \in Nat
      BY <3>1
    <3> QED BY <3>1, <3>2, LessIsProper
  <2>2. p \in Injection(1..n, O)
    BY <1>4, <2>1 DEF Injection, IsInjective
  <2>3. q \in Surjection(1..n, O)
    BY <1>1, <1>2 DEF Surjection
  <2>4. IsFiniteSet(1..n) /\ Cardinality(1..n) = n
    BY <1>1, FS_Interval
  <2>5. IsFiniteSet(O)
    BY <2>3, <2>4, FS_Surjection
  <2>6. p \in Surjection(1..n, O)
    BY <1>3, <2>2, <2>4, <2>5, FS_Injection
  <2> QED BY <2>6 DEF Surjection
<1>6. q \in [1..n -> O] /\ p \in [1..n -> O]
  BY <1>1, <1>4
<1>7. Lists(p, n, O, s) /\ Lists(q, n, O, s)
  BY <1>2, <1>4, <1>5, <1>6 DEF Lists
<1>8. p = q
  BY <1>1, <1>7, SortedAgree
<1> QED BY <1>8 DEF p

LEMMA RemoveAtProperties ==
  ASSUME NEW S, NEW w \in Seq(S), NEW n \in 1..Len(w)
  PROVE  /\ RemoveAt(w, n) \in Seq(S)
         /\ Len(RemoveAt(w, n)) = Len(w) - 1
         /\ \A j \in 1..(Len(w) - 1) :
              RemoveAt(w, n)[j] = w[IF j < n THEN j ELSE j + 1]
<1>1. n \in Int /\ 1 <= n /\ n <= Len(w) /\ Len(w) \in Nat
  OBVIOUS
<1>2. SubSeq(w, 1, n - 1) \in Seq(S) /\ Len(SubSeq(w, 1, n - 1)) = n - 1
  BY <1>1
<1>3. /\ SubSeq(w, n + 1, Len(w)) \in Seq(S)
      /\ Len(SubSeq(w, n + 1, Len(w))) = Len(w) - n
  BY <1>1
<1>4. \A j \in 1..(n - 1) : SubSeq(w, 1, n - 1)[j] = w[j]
  BY <1>1
<1>5. \A j \in 1..(Len(w) - n) : SubSeq(w, n + 1, Len(w))[j] = w[n + j]
  BY <1>1
<1> DEFINE a == SubSeq(w, 1, n - 1)
           b == SubSeq(w, n + 1, Len(w))
<1>6. /\ a \o b \in Seq(S) /\ Len(a \o b) = Len(w) - 1
      /\ \A j \in 1..(n - 1) : (a \o b)[j] = a[j]
      /\ \A j \in n..(Len(w) - 1) : (a \o b)[j] = b[j - (n - 1)]
  <2> HIDE DEF a, b
  <2>1. a \in Seq(S) /\ Len(a) = n - 1 /\ b \in Seq(S) /\ Len(b) = Len(w) - n
    BY <1>2, <1>3 DEF a, b
  <2>2. a \o b \in Seq(S) /\ Len(a \o b) = Len(w) - 1
    BY <1>1, <2>1
  <2> QED
    BY <1>1, <2>1, <2>2
<1>7. \A j \in 1..(Len(w) - 1) : (a \o b)[j] = w[IF j < n THEN j ELSE j + 1]
  <2> SUFFICES ASSUME NEW j \in 1..(Len(w) - 1)
               PROVE  (a \o b)[j] = w[IF j < n THEN j ELSE j + 1]
    OBVIOUS
  <2>1. CASE j < n
    <3>1. j \in 1..(n - 1)
      BY <1>1, <2>1
    <3> QED
      BY <2>1, <3>1, <1>4, <1>6
  <2>2. CASE ~(j < n)
    <3>1. /\ j \in n..(Len(w) - 1) /\ j - (n - 1) \in 1..(Len(w) - n)
          /\ (n + (j - (n - 1))) = j + 1
      BY <1>1, <2>2
    <3> HIDE DEF a, b
    <3>2. b[j - (n - 1)] = w[n + (j - (n - 1))]
      BY <3>1, <1>5 DEF b
    <3> QED
      BY <2>2, <3>1, <3>2, <1>6
  <2> QED
    BY <2>1, <2>2
<1> QED
  BY <1>6, <1>7 DEF RemoveAt

LEMMA SortedEmpty ==
  ASSUME NEW s
  PROVE  Sorted(<<>>, {}, s)
BY DEF Sorted

(* Nobody is listed twice.                                                 *)
LEMMA SortedDistinct ==
  ASSUME NEW O, NEW s, \A o \in O : s[o] \in Nat, NEW q, Sorted(q, O, s),
         NEW i \in 1..Len(q), NEW j \in 1..Len(q), i # j
  PROVE  q[i] # q[j]
<1>1. /\ q \in Seq(O) /\ Len(q) \in Nat
      /\ \A a, b \in 1..Len(q) : a < b => s[q[a]] < s[q[b]]
  BY DEF Sorted
<1>2. q[i] \in O /\ q[j] \in O
  BY <1>1
<1>3. s[q[i]] \in Nat /\ s[q[j]] \in Nat
  BY <1>2
<1>4. i < j \/ j < i
  BY <1>1
<1> SUFFICES ASSUME q[i] = q[j] PROVE FALSE
  OBVIOUS
<1>5. s[q[i]] = s[q[j]]
  OBVIOUS
<1>6. s[q[i]] < s[q[j]] \/ s[q[j]] < s[q[i]]
  BY <1>1, <1>4
<1> QED BY <1>3, <1>5, <1>6, LessIsProper

(* A newcomer behind all the others.                                       *)
LEMMA SortedAppend ==
  ASSUME NEW O, NEW s, NEW r, NEW q, Sorted(q, O, s), NEW e, e \notin O,
         \A o \in O : r[o] = s[o] /\ s[o] < r[e]
  PROVE  Sorted(Append(q, e), O \cup {e}, r)
<1> DEFINE U == O \cup {e}
           n == Len(q)
           w == Append(q, e)
<1>1. /\ q \in Seq(O) /\ n \in Nat
      /\ \A o \in O : \E i \in 1..n : q[i] = o
      /\ \A i, j \in 1..n : i < j => s[q[i]] < s[q[j]]
  BY DEF Sorted
<1>2. q \in Seq(U) /\ e \in U
  BY <1>1
<1>3. /\ w \in Seq(U) /\ Len(w) = n + 1 /\ w[n + 1] = e
      /\ \A i \in 1..n : w[i] = q[i]
  BY <1>2
<1>4. \A i \in 1..n : q[i] \in O
  BY <1>1
<1> HIDE DEF U, n, w
<1>5. \A o \in U : \E i \in 1..Len(w) : w[i] = o
  <2> SUFFICES ASSUME NEW o \in U PROVE \E i \in 1..Len(w) : w[i] = o
    OBVIOUS
  <2>1. CASE o = e
    BY <1>1, <1>3, <2>1
  <2>2. CASE o \in O
    <3>1. PICK i \in 1..n : q[i] = o
      BY <1>1, <2>2
    <3> QED BY <1>1, <1>3, <3>1
  <2> QED BY <2>1, <2>2 DEF U
<1>6. \A i, j \in 1..Len(w) : i < j => r[w[i]] < r[w[j]]
  <2> SUFFICES ASSUME NEW i \in 1..Len(w), NEW j \in 1..Len(w), i < j
               PROVE  r[w[i]] < r[w[j]]
    OBVIOUS
  <2>1. i \in 1..n /\ w[i] = q[i] /\ q[i] \in O
    BY <1>1, <1>3, <1>4
  <2>2. CASE j = n + 1
    BY <1>3, <2>1, <2>2
  <2>3. CASE j # n + 1
    <3>0. j \in 1..n
      BY <1>1, <1>3, <2>3
    <3>1. j \in 1..n /\ w[j] = q[j] /\ q[j] \in O
      BY <1>3, <1>4, <3>0
    <3>2. s[q[i]] < s[q[j]]
      BY <1>1, <2>1, <3>1
    <3> QED BY <2>1, <3>1, <3>2
  <2> QED BY <2>2, <2>3
<1> QED BY <1>3, <1>5, <1>6 DEF Sorted, U, w

(* One of them leaves.                                                     *)
LEMMA SortedRemove ==
  ASSUME NEW O, NEW s, \A o \in O : s[o] \in Nat, NEW q, Sorted(q, O, s),
         NEW k \in 1..Len(q)
  PROVE  Sorted(RemoveAt(q, k), O \ {q[k]}, s)
<1> DEFINE U == O \ {q[k]}
           n == Len(q)
           w == RemoveAt(q, k)
<1>1. /\ q \in Seq(O) /\ n \in Nat /\ k \in 1..n
      /\ \A o \in O : \E i \in 1..n : q[i] = o
      /\ \A i, j \in 1..n : i < j => s[q[i]] < s[q[j]]
  BY DEF Sorted
<1>2. /\ w \in Seq(O) /\ Len(w) = n - 1
      /\ \A j \in 1..(n - 1) : w[j] = q[IF j < k THEN j ELSE j + 1]
  BY <1>1, RemoveAtProperties
<1>a. \A i, j \in 1..n : i # j => q[i] # q[j]
  BY SortedDistinct
<1> HIDE DEF n, w
<1>3. \A j \in 1..(n - 1) : w[j] \in U
  <2> SUFFICES ASSUME NEW j \in 1..(n - 1) PROVE w[j] \in U
    OBVIOUS
  <2>1. PICK i \in 1..n : i # k /\ w[j] = q[i]
    <3>1. CASE j < k
      <4>1. j \in 1..n /\ j # k
        BY <1>1, <3>1
      <4>2. w[j] = q[j]
        BY <1>2, <3>1
      <4> QED BY <4>1, <4>2
    <3>2. CASE ~(j < k)
      <4>1. j + 1 \in 1..n /\ j + 1 # k /\ w[j] = q[j + 1]
        BY <1>1, <1>2, <3>2
      <4> QED BY <4>1
    <3> QED BY <3>1, <3>2
  <2>2. q[i] \in O
    BY <1>1 DEF n
  <2> QED BY <1>1, <1>a, <2>1, <2>2
<1>4. w \in Seq(U)
  <2>1. w \in [1..(n - 1) -> O] /\ n - 1 \in Nat
    BY <1>1, <1>2
  <2>2. w \in [1..(n - 1) -> U]
    BY <1>3, <2>1
  <2> QED BY <2>1, <2>2
<1>5. \A o \in U : \E i \in 1..Len(w) : w[i] = o
  <2> SUFFICES ASSUME NEW o \in U PROVE \E i \in 1..Len(w) : w[i] = o
    OBVIOUS
  <2>1. PICK i \in 1..n : q[i] = o
    BY <1>1
  <2>2. i # k
    BY <2>1
  <2>3. CASE i < k
    <3>1. i \in 1..(n - 1) /\ w[i] = q[i]
      BY <1>1, <1>2, <2>3
    <3> QED BY <1>2, <2>1, <3>1
  <2>4. CASE ~(i < k)
    <3>1. i - 1 \in 1..(n - 1) /\ ~(i - 1 < k) /\ (i - 1) + 1 = i
      BY <1>1, <2>2, <2>4
    <3>2. w[i - 1] = q[i]
      BY <1>2, <3>1
    <3> QED BY <1>2, <2>1, <3>1, <3>2
  <2> QED BY <2>3, <2>4
<1>6. \A i, j \in 1..Len(w) : i < j => s[w[i]] < s[w[j]]
  <2> SUFFICES ASSUME NEW i \in 1..(n - 1), NEW j \in 1..(n - 1), i < j
               PROVE  s[w[i]] < s[w[j]]
    BY <1>2
  <2> DEFINE a == IF i < k THEN i ELSE i + 1
             b == IF j < k THEN j ELSE j + 1
  <2>1. a \in 1..n /\ b \in 1..n /\ a < b
    BY <1>1
  <2>2. w[i] = q[a] /\ w[j] = q[b]
    BY <1>2
  <2> HIDE DEF a, b
  <2> QED BY <1>1, <2>1, <2>2
<1> QED BY <1>4, <1>5, <1>6 DEF Sorted, U, w

(* The least one is at the head.                                           *)
LEMMA SortedHead ==
  ASSUME NEW O, NEW s, \A o \in O : s[o] \in Nat, NEW q, Sorted(q, O, s),
         NEW e \in O, \A o \in O : s[e] <= s[o]
  PROVE  q # <<>> /\ 1 \in 1..Len(q) /\ q[1] = e /\ RemoveAt(q, 1) = Tail(q)
<1>1. /\ q \in Seq(O) /\ Len(q) \in Nat
      /\ \A i, j \in 1..Len(q) : i < j => s[q[i]] < s[q[j]]
  BY DEF Sorted
<1>2. PICK i \in 1..Len(q) : q[i] = e
  BY DEF Sorted
<1>3. q # <<>> /\ 1 \in 1..Len(q)
  BY <1>1, <1>2
<1>4. i = 1
  <2> SUFFICES ASSUME i # 1 PROVE FALSE
    OBVIOUS
  <2>1. 1 < i
    BY <1>1
  <2>2. s[q[1]] < s[e]
    BY <1>1, <1>2, <1>3, <2>1
  <2>3. q[1] \in O
    BY <1>1, <1>3
  <2>4. s[q[1]] \in Nat /\ s[e] \in Nat /\ s[e] <= s[q[1]]
    BY <2>3
  <2> QED BY <2>2, <2>4
<1>5. RemoveAt(q, 1) = Tail(q)
  BY <1>1, <1>3 DEF RemoveAt
<1> QED BY <1>2, <1>3, <1>4, <1>5

-----------------------------------------------------------------------------
(* The refinement of OrderedResume: its steps.                             *)

(* The queue of OrderedResume is the captured messages in the order of     *)
(* their slots; its variables by name.                                     *)
QInv == Sorted(Queue, Captured, seq)

Seen == {e \in Events : ticket[e] # "none"}

AnyResumed == \E e \in Events : Resumed(e)

LEMMA InitQueue == Init => Queue = <<>> /\ QInv /\ Seen = {} /\ ~AnyResumed
<1> SUFFICES ASSUME Init PROVE Queue = <<>> /\ QInv /\ Seen = {} /\ ~AnyResumed
  OBVIOUS
<1>1. Captured = {} /\ Seen = {} /\ ~AnyResumed
  BY DEF Init, Captured, Seen, AnyResumed, Outstanding, Waiting, Resumed
<1>2. Sorted(<<>>, Captured, seq)
  BY <1>1, SortedEmpty
<1>3. Queue = <<>>
  <2>1. \A o \in Captured : seq[o] \in Nat
    BY <1>1
  <2> QED BY <1>2, <2>1, SortedIsQueue DEF Queue
<1> QED BY <1>1, <1>2, <1>3 DEF QInv

LEMMA CapturedTyped ==
  ASSUME TypeOK
  PROVE  \A o \in Captured : o \in Events /\ seq[o] \in Nat
BY DEF TypeOK, Captured

(* An ascending list of what is captured after a step is the queue then.   *)
LEMMA NextQueue ==
  ASSUME TypeOK', NEW w, Sorted(w, Captured', seq')
  PROVE  Queue' = w /\ QInv'
<1>1. \A o \in Captured' : seq'[o] \in Nat
  BY DEF TypeOK, Captured
<1>2. Queue' = w
  BY <1>1, SortedIsQueue DEF Queue
<1> QED BY <1>2 DEF QInv

(* One step of OrderedResume, or none.                                     *)
AbstractStep == Abstract!Next \/ UNCHANGED <<Seen, Queue, AnyResumed>>

(* Nothing is captured, handled or resumed.                                *)
LEMMA MapsToStutter ==
  ASSUME QInv, seq' = seq,
         \A f \in Events :
           /\ Outstanding(f)' <=> Outstanding(f)
           /\ Resumed(f)' <=> Resumed(f)
           /\ ticket'[f] = "none" <=> ticket[f] = "none"
  PROVE  QInv' /\ AbstractStep
<1>1. Captured' = Captured
  BY DEF Captured
<1>2. Queue' = Queue
  BY <1>1 DEF Queue
<1>3. Seen' = Seen /\ AnyResumed' = AnyResumed
  BY DEF Seen, AnyResumed
<1>4. QInv'
  BY <1>1, <1>2 DEF QInv
<1> QED BY <1>2, <1>3, <1>4 DEF AbstractStep

(* The slot of e is handled and e is out of the queue.                     *)
LEMMA LeavesQueue ==
  ASSUME TypeOK, TypeOK', QInv, NEW e \in Events, Outstanding(e), seq' = seq,
         ~Outstanding(e)',
         \A f \in Events : f # e => (Outstanding(f)' <=> Outstanding(f))
  PROVE  /\ QInv'
         /\ \E k \in 1..Len(Queue) : Queue[k] = e /\ Queue' = RemoveAt(Queue, k)
<1>1. e \in Captured /\ Captured' = Captured \ {e}
  BY DEF Captured
<1>2. PICK k \in 1..Len(Queue) : Queue[k] = e
  BY <1>1 DEF QInv, Sorted
<1>3. Sorted(RemoveAt(Queue, k), Captured \ {Queue[k]}, seq)
  BY CapturedTyped, SortedRemove DEF QInv
<1>4. Sorted(RemoveAt(Queue, k), Captured', seq')
  BY <1>1, <1>2, <1>3
<1> QED BY <1>2, <1>4, NextQueue

(* The message that is resumed is at the head.                             *)
LEMMA ResumedIsHead ==
  ASSUME IInv, QInv, NEW e \in Events, Resumed(e)
  PROVE  /\ Queue # <<>> /\ 1 \in 1..Len(Queue) /\ Queue[1] = e
         /\ RemoveAt(Queue, 1) = Tail(Queue)
<1>1. e \in Captured
  BY DEF Captured, Outstanding
<1>2. \A o \in Captured : seq[o] \in Nat
  BY CapturedTyped DEF IInv
<1>3. \A o \in Captured : seq[e] <= seq[o]
  BY DEF Captured, IInv, SlotInv, OrderInv
<1> QED BY <1>1, <1>2, <1>3, SortedHead DEF QInv

LEMMA OneResumed ==
  ASSUME IInv, NEW e \in Events, Resumed(e), NEW f \in Events, Resumed(f)
  PROVE  e = f
BY DEF IInv, SlotInv, Owner

(* The capture of e is merged into a run.                                  *)
LEMMA MapsToMerge ==
  ASSUME IInv, TypeOK', QInv, NEW e \in Events, Outstanding(e), ~Resumed(e),
         seq' = seq, ticket' = ticket, ~Outstanding(e)', ~Resumed(e)',
         \A f \in Events : f # e =>
           /\ Outstanding(f)' <=> Outstanding(f)
           /\ Resumed(f)' <=> Resumed(f)
  PROVE  QInv' /\ AbstractStep
<1>1. TypeOK
  BY DEF IInv
<1>2. QInv'
  BY <1>1, LeavesQueue
<1>3. PICK k \in 1..Len(Queue) : Queue[k] = e /\ Queue' = RemoveAt(Queue, k)
  BY <1>1, LeavesQueue
<1>4. Seen' = Seen
  BY DEF Seen
<1>5. AnyResumed' = AnyResumed
  BY DEF AnyResumed
<1>6. AnyResumed => k # 1
  BY <1>3, ResumedIsHead DEF AnyResumed
<1>7. Queue \in Seq(Captured) /\ DOMAIN Queue = 1..Len(Queue)
  BY DEF QInv, Sorted
<1>8. Abstract!Merge(e)
  BY <1>3, <1>4, <1>5, <1>6, <1>7
     DEF Abstract!Merge, Abstract!RemoveAt, RemoveAt, Seen, AnyResumed
<1> QED BY <1>2, <1>8 DEF AbstractStep, Abstract!Next

(* The turn of e has come.                                                 *)
LEMMA MapsToResume ==
  ASSUME IInv, TypeOK', QInv, NEW e \in Events, Outstanding(e), ~Resumed(e),
         seq[e] = order.nextTurn,
         seq' = seq, ticket' = ticket, Outstanding(e)', Resumed(e)',
         \A f \in Events : f # e =>
           /\ Outstanding(f)' <=> Outstanding(f)
           /\ Resumed(f)' <=> Resumed(f)
  PROVE  QInv' /\ AbstractStep
<1>1. Captured' = Captured
  BY DEF Captured
<1>2. Queue' = Queue
  BY <1>1 DEF Queue
<1>3. QInv'
  BY <1>1, <1>2 DEF QInv
<1>4. Seen' = Seen
  BY DEF Seen
<1>5. ~AnyResumed
  <2> SUFFICES ASSUME NEW f \in Events, Resumed(f) PROVE FALSE
    BY DEF AnyResumed
  <2>1. f # e /\ Owner(e) /\ Owner(f)
    BY DEF Owner, Outstanding, Waiting
  <2> QED BY <2>1 DEF IInv, SlotInv
<1>6. AnyResumed'
  BY DEF AnyResumed
<1>7. Queue # <<>>
  <2>1. e \in Captured
    BY DEF Captured
  <2>2. PICK k \in 1..Len(Queue) : Queue[k] = e
    BY <2>1 DEF QInv, Sorted
  <2> QED BY <2>2
<1>8. Abstract!Resume
  BY <1>2, <1>4, <1>5, <1>6, <1>7 DEF Abstract!Resume, Seen, AnyResumed
<1> QED BY <1>3, <1>8 DEF AbstractStep, Abstract!Next

(* The resumed message has been answered.                                  *)
LEMMA MapsToFinish ==
  ASSUME IInv, TypeOK', QInv, NEW e \in Events, Resumed(e),
         seq' = seq, ticket' = ticket, ~Outstanding(e)', ~Resumed(e)',
         \A f \in Events : f # e =>
           /\ Outstanding(f)' <=> Outstanding(f)
           /\ Resumed(f)' <=> Resumed(f)
  PROVE  QInv' /\ AbstractStep
<1>1. TypeOK /\ Outstanding(e)
  BY DEF IInv, Outstanding
<1>2. QInv'
  BY <1>1, LeavesQueue
<1>3. PICK k \in 1..Len(Queue) : Queue[k] = e /\ Queue' = RemoveAt(Queue, k)
  BY <1>1, LeavesQueue
<1>4. k = 1
  <2>1. 1 \in 1..Len(Queue) /\ Queue[1] = e
    BY ResumedIsHead
  <2>2. \A o \in Captured : seq[o] \in Nat
    BY <1>1, CapturedTyped
  <2> QED BY <1>3, <2>1, <2>2, SortedDistinct DEF QInv
<1>5. Queue' = Tail(Queue)
  BY <1>3, <1>4, ResumedIsHead
<1>6. Seen' = Seen
  BY DEF Seen
<1>7. AnyResumed
  BY DEF AnyResumed
<1>8. AnyResumed' = FALSE
  <2> SUFFICES ASSUME NEW f \in Events, Resumed(f)' PROVE FALSE
    BY DEF AnyResumed
  <2> QED BY OneResumed
<1>9. Abstract!Finish
  BY <1>5, <1>6, <1>7, <1>8 DEF Abstract!Finish, Seen, AnyResumed
<1> QED BY <1>2, <1>9 DEF AbstractStep, Abstract!Next

(* A message is captured: it joins the queue at the end.                   *)
LEMMA MapsToCapture ==
  ASSUME IInv, IInv', QInv, NEW e \in Events, Capture(e)
  PROVE  QInv' /\ AbstractStep
<1>1. /\ TypeOK /\ TypeOK' /\ TicketInv /\ SlotInv /\ OrderInv(order)
  BY DEF IInv, SlotInv
<1>2. /\ pc[e] = "idle" /\ ticket[e] = "none"
      /\ pc' = [pc EXCEPT ![e] = "ticket"]
      /\ ticket' = [ticket EXCEPT ![e] = "open"]
      /\ monitor' = [monitor EXCEPT ![e] = TRUE]
      /\ seq' = [seq EXCEPT ![e] = Opened(order).nextOrder]
  BY <1>1 DEF Capture, CanCapture, Goto, TicketInv
<1>3. Opened(order).nextOrder = order.nextOrder
  BY <1>1, AllocateFacts
<1>4. /\ pc'[e] = "ticket" /\ ticket'[e] = "open" /\ seq'[e] = order.nextOrder
      /\ \A f \in Events : f # e =>
           /\ pc'[f] = pc[f] /\ ticket'[f] = ticket[f]
           /\ monitor'[f] = monitor[f] /\ seq'[f] = seq[f]
  BY <1>1, <1>2, <1>3 DEF TypeOK
<1>5. \A f \in Events : f # e => /\ Outstanding(f)' <=> Outstanding(f)
                                 /\ Resumed(f)' <=> Resumed(f)
  BY <1>4 DEF Outstanding, Waiting, Resumed
<1>6. ~Outstanding(e) /\ Outstanding(e)' /\ ~Resumed(e) /\ ~Resumed(e)'
  BY <1>2, <1>4 DEF Outstanding, Waiting, Resumed
<1>7. e \notin Captured /\ Captured' = Captured \cup {e}
  BY <1>5, <1>6 DEF Captured
<1>8. \A o \in Captured : seq'[o] = seq[o] /\ seq[o] < seq'[e]
  <2> SUFFICES ASSUME NEW o \in Captured
               PROVE  seq'[o] = seq[o] /\ seq[o] < seq'[e]
    OBVIOUS
  <2>1. o \in Events /\ Outstanding(o) /\ o # e /\ Owner(o)
    BY <1>7 DEF Captured, Owner, Outstanding, Waiting
  <2> QED BY <1>1, <1>4, <2>1 DEF SlotInv
<1>9. Sorted(Append(Queue, e), Captured', seq')
  BY <1>7, <1>8, SortedAppend DEF QInv
<1>10. Queue' = Append(Queue, e) /\ QInv'
  BY <1>1, <1>9, NextQueue
<1>11. e \notin Seen /\ Seen' = Seen \cup {e}
  BY <1>2, <1>4 DEF Seen
<1>12. AnyResumed' = AnyResumed
  BY <1>5, <1>6 DEF AnyResumed
<1>13. Abstract!Capture(e)
  BY <1>10, <1>11, <1>12 DEF Abstract!Capture, Seen, AnyResumed
<1> QED BY <1>10, <1>13 DEF AbstractStep, Abstract!Next

(* Every step maps to a step of OrderedResume or to none.                  *)
LEMMA NextMaps ==
  ASSUME IInv, IInv', QInv, [Next]_vars
  PROVE  QInv' /\ AbstractStep
<1>0. /\ TypeOK /\ TypeOK' /\ TicketInv /\ TicketInv' /\ SlotInv
  BY DEF IInv
<1>1. CASE UNCHANGED vars
  BY <1>1, MapsToStutter
  DEF vars, runVars, ticketVars, Outstanding, Waiting, Resumed
<1>2. ASSUME NEW e \in Events, Step(e)
      PROVE  QInv' /\ AbstractStep
  <2> USE <1>0
  <2>1. CASE Capture(e)
    BY <2>1, MapsToCapture
  <2>2. CASE Bypass(e)
    BY <2>2, MapsToStutter
    DEF Bypass, TypeOK, Goto, TicketInv, runVars, ticketVars,
        Outstanding, Waiting, Resumed
  <2>3. CASE WakeConsumed(e)
    <3>1. /\ pc[e] = "ticket" /\ ticket[e] = "consumed"
          /\ pc'[e] = "done" /\ ticket' = ticket /\ seq' = seq
          /\ \A f \in Events : f # e => pc'[f] = pc[f] /\ monitor'[f] = monitor[f]
      BY <2>3 DEF WakeConsumed, Goto, TypeOK
    <3>2. \A f \in Events : f # e => /\ Outstanding(f)' <=> Outstanding(f)
                                     /\ Resumed(f)' <=> Resumed(f)
      BY <3>1 DEF Outstanding, Waiting, Resumed
    <3>3. ~Resumed(e) /\ ~Resumed(e)' /\ ~Outstanding(e)'
      BY <3>1 DEF Outstanding, Waiting, Resumed
    <3>4. CASE Outstanding(e)
      BY <3>1, <3>2, <3>3, <3>4, MapsToMerge
    <3>5. CASE ~Outstanding(e)
      BY <3>1, <3>2, <3>3, <3>5, MapsToStutter
    <3> QED BY <3>4, <3>5
  <2>4. CASE WakeReturned(e)
    <3>1. /\ pc[e] = "ticket" /\ ticket[e] = "returned"
          /\ pc' = [pc EXCEPT ![e] = IF TurnHasCome(order, seq[e])
                                     THEN "greeting" ELSE "turn"]
          /\ ticket' = ticket /\ seq' = seq /\ monitor' = monitor
      BY <2>4 DEF WakeReturned, Goto
    <3>2. /\ Outstanding(e) /\ ~Resumed(e) /\ order.live
      BY <3>1 DEF Outstanding, Waiting, Resumed, SlotInv
    <3>3. \A f \in Events : f # e => pc'[f] = pc[f]
      BY <3>1 DEF TypeOK
    <3>4. \A f \in Events : f # e => /\ Outstanding(f)' <=> Outstanding(f)
                                     /\ Resumed(f)' <=> Resumed(f)
      BY <3>1, <3>3 DEF Outstanding, Waiting, Resumed
    <3>5. CASE TurnHasCome(order, seq[e])
      <4>1. seq[e] = order.nextTurn
        BY <3>2, <3>5 DEF TurnHasCome
      <4>2. pc'[e] = "greeting"
        BY <3>1, <3>5 DEF TypeOK
      <4>3. Outstanding(e)' /\ Resumed(e)'
        BY <3>1, <4>2 DEF Outstanding, Resumed
      <4> QED BY <3>1, <3>2, <3>4, <4>1, <4>3, MapsToResume
    <3>6. CASE ~TurnHasCome(order, seq[e])
      <4>1. pc'[e] = "turn"
        BY <3>1, <3>6 DEF TypeOK
      <4>2. Outstanding(e)' /\ ~Resumed(e)'
        BY <4>1 DEF Outstanding, Waiting, Resumed
      <4> QED BY <3>1, <3>2, <3>4, <4>2, MapsToStutter
    <3> QED BY <3>5, <3>6
  <2>5. CASE TakeTurn(e)
    <3>1. /\ pc[e] = "turn" /\ ticket[e] = "returned"
          /\ seq[e] = order.nextTurn
          /\ pc' = [pc EXCEPT ![e] = "greeting"]
          /\ ticket' = ticket /\ seq' = seq /\ monitor' = monitor
      BY <2>5 DEF TakeTurn, TurnHasCome, Goto, ticketVars, TicketInv
    <3>2. /\ pc'[e] = "greeting"
          /\ \A f \in Events : f # e => pc'[f] = pc[f]
      BY <3>1 DEF TypeOK
    <3>3. \A f \in Events : f # e => /\ Outstanding(f)' <=> Outstanding(f)
                                     /\ Resumed(f)' <=> Resumed(f)
      BY <3>1, <3>2 DEF Outstanding, Waiting, Resumed
    <3>4. Outstanding(e) /\ ~Resumed(e) /\ Outstanding(e)' /\ Resumed(e)'
      BY <3>1, <3>2 DEF Outstanding, Waiting, Resumed
    <3> QED BY <3>1, <3>3, <3>4, MapsToResume
  <2>6. CASE RunMonitor(e)
    <3>1. /\ seq' = seq /\ pc' = pc /\ ticket' = ticket
          /\ monitor[e] /\ ~monitor'[e] /\ ticket[e] # "open"
          /\ \A f \in Events : f # e => monitor'[f] = monitor[f]
      BY <2>6 DEF RunMonitor, TypeOK
    <3>2. \A f \in Events : f # e => /\ Outstanding(f)' <=> Outstanding(f)
                                     /\ Resumed(f)' <=> Resumed(f)
      BY <3>1 DEF Outstanding, Waiting, Resumed
    <3>3. Resumed(e)' <=> Resumed(e)
      BY <3>1 DEF Resumed
    <3>4. CASE ticket[e] = "consumed"
      <4>1. pc[e] = "ticket"
        BY <3>1, <3>4 DEF TicketInv
      <4>2. Outstanding(e) /\ ~Resumed(e) /\ ~Outstanding(e)' /\ ~Resumed(e)'
        BY <3>1, <3>4, <4>1 DEF Outstanding, Waiting, Resumed
      <4> QED BY <3>1, <3>2, <4>2, MapsToMerge
    <3>5. CASE ticket[e] # "consumed"
      <4>1. Outstanding(e)' <=> Outstanding(e)
        BY <3>1, <3>5 DEF Outstanding, Waiting, Resumed
      <4> QED BY <3>1, <3>2, <3>3, <4>1, MapsToStutter
    <3> QED BY <3>4, <3>5
  <2>7. CASE EnterLock(e)
    BY <2>7, MapsToStutter
    DEF EnterLock, TypeOK, Goto, TicketInv, runVars, ticketVars,
        Outstanding, Waiting, Resumed
  <2>8. CASE Acquire(e)
    BY <2>8, MapsToStutter
    DEF Acquire, TypeOK, Goto, TicketInv, runVars, ticketVars,
        Outstanding, Waiting, Resumed
  <2>9. CASE BuildEnds(e)
    BY <2>9, MapsToStutter
    DEF BuildEnds, TypeOK, Goto, TicketInv, runVars, ticketVars,
        Outstanding, Waiting, Resumed
  <2>10. CASE Register(e)
    BY <2>10, MapsToStutter
    DEF Register, TypeOK, Goto, TicketInv, runVars, ticketVars,
        Outstanding, Waiting, Resumed
  <2>11. CASE ToolResult(e)
    BY <2>11, ResolveTicket, MapsToStutter
    DEF ToolResult, Running, TypeOK, Goto, TicketInv, runVars, ticketVars,
        Outstanding, Waiting, Resumed
  <2>12. CASE AskModel(e)
    BY <2>12, MapsToStutter
    DEF AskModel, TypeOK, Goto, TicketInv, runVars, ticketVars,
        Outstanding, Waiting, Resumed
  <2>13. CASE ToolSendsDirect(e)
    BY <2>13, ResolveTicket, MapsToStutter
    DEF ToolSendsDirect, Running, TypeOK, Goto, TicketInv, runVars, ticketVars,
        Outstanding, Waiting, Resumed
  <2>14. CASE Complete(e)
    BY <2>14, MapsToStutter
    DEF Complete, Running, TypeOK, Goto, TicketInv, runVars, ticketVars,
        Outstanding, Waiting, Resumed
  <2>15. CASE AbortStep(e)
    BY <2>15, MapsToStutter
    DEF AbortStep, Running, TypeOK, Goto, TicketInv, runVars, ticketVars,
        Outstanding, Waiting, Resumed
  <2>16. CASE ReturnTickets(e)
    BY <2>16, ResolveTicket, MapsToStutter
    DEF ReturnTickets, TypeOK, Goto, TicketInv, runVars, ticketVars,
        Outstanding, Waiting, Resumed
  <2>17. CASE ErrorResponse(e)
    <3>1. /\ pc[e] = "running" /\ pc'[e] = "saving"
          /\ seq' = seq /\ monitor' = monitor
          /\ \A f \in Events : f # e => pc'[f] = pc[f]
      BY <2>17 DEF ErrorResponse, Running, Goto, TypeOK
    <3>2. \A f \in Events : \/ ticket'[f] = ticket[f]
                            \/ ticket[f] = "open" /\ ticket'[f] = "returned"
      BY <2>17, ResolveTicket DEF ErrorResponse
    <3>3. \A f \in Events : ticket[f] = "open" => pc[f] = "ticket"
      BY DEF TicketInv
    <3> QED BY <3>1, <3>2, <3>3, MapsToStutter DEF Outstanding, Waiting, Resumed
  <2>18. CASE LeaveLoop(e)
    BY <2>18, MapsToStutter
    DEF LeaveLoop, Running, TypeOK, Goto, TicketInv, runVars, ticketVars,
        Outstanding, Waiting, Resumed
  <2>19. CASE PipelineBreak(e)
    BY <2>19, MapsToStutter
    DEF PipelineBreak, Running, TypeOK, Goto, TicketInv, runVars, ticketVars,
        Outstanding, Waiting, Resumed
  <2>20. CASE Close(e)
    BY <2>20, MapsToStutter
    DEF Close, TypeOK, Goto, TicketInv, runVars, ticketVars,
        Outstanding, Waiting, Resumed
  <2>21. CASE Finalize(e)
    <3>1. /\ pc[e] = "closing" /\ pc'[e] = "done"
          /\ ticket' = ticket /\ seq' = seq
          /\ \A f \in Events : f # e => pc'[f] = pc[f] /\ monitor'[f] = monitor[f]
      BY <2>21 DEF Finalize, Goto, TypeOK
    <3>2. \A f \in Events : f # e => /\ Outstanding(f)' <=> Outstanding(f)
                                     /\ Resumed(f)' <=> Resumed(f)
      BY <3>1 DEF Outstanding, Waiting, Resumed
    <3>3. ~Outstanding(e)' /\ ~Resumed(e)' /\ (Outstanding(e) <=> Resumed(e))
      BY <3>1 DEF Outstanding, Waiting, Resumed
    <3>4. CASE Resumed(e)
      BY <3>1, <3>2, <3>3, <3>4, MapsToFinish
    <3>5. CASE ~Resumed(e)
      BY <3>1, <3>2, <3>3, <3>5, MapsToStutter
    <3> QED BY <3>4, <3>5
  <2>22. CASE RequestStop(e)
    BY <2>22, MapsToStutter
    DEF RequestStop, TypeOK, Goto, TicketInv, runVars, ticketVars,
        Outstanding, Waiting, Resumed
  <2>23. CASE SeeStop(e)
    BY <2>23, MapsToStutter
    DEF SeeStop, Running, TypeOK, Goto, TicketInv, runVars, ticketVars,
        Outstanding, Waiting, Resumed
  <2> QED
    BY <1>2, <2>1, <2>2, <2>3, <2>4, <2>5, <2>6, <2>7, <2>8, <2>9, <2>10, <2>11,
       <2>12, <2>13, <2>14, <2>15, <2>16, <2>17, <2>18, <2>19, <2>20, <2>21,
       <2>22, <2>23 DEF Step, Arrive, Continue, Wake, Answer
<1> QED BY <1>1, <1>2 DEF Next

(* FollowUp implements OrderedResume: captured messages are merged or      *)
(* resumed, each once, and resumed one by one in the order of capture,     *)
(* whatever the order in which the tasks and the monitors wake.            *)
THEOREM ResumesInOrder == Spec => HandledInOrder
<1>1. Init => Abstract!Init /\ QInv
  BY InitQueue DEF Abstract!Init, Seen, AnyResumed
<1>2. IInv /\ IInv' /\ QInv /\ [Next]_vars
        => QInv' /\ [Abstract!Next]_(Abstract!vars)
  <2> SUFFICES ASSUME IInv, IInv', QInv, [Next]_vars
               PROVE  QInv' /\ [Abstract!Next]_(Abstract!vars)
    OBVIOUS
  <2>1. QInv' /\ AbstractStep
    BY NextMaps
  <2> QED BY <2>1 DEF AbstractStep, Abstract!vars, Seen, AnyResumed
<1> QED BY <1>1, <1>2, Inductive, PTL DEF Spec, HandledInOrder, Abstract!Spec
=============================================================================
