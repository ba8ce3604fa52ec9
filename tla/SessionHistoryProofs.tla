------------------------ MODULE SessionHistoryProofs ------------------------
(***************************************************************************)
(* Proofs about SessionHistory.  When every task is a message, that is when*)
(* nobody writes a history without the session lock except the commands    *)
(* that empty it, no turn is ever saved over.  And whatever the tasks are, *)
(* a message that is stopped before its agent starts leaves no trace.      *)
(***************************************************************************)
EXTENDS SessionHistory, TLAPS

(* The tasks that are inside the session lock.                             *)
Inside(t) == pc[t] \in {"building", "picked", "loaded", "running", "answered",
                        "saving"}

(* The tasks that carry a history they have read.                          *)
Carries(t) == pc[t] \in {"loaded", "running", "answered", "saving"}

(* At most one task is inside, and it is the head of the lock's queue.     *)
LockInv == \A t \in Tasks : Inside(t) => lockq # <<>> /\ Head(lockq) = t

(* What has been read is still there, or was emptied by a command.         *)
BaseInv == \A t \in Tasks :
  Carries(t) => /\ conv[t] \in used
                /\ history[conv[t]] \in {base[t], <<>>}

(* An id that was not given out has no history yet.                        *)
UnusedInv == \A c \in Convs \ used : history[c] = <<>>

(* A reset that has stopped the events has a conversation to empty.        *)
ResetInv == \A c \in Cmds :
  CommandOf[c] = "reset" /\ cmdpc[c] = "stopped" => target[c] \in Convs

IInv == TypeOK /\ ResetInv /\ LockInv /\ BaseInv /\ UnusedInv

(* The initial state satisfies the invariant.                              *)
LEMMA InitInv == Init => IInv
<1> SUFFICES ASSUME Init PROVE IInv
  OBVIOUS
<1>1. TypeOK
  BY KindAssumption DEF Init, TypeOK, PCs
<1>2. ResetInv /\ LockInv /\ BaseInv /\ UnusedInv
  BY DEF Init, ResetInv, LockInv, BaseInv, UnusedInv, Inside, Carries
<1> QED
  BY <1>1, <1>2 DEF IInv

(* Taking a task in and out of the lock's queue.                           *)
LEMMA LeaveType ==
  ASSUME lockq \in Seq(Tasks), NEW t \in Tasks, Leave(t)
  PROVE  lockq' \in Seq(Tasks)
<1>1. CASE UsesLock(t)
  <2>1. lockq # <<>> /\ lockq' = Tail(lockq)
    BY <1>1 DEF Leave, Lock!Release, Lock!Owns
  <2> QED
    BY <2>1
<1>2. CASE ~UsesLock(t)
  BY <1>2 DEF Leave
<1> QED
  BY <1>1, <1>2

(* Stopping marks tasks.                                                   *)
LEMMA StopAllType ==
  ASSUME TypeOK, StopAll
  PROVE  stopped' \in [Tasks -> BOOLEAN] /\ silenced' \subseteq Tasks
BY DEF TypeOK, StopAll, Registered, UsesLock

(* The type invariant is inductive with ResetInv.                          *)
LEMMA TypeStep == TypeOK /\ ResetInv /\ [Next]_vars => TypeOK'
<1> SUFFICES ASSUME TypeOK, ResetInv, [Next]_vars PROVE TypeOK'
  OBVIOUS
<1>0. kind' = kind
  BY DEF Next, vars
<1> USE <1>0 DEF TypeOK, PCs, Goto, Cmd, taskVars, stopVars, storeVars, cmdVars
<1>1. CASE UNCHANGED vars
  BY <1>1 DEF vars
<1>2. ASSUME NEW t \in Tasks, Run(t) PROVE TypeOK'
  <2>1. CASE Arrive(t)
    <3>1. CASE UsesLock(t)
      <4>1. lockq' = Append(lockq, t) /\ pc' = [pc EXCEPT ![t] = "lock"]
        BY <2>1, <3>1 DEF Arrive, Lock!Request
      <4> QED
        BY <2>1, <4>1 DEF Arrive
    <3>2. CASE ~UsesLock(t)
      <4>1. lockq' = lockq /\ pc' = [pc EXCEPT ![t] = "building"]
        BY <2>1, <3>2 DEF Arrive
      <4> QED
        BY <2>1, <4>1 DEF Arrive
    <3> QED
      BY <3>1, <3>2
  <2>2. CASE Prepare(t)
    BY <2>2 DEF Prepare
  <2>3. CASE EnterLock(t)
    BY <2>3 DEF EnterLock, Lock!Request
  <2>4. CASE Acquire(t)
    BY <2>4 DEF Acquire
  <2>5. CASE Pick(t)
    BY <2>5 DEF Pick
  <2>6. CASE Load(t)
    BY <2>6 DEF Load
  <2>7. ASSUME NEW c \in Convs, LoadNew(t, c) PROVE TypeOK'
    BY <2>7 DEF LoadNew, Create
  <2>8. CASE Start(t)
    BY <2>8 DEF Start
  <2>9. CASE GiveUp(t)
    BY <2>9, LeaveType DEF GiveUp
  <2>10. CASE Finish(t)
    BY <2>10 DEF Finish
  <2>11. CASE Abort(t)
    BY <2>11 DEF Abort
  <2>12. CASE DecideToSave(t)
    BY <2>12 DEF DecideToSave
  <2>13. CASE DecideNotToSave(t)
    BY <2>13, LeaveType DEF DecideNotToSave
  <2>14. CASE Save(t)
    <3>1. Append(base[t], t) \in Seq(Tasks)
      OBVIOUS
    <3>2. history' \in [Convs -> Seq(Tasks)]
      BY <2>14, <3>1 DEF Save
    <3> QED
      BY <2>14, <3>2, LeaveType DEF Save
  <2> QED
    BY <1>2, <2>1, <2>2, <2>3, <2>4, <2>5, <2>6, <2>7, <2>8, <2>9, <2>10,
       <2>11, <2>12, <2>13, <2>14 DEF Run
<1>3. ASSUME NEW c \in Cmds, Command(c) PROVE TypeOK'
  <2>1. CASE ResetStops(c)
    <3>1. CASE current = NoConv
      BY <2>1, <3>1 DEF ResetStops
    <3>2. CASE current # NoConv
      BY <2>1, <3>2, StopAllType DEF ResetStops
    <3> QED
      BY <3>1, <3>2
  <2>2. CASE ResetClears(c)
    <3>1. target[c] \in Convs
      BY <2>2 DEF ResetClears, ResetInv
    <3>2. ToSet(history[target[c]]) \subseteq Tasks
      BY <3>1 DEF ToSet
    <3>3. history' \in [Convs -> Seq(Tasks)]
      <4>1. <<>> \in Seq(Tasks)
        OBVIOUS
      <4> QED
        BY <2>2, <4>1 DEF ResetClears
    <3>4. wiped' \subseteq Tasks
      BY <2>2, <3>2 DEF ResetClears
    <3> QED
      BY <2>2, <3>3, <3>4 DEF ResetClears
  <2>3. CASE NewStops(c)
    BY <2>3, StopAllType DEF NewStops
  <2>4. ASSUME NEW d \in Convs, NewCreates(c, d) PROVE TypeOK'
    BY <2>4 DEF NewCreates, Create
  <2>5. CASE Stop(c)
    BY <2>5 DEF Stop, Registered, UsesLock
  <2>6. ASSUME NEW d \in Convs, DeleteRow(c, d) PROVE TypeOK'
    BY <2>6 DEF DeleteRow
  <2>7. CASE Deselect(c)
    BY <2>7 DEF Deselect
  <2> QED
    BY <1>3, <2>1, <2>2, <2>3, <2>4, <2>5, <2>6, <2>7 DEF Command
<1> QED
  BY <1>1, <1>2, <1>3 DEF Next

(* A reset that has stopped the events goes on with the same conversation. *)
LEMMA ResetStep == TypeOK /\ ResetInv /\ [Next]_vars => ResetInv'
<1> SUFFICES ASSUME TypeOK, ResetInv, [Next]_vars PROVE ResetInv'
  OBVIOUS
<1> USE DEF TypeOK, ResetInv, Cmd, taskVars, stopVars, storeVars, cmdVars
<1>1. CASE UNCHANGED vars
  BY <1>1 DEF vars
<1>2. ASSUME NEW t \in Tasks, Run(t) PROVE ResetInv'
  <2>1. UNCHANGED cmdVars
    BY <1>2 DEF Run, Arrive, Prepare, EnterLock, Acquire, Pick, Load, LoadNew,
                Start, GiveUp, Finish, Abort, DecideToSave, DecideNotToSave, Save
  <2> QED
    BY <2>1
<1>3. ASSUME NEW c \in Cmds, Command(c) PROVE ResetInv'
  <2>1. CASE ResetStops(c)
    BY <2>1 DEF ResetStops
  <2>2. CASE ResetClears(c)
    BY <2>2 DEF ResetClears
  <2>3. CASE NewStops(c)
    BY <2>3 DEF NewStops
  <2>4. ASSUME NEW d \in Convs, NewCreates(c, d) PROVE ResetInv'
    BY <2>4 DEF NewCreates
  <2>5. CASE Stop(c)
    BY <2>5 DEF Stop
  <2>6. ASSUME NEW d \in Convs, DeleteRow(c, d) PROVE ResetInv'
    BY <2>6 DEF DeleteRow
  <2>7. CASE Deselect(c)
    BY <2>7 DEF Deselect
  <2> QED
    BY <1>3, <2>1, <2>2, <2>3, <2>4, <2>5, <2>6, <2>7 DEF Command
<1> QED
  BY <1>1, <1>2, <1>3 DEF Next

-----------------------------------------------------------------------------
(* The lock.                                                               *)

(* There is never more than one task inside.                               *)
LEMMA Alone ==
  ASSUME LockInv, NEW t \in Tasks, NEW u \in Tasks, Inside(t), Inside(u)
  PROVE  t = u
BY DEF LockInv

(* The task inside leaves.                                                 *)
LEMMA LeaveLock ==
  ASSUME TypeOK, LockInv, NEW t \in Tasks, Inside(t),
         pc' = [pc EXCEPT ![t] = "done"]
  PROVE  LockInv'
<1> SUFFICES ASSUME NEW u \in Tasks, Inside(u)' PROVE FALSE
  BY DEF LockInv
<1>1. u # t /\ Inside(u)
  BY DEF TypeOK, Inside
<1> QED
  BY <1>1, Alone

(* A task queues up for the lock.                                          *)
LEMMA RequestLock ==
  ASSUME TypeOK, LockInv, NEW t \in Tasks, Lock!Request(t),
         pc' = [pc EXCEPT ![t] = "lock"]
  PROVE  LockInv'
<1> SUFFICES ASSUME NEW u \in Tasks, Inside(u)'
             PROVE  lockq' # <<>> /\ Head(lockq') = u
  BY DEF LockInv
<1>1. Inside(u)
  BY DEF TypeOK, Inside
<1>2. lockq \in Seq(Tasks) /\ lockq # <<>> /\ Head(lockq) = u
  BY <1>1 DEF TypeOK, LockInv
<1>3. lockq' = Append(lockq, t)
  BY DEF Lock!Request
<1> QED
  BY <1>2, <1>3

(* Nobody gets inside without being the head of the queue.                 *)
LEMMA LockStep ==
  OnlyMessages /\ TypeOK /\ LockInv /\ [Next]_vars => LockInv'
<1> SUFFICES ASSUME OnlyMessages, TypeOK, LockInv, [Next]_vars PROVE LockInv'
  OBVIOUS
<1> USE DEF Goto, taskVars, stopVars, storeVars, cmdVars
<1>1. ASSUME lockq' = lockq, \A u \in Tasks : Inside(u)' => Inside(u)
      PROVE  LockInv'
  BY <1>1 DEF LockInv
<1>2. CASE UNCHANGED vars
  BY <1>1, <1>2 DEF vars, Inside
<1>3. ASSUME NEW t \in Tasks, Run(t) PROVE LockInv'
  <2>1. kind[t] = "message" /\ UsesLock(t)
    BY DEF OnlyMessages, UsesLock
  <2>2. CASE Arrive(t)
    BY <2>1, <2>2, RequestLock DEF Arrive
  <2>3. CASE Prepare(t)
    BY <2>1, <2>3 DEF Prepare
  <2>4. CASE EnterLock(t)
    BY <2>4, RequestLock DEF EnterLock
  <2>5. CASE Acquire(t)
    BY <2>5 DEF Acquire, Lock!Owns, LockInv, Inside, TypeOK
  <2>6. CASE Pick(t)
    BY <2>6, <1>1 DEF Pick, Inside, TypeOK
  <2>7. CASE Load(t)
    BY <2>7, <1>1 DEF Load, Inside, TypeOK
  <2>8. ASSUME NEW c \in Convs, LoadNew(t, c) PROVE LockInv'
    BY <2>8, <1>1 DEF LoadNew, Inside, TypeOK
  <2>9. CASE Start(t)
    BY <2>9, <1>1 DEF Start, Inside, TypeOK
  <2>10. CASE GiveUp(t)
    BY <2>10, LeaveLock DEF GiveUp, Inside
  <2>11. CASE Finish(t)
    BY <2>11, <1>1 DEF Finish, Inside, TypeOK
  <2>12. CASE Abort(t)
    BY <2>12, <1>1 DEF Abort, Inside, TypeOK
  <2>13. CASE DecideToSave(t)
    BY <2>13, <1>1 DEF DecideToSave, Inside, TypeOK
  <2>14. CASE DecideNotToSave(t)
    BY <2>14, LeaveLock DEF DecideNotToSave, Inside
  <2>15. CASE Save(t)
    BY <2>15, LeaveLock DEF Save, Inside
  <2> QED
    BY <1>3, <2>2, <2>3, <2>4, <2>5, <2>6, <2>7, <2>8, <2>9, <2>10, <2>11,
       <2>12, <2>13, <2>14, <2>15 DEF Run
<1>4. ASSUME NEW c \in Cmds, Command(c) PROVE LockInv'
  <2>1. lockq' = lockq /\ pc' = pc
    BY <1>4 DEF Command, ResetStops, ResetClears, NewStops, NewCreates, Stop,
                DeleteRow, Deselect
  <2> QED
    BY <2>1, <1>1 DEF Inside
<1> QED
  BY <1>2, <1>3, <1>4 DEF Next

-----------------------------------------------------------------------------
(* The histories.                                                          *)

(* A step that reads nothing and at most empties histories.                *)
LEMMA BaseFrame ==
  ASSUME BaseInv, used \subseteq used',
         \A u \in Tasks : Carries(u)' =>
           /\ Carries(u)
           /\ conv'[u] = conv[u]
           /\ base'[u] = base[u]
           /\ history'[conv[u]] \in {history[conv[u]], <<>>}
  PROVE  BaseInv'
BY DEF BaseInv

(* What a message has read stays true until it saves.                      *)
LEMMA BaseStep ==
  OnlyMessages /\ IInv /\ [Next]_vars => BaseInv'
<1> SUFFICES ASSUME OnlyMessages, IInv, [Next]_vars PROVE BaseInv'
  OBVIOUS
<1> USE DEF IInv, TypeOK, Goto, Cmd, taskVars, stopVars, storeVars, cmdVars
<1>1. CASE UNCHANGED vars
  BY <1>1, BaseFrame DEF vars, Carries
<1>2. ASSUME NEW t \in Tasks, Run(t) PROVE BaseInv'
  <2>1. kind[t] = "message"
    BY DEF OnlyMessages
  <2>2. CASE Arrive(t)
    <3>1. pc'[t] \in {"lock", "building"} /\ \A u \in Tasks : u # t => pc'[u] = pc[u]
      BY <2>2 DEF Arrive
    <3> QED
      BY <2>2, <3>1, BaseFrame DEF Arrive, Carries
  <2>3. CASE Prepare(t)
    BY <2>1, <2>3 DEF Prepare
  <2>4. CASE EnterLock(t)
    BY <2>4, BaseFrame DEF EnterLock, Carries
  <2>5. CASE Acquire(t)
    BY <2>1, <2>5, BaseFrame DEF Acquire, Carries
  <2>6. CASE Pick(t)
    BY <2>6, BaseFrame DEF Pick, Carries
  <2>7. CASE Load(t)
    BY <2>7 DEF Load, Carries, BaseInv
  <2>8. ASSUME NEW c \in Convs, LoadNew(t, c) PROVE BaseInv'
    BY <2>8 DEF LoadNew, Create, Carries, BaseInv, UnusedInv
  <2>9. CASE Start(t)
    BY <2>9, BaseFrame DEF Start, Carries
  <2>10. CASE GiveUp(t)
    BY <2>10, BaseFrame DEF GiveUp, Carries
  <2>11. CASE Finish(t)
    BY <2>11, BaseFrame DEF Finish, Carries
  <2>12. CASE Abort(t)
    BY <2>12, BaseFrame DEF Abort, Carries
  <2>13. CASE DecideToSave(t)
    BY <2>13, BaseFrame DEF DecideToSave, Carries
  <2>14. CASE DecideNotToSave(t)
    BY <2>14, BaseFrame DEF DecideNotToSave, Carries
  <2>15. CASE Save(t)
    <3>1. ASSUME NEW u \in Tasks, Carries(u)' PROVE FALSE
      <4>1. u # t /\ Carries(u)
        BY <2>15, <3>1 DEF Save, Carries
      <4> QED
        BY <2>15, <4>1, Alone DEF Save, Carries, Inside
    <3> QED
      BY <3>1 DEF BaseInv
  <2> QED
    BY <1>2, <2>2, <2>3, <2>4, <2>5, <2>6, <2>7, <2>8, <2>9, <2>10, <2>11,
       <2>12, <2>13, <2>14, <2>15 DEF Run
<1>3. ASSUME NEW c \in Cmds, Command(c) PROVE BaseInv'
  <2>1. pc' = pc /\ conv' = conv /\ base' = base
    BY <1>3 DEF Command, ResetStops, ResetClears, NewStops, NewCreates, Stop,
                DeleteRow, Deselect
  <2>2. used \subseteq used'
    BY <1>3 DEF Command, ResetStops, ResetClears, NewStops, NewCreates, Create,
                Stop, DeleteRow, Deselect
  <2>3. ASSUME NEW d \in Convs PROVE history'[d] \in {history[d], <<>>}
    BY <1>3 DEF Command, ResetStops, ResetClears, NewStops, NewCreates, Create,
                Stop, DeleteRow, Deselect
  <2>4. \A u \in Tasks : Carries(u) => conv[u] \in Convs
    BY DEF BaseInv
  <2> QED
    BY <2>1, <2>2, <2>3, <2>4, BaseFrame DEF Carries
<1> QED
  BY <1>1, <1>2, <1>3 DEF Next

(* Which histories a step changes: one that is saved, or emptied.          *)
LEMMA HistoryStep ==
  ASSUME TypeOK, [Next]_vars
  PROVE  \/ UNCHANGED history
         \/ \E t \in Tasks : Save(t)
         \/ \E k \in Cmds : /\ cmdpc'[k] # cmdpc[k]
                            /\ history' = [history EXCEPT ![target'[k]] = <<>>]
<1>1. CASE UNCHANGED vars
  BY <1>1 DEF vars, storeVars
<1>2. ASSUME NEW t \in Tasks, Run(t), ~Save(t) PROVE UNCHANGED history
  BY <1>2 DEF Run, Arrive, Prepare, EnterLock, Acquire, Pick, Load, LoadNew,
              Create, Start, GiveUp, Finish, Abort, DecideToSave,
              DecideNotToSave, storeVars
<1>3. ASSUME NEW c \in Cmds, Command(c),
             ~ResetClears(c), \A d \in Convs : ~DeleteRow(c, d)
      PROVE  UNCHANGED history
  BY <1>3 DEF Command, ResetStops, NewStops, NewCreates, Create, Stop, Deselect,
              storeVars
<1>4. ASSUME NEW c \in Cmds, ResetClears(c)
      PROVE  /\ cmdpc'[c] # cmdpc[c]
             /\ history' = [history EXCEPT ![target'[c]] = <<>>]
  BY <1>4 DEF ResetClears, Cmd, TypeOK
<1>5. ASSUME NEW c \in Cmds, NEW d \in Convs, DeleteRow(c, d)
      PROVE  /\ cmdpc'[c] # cmdpc[c]
             /\ history' = [history EXCEPT ![target'[c]] = <<>>]
  BY <1>5 DEF DeleteRow, Cmd, TypeOK
<1> QED
  BY <1>1, <1>2, <1>3, <1>4, <1>5 DEF Next

(* An id that is not given out keeps its empty history.                    *)
LEMMA UnusedStep == IInv /\ [Next]_vars => UnusedInv'
<1> SUFFICES ASSUME IInv, [Next]_vars, NEW c \in Convs \ used'
             PROVE  history'[c] = <<>>
  BY DEF UnusedInv
<1>1. used \subseteq used'
  BY DEF Next, vars, storeVars, Run, Arrive, Prepare, EnterLock, Acquire, Pick,
         Load, LoadNew, Create, Start, GiveUp, Finish, Abort, DecideToSave,
         DecideNotToSave, Save, Command, ResetStops, ResetClears, NewStops,
         NewCreates, Stop, DeleteRow, Deselect
<1>2. history[c] = <<>>
  BY <1>1 DEF IInv, UnusedInv
<1>3. CASE UNCHANGED history
  BY <1>2, <1>3
<1>4. ASSUME NEW t \in Tasks, Save(t) PROVE history'[c] = <<>>
  BY <1>1, <1>2, <1>4 DEF Save, IInv, TypeOK
<1>5. ASSUME NEW k \in Cmds, history' = [history EXCEPT ![target'[k]] = <<>>]
      PROVE  history'[c] = <<>>
  BY <1>2, <1>5 DEF IInv, TypeOK
<1> QED
  BY <1>3, <1>4, <1>5, HistoryStep DEF IInv

(* The kinds of the tasks never change.                                    *)
LEMMA KindStep == [Next]_vars => OnlyMessages' = OnlyMessages
BY DEF Next, vars, OnlyMessages

(* The invariant holds in every state of a session that only has messages. *)
THEOREM Inductive == Spec => [](OnlyMessages => IInv)
<1>1. (OnlyMessages => IInv) /\ [Next]_vars => (OnlyMessages => IInv)'
  BY TypeStep, ResetStep, LockStep, BaseStep, UnusedStep, KindStep DEF IInv
<1>2. Init => (OnlyMessages => IInv)
  BY InitInv
<1> QED
  BY <1>1, <1>2, PTL DEF Spec

(* The variables of a session keep their types, whatever its tasks are.    *)
THEOREM TypeCorrect == Spec => []TypeOK
<1>1. TypeOK /\ ResetInv /\ [Next]_vars => (TypeOK /\ ResetInv)'
  BY TypeStep, ResetStep
<1>2. Init => TypeOK /\ ResetInv
  BY InitInv DEF IInv
<1> QED
  BY <1>1, <1>2, PTL DEF Spec

(* What a message has read under the session lock stays the history of its *)
(* conversation, or that was emptied by a command, until it saves.         *)
THEOREM ReadsStayCurrent == Spec => []BaseIsCurrent
<1>1. (OnlyMessages => IInv) => BaseIsCurrent
  BY DEF IInv, BaseInv, BaseIsCurrent, Carries
<1> QED
  BY <1>1, Inductive, PTL

-----------------------------------------------------------------------------
(* A sequence is a prefix of itself ...                                    *)
LEMMA PrefixSelf ==
  ASSUME NEW S, NEW s \in Seq(S)
  PROVE  IsPrefix(s, s)
BY DEF IsPrefix

(* ... and of what it is extended to, as the empty sequence is.            *)
LEMMA PrefixFacts ==
  ASSUME NEW S, NEW s \in Seq(S), NEW x \in S
  PROVE  /\ IsPrefix(s, Append(s, x))
         /\ IsPrefix(<<>>, Append(s, x))
BY DEF IsPrefix

(* No step saves over a turn that is already in a history: the session     *)
(* lock serialises reading a conversation, answering and saving it, and    *)
(* only /reset and a deletion take turns away.                             *)
THEOREM NoTurnLost == Spec => TurnsKept
<1>1. ASSUME IInv, [Next]_vars, NEW c \in Convs
      PROVE  IsPrefix(history[c], history'[c]) \/ ClearedByCommand(c)
  <2>1. history[c] \in Seq(Tasks)
    BY <1>1 DEF IInv, TypeOK
  <2>2. CASE UNCHANGED history
    BY <2>1, <2>2, PrefixSelf
  <2>3. ASSUME NEW t \in Tasks, Save(t)
        PROVE  IsPrefix(history[c], history'[c])
    <3>1. history[conv[t]] \in {base[t], <<>>} /\ base[t] \in Seq(Tasks)
      BY <1>1, <2>3 DEF Save, IInv, TypeOK, BaseInv, Carries
    <3>2. CASE c = conv[t] /\ conv[t] \in rows
      <4>1. history'[c] = Append(base[t], t)
        BY <1>1, <2>3, <3>2 DEF Save, IInv, TypeOK
      <4> QED
        BY <3>1, <3>2, <4>1, PrefixFacts
    <3>3. CASE ~(c = conv[t] /\ conv[t] \in rows)
      <4>1. history'[c] = history[c]
        BY <1>1, <2>3, <3>3 DEF Save, IInv, TypeOK
      <4> QED
        BY <2>1, <4>1, PrefixSelf
    <3> QED
      BY <3>2, <3>3
  <2>4. ASSUME NEW k \in Cmds, cmdpc'[k] # cmdpc[k],
               history' = [history EXCEPT ![target'[k]] = <<>>]
        PROVE  IsPrefix(history[c], history'[c]) \/ ClearedByCommand(c)
    <3>1. CASE c = target'[k]
      BY <1>1, <2>4, <3>1 DEF ClearedByCommand, IInv, TypeOK
    <3>2. CASE c # target'[k]
      <4>1. history'[c] = history[c]
        BY <1>1, <2>4, <3>2 DEF IInv, TypeOK
      <4> QED
        BY <2>1, <4>1, PrefixSelf
    <3> QED
      BY <3>1, <3>2
  <2> QED
    BY <1>1, <2>2, <2>3, <2>4, HistoryStep DEF IInv
<1>2. (OnlyMessages => IInv) /\ [Next]_vars =>
        [OnlyMessages => \A c \in Convs :
           IsPrefix(history[c], history'[c]) \/ ClearedByCommand(c)]_vars
  BY <1>1
<1> QED
  BY <1>2, Inductive, PTL DEF Spec, TurnsKept
-----------------------------------------------------------------------------
(* Messages that were stopped.                                             *)

(* Until a task is done its turn is in no history, and nobody has read it. *)
Unsaved(t) ==
  /\ \A c \in Convs : t \notin ToSet(history[c])
  /\ \A u \in Tasks : t \notin ToSet(base[u])

(* A silenced task never runs, so its turn stays out of the histories.     *)
SilentInv ==
  \A t \in Tasks :
    /\ t \in silenced => stopped[t] /\ (NotStarted(t) \/ pc[t] = "done")
    /\ pc[t] # "done" \/ t \in silenced => Unsaved(t)

(* What saving adds to a history.                                          *)
LEMMA AppendSet ==
  ASSUME NEW S, NEW s \in Seq(S), NEW x \in S
  PROVE  ToSet(Append(s, x)) = ToSet(s) \cup {x}
<1>1. Len(Append(s, x)) = Len(s) + 1 /\ Append(s, x)[Len(s) + 1] = x
  OBVIOUS
<1>2. \A i \in 1..Len(s) : Append(s, x)[i] = s[i]
  OBVIOUS
<1>3. DOMAIN s = 1..Len(s) /\ DOMAIN Append(s, x) = 1..(Len(s) + 1)
  BY <1>1
<1>4. 1..(Len(s) + 1) = 1..Len(s) \cup {Len(s) + 1}
  OBVIOUS
<1> QED
  BY <1>1, <1>2, <1>3, <1>4 DEF ToSet

(* A step that adds no turn and silences nobody: a silenced task stays     *)
(* where it is, goes on towards its start, or ends.                        *)
LEMMA SilentFrame ==
  ASSUME SilentInv, silenced' = silenced,
         \A t \in Tasks : stopped[t] => stopped'[t],
         \A t \in Tasks : t \in silenced =>
           NotStarted(t)' \/ pc'[t] = "done",
         \A t \in Tasks : pc'[t] # "done" => pc[t] # "done",
         \A t \in Tasks : Unsaved(t) => Unsaved(t)'
  PROVE  SilentInv'
BY DEF SilentInv
(* Nothing is added by emptying a history or by reading one.               *)
LEMMA UnsavedFrame ==
  ASSUME \A c \in Convs : history'[c] \in {history[c], <<>>},
         \A u \in Tasks : base'[u] \in {base[u], <<>>} \cup {history[c] : c \in Convs}
  PROVE  \A t \in Tasks : Unsaved(t) => Unsaved(t)'
<1>1. ToSet(<<>>) = {}
  BY DEF ToSet
<1> QED
  BY <1>1 DEF Unsaved

(* A task is silenced only before its agent runs, and saves only after.    *)
LEMMA SilentRun ==
  ASSUME TypeOK, SilentInv, NEW t \in Tasks, Run(t)
  PROVE  SilentInv'
<1> USE DEF TypeOK, Goto, taskVars, stopVars, storeVars, cmdVars
<1>1. ASSUME \A c \in Convs : history'[c] = history[c],
             \A u \in Tasks :
               base'[u] \in {base[u], <<>>} \cup {history[c] : c \in Convs}
      PROVE  \A u \in Tasks : Unsaved(u) => Unsaved(u)'
  BY <1>1, UnsavedFrame
<1>2. t \in silenced => stopped[t] /\ (NotStarted(t) \/ pc[t] = "done")
  BY DEF SilentInv
<1>3. ASSUME NEW l, pc' = [pc EXCEPT ![t] = l], silenced' = silenced,
             stopped' = stopped, pc[t] # "done",
             t \in silenced => l \in {"prepared", "lock", "building", "picked",
                                      "loaded", "done"},
             \A u \in Tasks : Unsaved(u) => Unsaved(u)'
      PROVE  SilentInv'
  <2>1. \A u \in Tasks : u \in silenced => NotStarted(u) \/ pc[u] = "done"
    BY DEF SilentInv
  <2>2. \A u \in Tasks : u \in silenced => NotStarted(u)' \/ pc'[u] = "done"
    BY <1>3, <2>1 DEF NotStarted
  <2>3. \A u \in Tasks : pc'[u] # "done" => pc[u] # "done"
    BY <1>3
  <2> QED
    BY <1>3, <2>2, <2>3, SilentFrame
<1>4. CASE Arrive(t)
  <2>1. UNCHANGED <<history, base, silenced, stopped>> /\ pc[t] = "idle"
    BY <1>4 DEF Arrive
  <2>2. pc' = [pc EXCEPT ![t] = "lock"] \/ pc' = [pc EXCEPT ![t] = "building"]
    BY <1>4 DEF Arrive
  <2> QED
    BY <1>1, <1>3, <2>1, <2>2
<1>5. CASE Prepare(t)
  <2>1. /\ UNCHANGED <<history, silenced, stopped>> /\ pc[t] = "idle"
        /\ \A u \in Tasks : base'[u] \in {base[u]} \cup {history[c] : c \in Convs}
    BY <1>5 DEF Prepare
  <2>2. pc' = [pc EXCEPT ![t] = "prepared"] \/ pc' = [pc EXCEPT ![t] = "done"]
    BY <1>5 DEF Prepare
  <2> QED
    BY <1>1, <1>3, <2>1, <2>2
<1>6. CASE EnterLock(t)
  BY <1>1, <1>3, <1>6 DEF EnterLock
<1>7. CASE Acquire(t)
  <2>1. UNCHANGED <<history, base, silenced, stopped>> /\ pc[t] = "lock"
    BY <1>7 DEF Acquire
  <2>2. pc' = [pc EXCEPT ![t] = "loaded"] \/ pc' = [pc EXCEPT ![t] = "building"]
    BY <1>7 DEF Acquire
  <2> QED
    BY <1>1, <1>3, <2>1, <2>2
<1>8. CASE Pick(t)
  BY <1>1, <1>3, <1>8 DEF Pick
<1>9. CASE Load(t)
  <2>1. /\ UNCHANGED <<history, silenced, stopped>> /\ pc[t] = "picked"
        /\ \A u \in Tasks : base'[u] \in {base[u]} \cup {history[c] : c \in Convs}
        /\ pc' = [pc EXCEPT ![t] = "loaded"]
    BY <1>9 DEF Load
  <2> QED
    BY <1>1, <1>3, <2>1
<1>10. ASSUME NEW c \in Convs, LoadNew(t, c) PROVE SilentInv'
  <2>1. /\ UNCHANGED <<history, silenced, stopped>> /\ pc[t] = "picked"
        /\ \A u \in Tasks : base'[u] \in {base[u], <<>>}
        /\ pc' = [pc EXCEPT ![t] = "loaded"]
    BY <1>10 DEF LoadNew, Create
  <2> QED
    BY <1>1, <1>3, <2>1
<1>11. CASE Start(t)
  <2>1. t \notin silenced
    BY <1>2, <1>11 DEF Start
  <2> QED
    BY <1>1, <1>3, <1>11, <2>1 DEF Start
<1>12. CASE GiveUp(t)
  BY <1>1, <1>3, <1>12 DEF GiveUp
<1>13. ASSUME pc[t] \in {"running", "answered", "saving"} PROVE t \notin silenced
  BY <1>2, <1>13 DEF NotStarted
<1>14. CASE Finish(t)
  BY <1>1, <1>3, <1>13, <1>14 DEF Finish
<1>15. CASE Abort(t)
  BY <1>1, <1>3, <1>13, <1>15 DEF Abort
<1>16. CASE DecideToSave(t)
  BY <1>1, <1>3, <1>13, <1>16 DEF DecideToSave
<1>17. CASE DecideNotToSave(t)
  BY <1>1, <1>3, <1>17 DEF DecideNotToSave
<1>18. CASE Save(t)
  <2>1. /\ pc[t] = "saving" /\ pc' = [pc EXCEPT ![t] = "done"]
        /\ UNCHANGED <<base, silenced, stopped>>
        /\ \A c \in Convs : history'[c] \in {history[c], Append(base[t], t)}
    BY <1>18 DEF Save
  <2>2. t \notin silenced
    BY <1>13, <2>1
  <2>3. ToSet(Append(base[t], t)) = ToSet(base[t]) \cup {t}
    BY AppendSet
  <2>4. ASSUME NEW u \in Tasks, u # t, Unsaved(u) PROVE Unsaved(u)'
    BY <2>1, <2>3, <2>4 DEF Unsaved
  <2>5. ASSUME NEW u \in Tasks, u # t
        PROVE  /\ u \in silenced' => stopped'[u] /\ (NotStarted(u)' \/ pc'[u] = "done")
               /\ pc'[u] # "done" \/ u \in silenced' => Unsaved(u)'
    BY <2>1, <2>4, <2>5 DEF SilentInv, NotStarted
  <2> QED
    BY <2>1, <2>2, <2>5 DEF SilentInv
<1> QED
  BY <1>4, <1>5, <1>6, <1>7, <1>8, <1>9, <1>10, <1>11, <1>12, <1>14, <1>15,
     <1>16, <1>17, <1>18 DEF Run

(* A command silences only tasks that have saved nothing.                  *)
LEMMA SilentCommand ==
  ASSUME TypeOK, SilentInv, NEW c \in Cmds, Command(c)
  PROVE  SilentInv'
<1> USE DEF TypeOK, taskVars, stopVars, storeVars, cmdVars
<1>1. UNCHANGED <<pc, base>>
  BY DEF Command, ResetStops, ResetClears, NewStops, NewCreates, Stop,
         DeleteRow, Deselect
<1>2. \A d \in Convs : history'[d] \in {history[d], <<>>}
  BY DEF Command, ResetStops, ResetClears, NewStops, NewCreates, Create, Stop,
         DeleteRow, Deselect
<1>3. \A t \in Tasks : Unsaved(t) => Unsaved(t)'
  BY <1>1, <1>2, UnsavedFrame
<1>4. StopAll \/ UNCHANGED <<stopped, silenced>>
  BY DEF Command, ResetStops, ResetClears, NewStops, NewCreates, Stop,
         DeleteRow, Deselect
<1>5. CASE UNCHANGED <<stopped, silenced>>
  BY <1>1, <1>3, <1>5 DEF SilentInv, NotStarted
<1>6. CASE StopAll
  <2> SUFFICES ASSUME NEW t \in Tasks
               PROVE  /\ t \in silenced' =>
                           stopped'[t] /\ (NotStarted(t) \/ pc[t] = "done")
                      /\ pc[t] # "done" \/ t \in silenced' => Unsaved(t)
    BY <1>1, <1>3 DEF SilentInv, NotStarted
  <2>1. stopped'[t] <=> stopped[t] \/ Registered(t)
    BY <1>6 DEF StopAll
  <2>2. t \in silenced' <=> t \in silenced \/ (Registered(t) /\ NotStarted(t))
    BY <1>6 DEF StopAll
  <2>3. NotStarted(t) => pc[t] # "done"
    BY DEF NotStarted
  <2> QED
    BY <2>1, <2>2, <2>3 DEF SilentInv
<1> QED
  BY <1>4, <1>5, <1>6

(* A message that a command stops before its agent has started leaves no   *)
(* trace in a history, for any mixture of messages, prepared requests and  *)
(* jobs: the checks of is_stopped() before the run.                        *)
THEOREM SilentTheorem == Spec => []StoppedLeavesNoTrace
<1>1. Init => SilentInv
  <2>1. ToSet(<<>>) = {}
    BY DEF ToSet
  <2> QED
    BY <2>1 DEF Init, SilentInv, Unsaved
<1>2. TypeOK /\ SilentInv /\ [Next]_vars => SilentInv'
  <2> SUFFICES ASSUME TypeOK, SilentInv, [Next]_vars PROVE SilentInv'
    OBVIOUS
  <2>1. CASE UNCHANGED vars
    BY <2>1 DEF vars, taskVars, stopVars, storeVars, cmdVars, SilentInv,
                Unsaved, NotStarted
  <2> QED
    BY <2>1, SilentRun, SilentCommand DEF Next
<1>3. TypeOK /\ SilentInv => StoppedLeavesNoTrace
  BY DEF TypeOK, SilentInv, Unsaved, StoppedLeavesNoTrace
<1> QED
  BY <1>1, <1>2, <1>3, TypeCorrect, PTL DEF Spec
=============================================================================
