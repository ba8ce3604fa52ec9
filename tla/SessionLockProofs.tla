-------------------------- MODULE SessionLockProofs --------------------------
(***************************************************************************)
(* Proofs about SessionLock, for any finite set of tasks and any number of *)
(* sessions and lock objects: its invariants, and that it implements       *)
(* FifoMutex for each session.                                             *)
(***************************************************************************)
EXTENDS SessionLockFifo, FiniteSetTheorems, SequenceTheorems, TLAPS

Users(s) == {t \in Tasks : session[t] = s}

(* A task has a session and the session's lock object from Enter to Exit.  *)
MineInv ==
  \A t \in Tasks :
    IF pc[t] = "idle"
    THEN session[t] = NoSession /\ mine[t] = NoLock
    ELSE /\ session[t] \in Sessions
         /\ mine[t] = table[session[t]]
         /\ mine[t] \in LockIds

(* No lock object serves two sessions, and an entry counts its users.      *)
TableInv ==
  /\ \A s, r \in Sessions :
       table[s] # NoLock /\ table[s] = table[r] => s = r
  /\ \A s \in Sessions :
       /\ count[s] = Cardinality(Users(s))
       /\ table[s] = NoLock <=> Users(s) = {}

(* A lock is taken exactly while one task holds it.                        *)
HolderInv ==
  /\ \A t \in Tasks : pc[t] = "holding" => mine[t] \in locked
  /\ \A l \in locked : \E t \in Tasks : pc[t] = "holding" /\ mine[t] = l
  /\ \A t, u \in Tasks :
       pc[t] = "holding" /\ pc[u] = "holding" /\ mine[t] = mine[u] => t = u

(* The queue of a lock holds the tasks that wait for it, each once.        *)
QueueInv ==
  /\ \A l \in LockIds : \A i \in 1..Len(waiters[l]) :
       pc[waiters[l][i]] = "waiting" /\ mine[waiters[l][i]] = l
  /\ \A l \in LockIds : \A i, j \in 1..Len(waiters[l]) :
       waiters[l][i] = waiters[l][j] => i = j
  /\ \A t \in Tasks : pc[t] = "waiting" =>
       \E i \in 1..Len(waiters[mine[t]]) : waiters[mine[t]][i] = t

(* Who was woken is the first in the queue of a lock that is free.         *)
WokenInv ==
  \A t \in woken :
    /\ pc[t] = "waiting"
    /\ mine[t] \notin locked
    /\ waiters[mine[t]] # <<>>
    /\ waiters[mine[t]][1] = t

IInv == TypeOK /\ MineInv /\ TableInv /\ HolderInv /\ QueueInv /\ WokenInv /\ WakeNotLost

-----------------------------------------------------------------------------
(* What leaving a queue does to it.                                        *)
LEMMA WithoutProperties ==
  ASSUME NEW S, NEW q \in Seq(S), NEW k \in 1..Len(q),
         \A i, j \in 1..Len(q) : q[i] = q[j] => i = j
  PROVE  LET r == Without(q, q[k])
         IN /\ r \in Seq(S)
            /\ Len(r) = Len(q) - 1
            /\ \A j \in 1..Len(r) : r[j] = q[IF j < k THEN j ELSE j + 1]
<1>1. (CHOOSE i \in DOMAIN q : q[i] = q[k]) = k
  OBVIOUS
<1>2. Without(q, q[k]) = [j \in 1..(Len(q) - 1) |-> q[IF j < k THEN j ELSE j + 1]]
  BY <1>1 DEF Without
<1>3. Len(q) - 1 \in Nat
  OBVIOUS
<1>4. \A j \in 1..(Len(q) - 1) : q[IF j < k THEN j ELSE j + 1] \in S
  OBVIOUS
<1>5. Without(q, q[k]) \in Seq(S)
  BY <1>2, <1>3, <1>4, IsASeq
<1>6. Len(Without(q, q[k])) = Len(q) - 1
  BY <1>2, <1>3
<1> QED
  BY <1>2, <1>5, <1>6

LEMMA InitInv == Init => IInv
<1> SUFFICES ASSUME Init PROVE IInv
  OBVIOUS
<1> USE LockAssumption DEF Init
<1>1. TypeOK
  BY DEF TypeOK
<1>2. MineInv /\ HolderInv /\ QueueInv /\ WokenInv /\ WakeNotLost
  BY DEF MineInv, HolderInv, QueueInv, WokenInv, WakeNotLost
<1>3. \A s \in Sessions : Users(s) = {}
  BY DEF Users
<1>4. TableInv
  BY <1>3, FS_EmptySet DEF TableInv
<1> QED
  BY <1>1, <1>2, <1>4 DEF IInv

-----------------------------------------------------------------------------
(* The users of a session are finitely many, and their number says whether *)
(* there are any.                                                          *)
LEMMA UsersFinite ==
  ASSUME NEW s
  PROVE  /\ IsFiniteSet(Users(s))
         /\ Cardinality(Users(s)) \in Nat
         /\ Cardinality(Users(s)) = 0 <=> Users(s) = {}
<1>1. Users(s) \subseteq Tasks
  BY DEF Users
<1>2. IsFiniteSet(Users(s))
  BY <1>1, FS_Subset, LockAssumption
<1> QED
  BY <1>2, FS_CardinalityType, FS_EmptySet

(* A task that enters is one more user of its session.                     *)
LEMMA UsersEnter ==
  ASSUME TypeOK, TableInv, NEW t \in Tasks, NEW s \in Sessions,
         session[t] = NoSession,
         session' = [session EXCEPT ![t] = s],
         count' = [count EXCEPT ![s] = @ + 1]
  PROVE  /\ \A r \in Sessions : count'[r] = Cardinality(Users(r)')
         /\ Users(s)' # {}
         /\ \A r \in Sessions \ {s} : Users(r)' = Users(r)
<1> USE LockAssumption DEF TypeOK
<1>1. Users(s)' = Users(s) \cup {t} /\ t \notin Users(s)
  BY DEF Users
<1>2. \A r \in Sessions \ {s} : Users(r)' = Users(r)
  BY DEF Users
<1>3. Cardinality(Users(s)') = Cardinality(Users(s)) + 1
  BY <1>1, UsersFinite, FS_AddElement
<1>4. \A r \in Sessions : count'[r] = Cardinality(Users(r)')
  BY <1>2, <1>3 DEF TableInv
<1> QED
  BY <1>1, <1>2, <1>4

(* A task that leaves is one user less, and the last one if it counted 1.  *)
LEMMA UsersForget ==
  ASSUME TypeOK, TableInv, NEW t \in Tasks, NEW s \in Sessions,
         session[t] = s, Forget(t)
  PROVE  /\ \A r \in Sessions : count'[r] = Cardinality(Users(r)')
         /\ count[s] = 1 <=> Users(s)' = {}
         /\ \A r \in Sessions \ {s} : Users(r)' = Users(r)
<1> USE LockAssumption DEF TypeOK
<1>1. Users(s)' = Users(s) \ {t} /\ t \in Users(s)
  BY DEF Users, Forget
<1>2. \A r \in Sessions \ {s} : Users(r)' = Users(r)
  BY DEF Users, Forget
<1>3. /\ IsFiniteSet(Users(s)')
      /\ Cardinality(Users(s)') = Cardinality(Users(s)) - 1
  BY <1>1, UsersFinite, FS_RemoveElement
<1>4. Cardinality(Users(s)') = 0 <=> Users(s)' = {}
  BY <1>3, FS_EmptySet
<1>5. count[s] = Cardinality(Users(s)) /\ count[s] \in Nat
  BY DEF TableInv
<1>6. count'[s] = Cardinality(Users(s)') /\ (count[s] = 1 <=> Users(s)' = {})
  BY <1>3, <1>4, <1>5 DEF Forget
<1>7. ASSUME NEW r \in Sessions \ {s} PROVE count'[r] = Cardinality(Users(r)')
  <2>1. count'[r] = count[r]
    BY DEF Forget
  <2> QED
    BY <2>1, <1>2 DEF TableInv
<1> QED
  BY <1>2, <1>6, <1>7

(* A fresh lock object is free and nobody waits for it.                    *)
LEMMA FreshIsFree ==
  ASSUME IInv, NEW l \in LockIds, FreshLock(l)
  PROVE  l \notin locked /\ waiters[l] = <<>>
<1>1. l \notin locked
  BY DEF IInv, HolderInv, FreshLock
<1>2. waiters[l] \in Seq(Tasks)
  BY DEF IInv, TypeOK
<1>3. ASSUME waiters[l] # <<>> PROVE FALSE
  <2>1. 1 \in 1..Len(waiters[l]) /\ waiters[l][1] \in Tasks
    BY <1>2, <1>3
  <2> QED
    BY <2>1 DEF IInv, QueueInv, FreshLock
<1> QED
  BY <1>1, <1>3

LEMMA EnterStep ==
  ASSUME IInv, NEW t \in Tasks, NEW s \in Sessions, Enter(t, s)
  PROVE  IInv'
<1>0. PICK l \in LockIds :
        /\ IF table[s] = NoLock THEN FreshLock(l) ELSE l = table[s]
        /\ table' = [table EXCEPT ![s] = l]
        /\ mine' = [mine EXCEPT ![t] = l]
        /\ TakeOrWait(t, l)
  BY DEF Enter
<1>a. /\ pc[t] = "idle"
      /\ count' = [count EXCEPT ![s] = @ + 1]
      /\ session' = [session EXCEPT ![t] = s]
      /\ woken' = woken
  BY DEF Enter
<1>b. TypeOK /\ MineInv /\ TableInv /\ HolderInv /\ QueueInv /\ WokenInv /\ WakeNotLost
  BY DEF IInv
<1>c. session[t] = NoSession /\ mine[t] = NoLock
  BY <1>a, <1>b DEF MineInv
<1>d. table[s] = NoLock => l \notin locked /\ waiters[l] = <<>>
  BY <1>0, FreshIsFree
<1>e. \A u \in Tasks \ {t} : pc'[u] = pc[u] /\ mine'[u] = mine[u] /\ session'[u] = session[u]
  BY <1>0, <1>a, <1>b DEF TakeOrWait, TypeOK
<1>f. mine'[t] = l /\ session'[t] = s /\ pc'[t] \in {"waiting", "holding"}
  BY <1>0, <1>a, <1>b DEF TakeOrWait, TypeOK
<1>g. table[s] \in {NoLock, l} /\ table'[s] = l
      /\ \A r \in Sessions \ {s} : table'[r] = table[r] /\ table[r] # l
  BY <1>0, <1>b, LockAssumption DEF TypeOK, TableInv, FreshLock
<1>1. TypeOK'
  <2>1. /\ session' \in [Tasks -> Sessions \cup {NoSession}]
        /\ mine' \in [Tasks -> LockIds \cup {NoLock}]
        /\ table' \in [Sessions -> LockIds \cup {NoLock}]
        /\ count' \in [Sessions -> Nat]
    BY <1>0, <1>a, <1>b DEF TypeOK
  <2>2. /\ pc' \in [Tasks -> {"idle", "waiting", "holding"}]
        /\ locked' \subseteq LockIds
        /\ woken' \subseteq Tasks
    BY <1>0, <1>a, <1>b DEF TypeOK, TakeOrWait
  <2>3. Append(waiters[l], t) \in Seq(Tasks)
    BY <1>b DEF TypeOK
  <2>4. waiters' \in [LockIds -> Seq(Tasks)]
    BY <2>3, <1>0, <1>b DEF TypeOK, TakeOrWait
  <2> QED
    BY <2>1, <2>2, <2>4 DEF TypeOK
<1>2. MineInv'
  <2> SUFFICES ASSUME NEW u \in Tasks
               PROVE  IF pc'[u] = "idle"
                      THEN session'[u] = NoSession /\ mine'[u] = NoLock
                      ELSE /\ session'[u] \in Sessions
                           /\ mine'[u] = table'[session'[u]]
                           /\ mine'[u] \in LockIds
    BY DEF MineInv
  <2>1. CASE u = t
    BY <2>1, <1>f, <1>g
  <2>2. CASE u # t /\ pc[u] = "idle"
    BY <2>2, <1>b, <1>e DEF MineInv
  <2>3. CASE u # t /\ pc[u] # "idle"
    <3>1. session[u] \in Sessions /\ mine[u] = table[session[u]] /\ mine[u] \in LockIds
      BY <2>3, <1>b DEF MineInv
    <3>2. table'[session[u]] = table[session[u]]
      BY <3>1, <1>g, LockAssumption
    <3> QED
      BY <2>3, <3>1, <3>2, <1>e
  <2> QED
    BY <2>1, <2>2, <2>3
<1>3. TableInv'
  <2>1. /\ \A r \in Sessions : count'[r] = Cardinality(Users(r)')
        /\ Users(s)' # {}
        /\ \A r \in Sessions \ {s} : Users(r)' = Users(r)
    BY <1>a, <1>b, <1>c, UsersEnter
  <2>2. \A r \in Sessions : table'[r] = NoLock <=> Users(r)' = {}
    BY <2>1, <1>b, <1>g, LockAssumption DEF TableInv
  <2>3. \A r, q \in Sessions : table'[r] # NoLock /\ table'[r] = table'[q] => r = q
    BY <1>b, <1>g DEF TableInv
  <2> QED
    BY <2>1, <2>2, <2>3 DEF TableInv
<1>4. CASE l \notin locked /\ waiters[l] = <<>>
  <2>1. /\ locked' = locked \cup {l} /\ pc'[t] = "holding" /\ waiters' = waiters
    BY <1>4, <1>0, <1>b DEF TakeOrWait, TypeOK
  <2>2. HolderInv'
    <3>1. \A u \in Tasks : pc'[u] = "holding" => mine'[u] \in locked'
      BY <2>1, <1>b, <1>e, <1>f DEF HolderInv
    <3>2. \A k \in locked' : \E u \in Tasks : pc'[u] = "holding" /\ mine'[u] = k
      <4>1. \A k \in locked : \E u \in Tasks \ {t} : pc[u] = "holding" /\ mine[u] = k
        BY <1>a, <1>b DEF HolderInv
      <4> QED
        BY <4>1, <2>1, <1>e, <1>f
    <3>3. \A u \in Tasks \ {t} : pc'[u] = "holding" => mine'[u] # l
      BY <1>4, <1>b, <1>e DEF HolderInv
    <3>4. \A u, v \in Tasks :
            pc'[u] = "holding" /\ pc'[v] = "holding" /\ mine'[u] = mine'[v] => u = v
      BY <3>3, <1>b, <1>e, <1>f DEF HolderInv
    <3> QED
      BY <3>1, <3>2, <3>4 DEF HolderInv
  <2>3. QueueInv'
    <3>1. \A k \in LockIds : \A i \in 1..Len(waiters[k]) : waiters[k][i] \in Tasks \ {t}
      BY <1>a, <1>b DEF QueueInv, TypeOK
    <3>2. \A k \in LockIds : \A i \in 1..Len(waiters'[k]) :
            pc'[waiters'[k][i]] = "waiting" /\ mine'[waiters'[k][i]] = k
      BY <2>1, <3>1, <1>b, <1>e DEF QueueInv
    <3>3. \A u \in Tasks : pc'[u] = "waiting" =>
            \E i \in 1..Len(waiters'[mine'[u]]) : waiters'[mine'[u]][i] = u
      BY <2>1, <1>b, <1>e DEF QueueInv
    <3> QED
      BY <2>1, <3>2, <3>3, <1>b DEF QueueInv
  <2>4. WokenInv'
    BY <2>1, <1>4, <1>a, <1>b, <1>e DEF WokenInv, TypeOK
  <2>5. WakeNotLost'
    BY <2>1, <1>a, <1>b DEF WakeNotLost
  <2> QED
    BY <1>1, <1>2, <1>3, <2>2, <2>3, <2>4, <2>5 DEF IInv
<1>5. CASE ~(l \notin locked /\ waiters[l] = <<>>)
  <2>1. /\ waiters' = [waiters EXCEPT ![l] = Append(@, t)]
        /\ locked' = locked /\ pc'[t] = "waiting"
    BY <1>5, <1>0, <1>b DEF TakeOrWait, TypeOK
  <2>2. waiters[l] \in Seq(Tasks) /\ waiters'[l] = Append(waiters[l], t)
        /\ \A k \in LockIds \ {l} : waiters'[k] = waiters[k]
    BY <2>1, <1>b DEF TypeOK
  <2>3. /\ Len(waiters'[l]) = Len(waiters[l]) + 1
        /\ \A i \in 1..Len(waiters[l]) : waiters'[l][i] = waiters[l][i]
        /\ waiters'[l][Len(waiters[l]) + 1] = t
    BY <2>2
  <2>4. HolderInv'
    <3>1. \A u \in Tasks : pc'[u] = "holding" =>
            u # t /\ pc[u] = "holding" /\ mine'[u] = mine[u]
      BY <2>1, <1>e
    <3>2. \A k \in locked' : \E u \in Tasks \ {t} : pc[u] = "holding" /\ mine[u] = k
      BY <2>1, <1>a, <1>b DEF HolderInv
    <3>3. \A k \in locked' : \E u \in Tasks : pc'[u] = "holding" /\ mine'[u] = k
      BY <3>2, <1>e
    <3> QED
      BY <2>1, <3>1, <3>3, <1>b DEF HolderInv
  <2>5. \A k \in LockIds : \A i \in 1..Len(waiters[k]) : waiters[k][i] \in Tasks \ {t}
    BY <1>a, <1>b DEF QueueInv, TypeOK
  <2>6. QueueInv'
    <3>1. \A k \in LockIds : \A i \in 1..Len(waiters'[k]) :
            pc'[waiters'[k][i]] = "waiting" /\ mine'[waiters'[k][i]] = k
      <4> SUFFICES ASSUME NEW k \in LockIds, NEW i \in 1..Len(waiters'[k])
                   PROVE  pc'[waiters'[k][i]] = "waiting" /\ mine'[waiters'[k][i]] = k
        OBVIOUS
      <4>1. CASE k = l /\ i = Len(waiters[l]) + 1
        BY <4>1, <2>1, <2>3, <1>f
      <4>2. CASE ~(k = l /\ i = Len(waiters[l]) + 1)
        <5>1. i \in 1..Len(waiters[k]) /\ waiters'[k][i] = waiters[k][i]
          BY <4>2, <2>2, <2>3
        <5>2. waiters[k][i] \in Tasks \ {t}
          BY <5>1, <2>5
        <5> QED
          BY <5>1, <5>2, <1>b, <1>e DEF QueueInv
      <4> QED
        BY <4>1, <4>2
    <3>2. \A k \in LockIds : \A i, j \in 1..Len(waiters'[k]) :
            waiters'[k][i] = waiters'[k][j] => i = j
      <4> SUFFICES ASSUME NEW k \in LockIds,
                          NEW i \in 1..Len(waiters'[k]), NEW j \in 1..Len(waiters'[k]),
                          waiters'[k][i] = waiters'[k][j]
                   PROVE  i = j
        OBVIOUS
      <4>1. CASE k # l
        BY <4>1, <2>2, <1>b DEF QueueInv
      <4>2. CASE k = l
        <5>1. \A n \in 1..Len(waiters[l]) : waiters'[l][n] # t
          BY <2>3, <2>5
        <5>2. \A n, m \in 1..Len(waiters[l]) :
                waiters'[l][n] = waiters'[l][m] => n = m
          BY <2>3, <1>b DEF QueueInv
        <5>3. Len(waiters[l]) \in Nat /\ 1..Len(waiters'[l]) = 1..(Len(waiters[l]) + 1)
          BY <2>2, <2>3
        <5> QED
          BY <4>2, <5>1, <5>2, <5>3, <2>3
      <4> QED
        BY <4>1, <4>2
    <3>3. ASSUME NEW u \in Tasks, pc'[u] = "waiting"
          PROVE  \E i \in 1..Len(waiters'[mine'[u]]) : waiters'[mine'[u]][i] = u
      <4>1. CASE u = t
        BY <4>1, <2>2, <2>3, <1>f
      <4>2. CASE u # t
        <5>1. pc[u] = "waiting" /\ mine'[u] = mine[u]
          BY <3>3, <4>2, <1>e
        <5>2. PICK i \in 1..Len(waiters[mine[u]]) : waiters[mine[u]][i] = u
          BY <5>1, <1>b DEF QueueInv
        <5>3. mine[u] \in LockIds
          BY <5>1, <1>b DEF MineInv
        <5> QED
          BY <5>1, <5>2, <5>3, <2>2, <2>3
      <4> QED
        BY <4>1, <4>2
    <3> QED
      BY <3>1, <3>2, <3>3 DEF QueueInv
  <2>7. WokenInv'
    <3> SUFFICES ASSUME NEW u \in woken
                 PROVE  /\ pc'[u] = "waiting"
                        /\ mine'[u] \notin locked'
                        /\ waiters'[mine'[u]] # <<>>
                        /\ waiters'[mine'[u]][1] = u
      BY <1>a DEF WokenInv
    <3>1. /\ u \in Tasks /\ pc[u] = "waiting" /\ mine[u] \notin locked
          /\ waiters[mine[u]] # <<>> /\ waiters[mine[u]][1] = u
      BY <1>b DEF WokenInv, TypeOK
    <3>2. u # t /\ mine[u] \in LockIds
      BY <3>1, <1>a, <1>b DEF MineInv
    <3>3. waiters[mine[u]] \in Seq(Tasks)
      BY <3>2, <1>b DEF TypeOK
    <3> QED
      BY <3>1, <3>2, <3>3, <2>1, <2>2, <2>3, <1>e
  <2>8. WakeNotLost'
    <3> SUFFICES ASSUME NEW k \in LockIds, k \notin locked', waiters'[k] # <<>>
                 PROVE  Head(waiters'[k]) \in woken'
      BY DEF WakeNotLost
    <3>1. CASE k = l
      <4>1. waiters[l] # <<>> /\ l \notin locked
        BY <3>1, <1>5, <2>1
      <4> QED
        BY <4>1, <3>1, <2>2, <1>a, <1>b DEF WakeNotLost
    <3>2. CASE k # l
      BY <3>2, <2>1, <2>2, <1>a, <1>b DEF WakeNotLost
    <3> QED
      BY <3>1, <3>2
  <2> QED
    BY <1>1, <1>2, <1>3, <2>4, <2>6, <2>7, <2>8 DEF IInv
<1> QED
  BY <1>4, <1>5
-----------------------------------------------------------------------------
(* What leaving the queue does to the queues.                              *)
LEMMA LeaveQueue ==
  ASSUME IInv, NEW t \in Tasks, pc[t] = "waiting",
         waiters' = [waiters EXCEPT ![mine[t]] = Without(@, t)]
  PROVE  /\ waiters' \in [LockIds -> Seq(Tasks)]
         /\ \A k \in LockIds : \A i \in 1..Len(waiters'[k]) :
              /\ waiters'[k][i] \in Tasks \ {t}
              /\ pc[waiters'[k][i]] = "waiting" /\ mine[waiters'[k][i]] = k
         /\ \A k \in LockIds : \A i, j \in 1..Len(waiters'[k]) :
              waiters'[k][i] = waiters'[k][j] => i = j
         /\ \A u \in Tasks \ {t} : pc[u] = "waiting" =>
              \E i \in 1..Len(waiters'[mine[u]]) : waiters'[mine[u]][i] = u
         /\ \A k \in LockIds \ {mine[t]} : waiters'[k] = waiters[k]
         /\ waiters[mine[t]][1] # t =>
              waiters'[mine[t]] # <<>> /\ waiters'[mine[t]][1] = waiters[mine[t]][1]
<1>0. TypeOK /\ MineInv /\ QueueInv
  BY DEF IInv
<1>1. PICK l \in LockIds : l = mine[t]
  BY <1>0 DEF MineInv
<1>2. PICK q \in Seq(Tasks) : q = waiters[l]
  BY <1>0 DEF TypeOK
<1>3. PICK n \in 1..Len(q) : q[n] = t
  BY <1>0, <1>1, <1>2 DEF QueueInv
<1>4. \A i, j \in 1..Len(q) : q[i] = q[j] => i = j
  BY <1>0, <1>2 DEF QueueInv
<1>5. PICK r \in Seq(Tasks) :
        /\ r = Without(q, t)
        /\ Len(r) = Len(q) - 1
        /\ \A j \in 1..Len(r) : r[j] = q[IF j < n THEN j ELSE j + 1]
  BY <1>3, <1>4, WithoutProperties
<1>6. /\ waiters'[l] = r
      /\ waiters' \in [LockIds -> Seq(Tasks)]
      /\ \A k \in LockIds \ {l} : waiters'[k] = waiters[k]
  BY <1>0, <1>1, <1>2, <1>5 DEF TypeOK
<1>7. Len(q) \in Nat /\ Len(r) \in Nat
  BY <1>2, <1>5
<1>8. \A j \in 1..Len(r) : \E i \in 1..Len(q) :
        i # n /\ r[j] = q[i] /\ i = IF j < n THEN j ELSE j + 1
  <2> SUFFICES ASSUME NEW j \in 1..Len(r)
               PROVE  \E i \in 1..Len(q) :
                        i # n /\ r[j] = q[i] /\ i = IF j < n THEN j ELSE j + 1
    OBVIOUS
  <2>1. CASE j < n
    <3>1. j \in 1..Len(q) /\ j # n
      BY <2>1, <1>5, <1>7
    <3>2. r[j] = q[j]
      BY <2>1, <1>5
    <3> QED
      BY <2>1, <3>1, <3>2
  <2>2. CASE ~(j < n)
    <3>1. j + 1 \in 1..Len(q) /\ j + 1 # n
      BY <2>2, <1>5, <1>7
    <3>2. r[j] = q[j + 1]
      BY <2>2, <1>5
    <3> QED
      BY <2>2, <3>1, <3>2
  <2> QED
    BY <2>1, <2>2
<1>9. \A i \in 1..Len(q) : i # n => \E j \in 1..Len(r) : r[j] = q[i]
  <2> SUFFICES ASSUME NEW i \in 1..Len(q), i # n
               PROVE  \E j \in 1..Len(r) : r[j] = q[i]
    OBVIOUS
  <2>1. CASE i < n
    BY <2>1, <1>3, <1>5, <1>7
  <2>2. CASE i > n
    <3>1. i - 1 \in 1..Len(r) /\ ~(i - 1 < n) /\ (i - 1) + 1 = i
      BY <2>2, <1>3, <1>5, <1>7
    <3> QED
      BY <3>1, <1>5
  <2> QED
    BY <2>1, <2>2, <1>3, <1>7
<1>10. \A k \in LockIds : \A i \in 1..Len(waiters'[k]) :
         /\ waiters'[k][i] \in Tasks \ {t}
         /\ pc[waiters'[k][i]] = "waiting" /\ mine[waiters'[k][i]] = k
  <2> SUFFICES ASSUME NEW k \in LockIds, NEW j \in 1..Len(waiters'[k])
               PROVE  /\ waiters'[k][j] \in Tasks \ {t}
                      /\ pc[waiters'[k][j]] = "waiting" /\ mine[waiters'[k][j]] = k
    OBVIOUS
  <2>1. CASE k = l
    <3>1. PICK i \in 1..Len(q) : i # n /\ r[j] = q[i]
      BY <2>1, <1>6, <1>8
    <3>2. q[i] \in Tasks /\ q[i] # t
      BY <3>1, <1>2, <1>3, <1>4
    <3> QED
      BY <2>1, <3>1, <3>2, <1>0, <1>2, <1>6 DEF QueueInv
  <2>2. CASE k # l
    <3>1. waiters'[k] = waiters[k] /\ waiters[k] \in Seq(Tasks)
      BY <2>2, <1>0, <1>6 DEF TypeOK
    <3> QED
      BY <2>2, <3>1, <1>0, <1>1 DEF QueueInv
  <2> QED
    BY <2>1, <2>2
<1>11. \A k \in LockIds : \A i, j \in 1..Len(waiters'[k]) :
         waiters'[k][i] = waiters'[k][j] => i = j
  <2>1. ASSUME NEW i \in 1..Len(r), NEW j \in 1..Len(r), r[i] = r[j] PROVE i = j
    <3>1. PICK ii \in 1..Len(q) : r[i] = q[ii] /\ ii = IF i < n THEN i ELSE i + 1
      BY <1>8
    <3>2. PICK jj \in 1..Len(q) : r[j] = q[jj] /\ jj = IF j < n THEN j ELSE j + 1
      BY <1>8
    <3>3. ii = jj
      BY <2>1, <3>1, <3>2, <1>4
    <3> QED
      BY <3>1, <3>2, <3>3, <1>3, <1>7
  <2>2. ASSUME NEW k \in LockIds \ {l}
        PROVE  \A i, j \in 1..Len(waiters'[k]) : waiters'[k][i] = waiters'[k][j] => i = j
    <3>1. waiters'[k] = waiters[k]
      BY <1>6
    <3> QED
      BY <3>1, <1>0 DEF QueueInv
  <2>3. \A i, j \in 1..Len(waiters'[l]) : waiters'[l][i] = waiters'[l][j] => i = j
    BY <2>1, <1>6
  <2> QED
    BY <2>2, <2>3
<1>12. ASSUME NEW u \in Tasks \ {t}, pc[u] = "waiting"
       PROVE  \E i \in 1..Len(waiters'[mine[u]]) : waiters'[mine[u]][i] = u
  <2>1. PICK i \in 1..Len(waiters[mine[u]]) : waiters[mine[u]][i] = u
    BY <1>0, <1>12 DEF QueueInv
  <2>2. mine[u] \in LockIds
    BY <1>0, <1>12 DEF MineInv
  <2>3. CASE mine[u] = l
    BY <2>1, <2>3, <1>2, <1>3, <1>6, <1>9
  <2>4. CASE mine[u] # l
    BY <2>1, <2>2, <2>4, <1>6
  <2> QED
    BY <2>3, <2>4
<1>13. ASSUME q[1] # t PROVE r # <<>> /\ r[1] = q[1]
  <2>1. n > 1
    BY <1>3, <1>13
  <2>2. 1 \in 1..Len(r)
    BY <2>1, <1>3, <1>5, <1>7
  <2> QED
    BY <2>1, <2>2, <1>5
<1> QED
  BY <1>1, <1>2, <1>6, <1>10, <1>11, <1>12, <1>13

LEMMA WakeStep ==
  ASSUME IInv, NEW t \in Tasks, Wake(t)
  PROVE  IInv'
<1>0. TypeOK /\ MineInv /\ TableInv /\ HolderInv /\ QueueInv /\ WokenInv /\ WakeNotLost
  BY DEF IInv
<1>1. PICK l \in LockIds : l = mine[t]
  BY <1>0 DEF MineInv, Wake
<1>2. /\ pc[t] = "waiting" /\ l \notin locked
      /\ waiters[l] # <<>> /\ waiters[l][1] = t
  BY <1>0, <1>1 DEF WokenInv, Wake
<1>3. /\ pc' = [pc EXCEPT ![t] = "holding"]
      /\ locked' = locked \cup {l} /\ woken' = woken \ {t}
      /\ waiters' = [waiters EXCEPT ![mine[t]] = Without(@, t)]
      /\ session' = session /\ mine' = mine /\ table' = table /\ count' = count
  BY <1>1 DEF Wake
<1>4. /\ waiters' \in [LockIds -> Seq(Tasks)]
      /\ \A k \in LockIds : \A i \in 1..Len(waiters'[k]) :
           /\ waiters'[k][i] \in Tasks \ {t}
           /\ pc[waiters'[k][i]] = "waiting" /\ mine[waiters'[k][i]] = k
      /\ \A k \in LockIds : \A i, j \in 1..Len(waiters'[k]) :
           waiters'[k][i] = waiters'[k][j] => i = j
      /\ \A u \in Tasks \ {t} : pc[u] = "waiting" =>
           \E i \in 1..Len(waiters'[mine[u]]) : waiters'[mine[u]][i] = u
      /\ \A k \in LockIds \ {l} : waiters'[k] = waiters[k]
  BY <1>1, <1>2, <1>3, LeaveQueue
<1>5. pc'[t] = "holding" /\ \A u \in Tasks \ {t} : pc'[u] = pc[u]
  BY <1>0, <1>3 DEF TypeOK
<1>6. TypeOK'
  BY <1>0, <1>3, <1>4 DEF TypeOK
<1>7. MineInv'
  BY <1>0, <1>2, <1>3, <1>5 DEF MineInv
<1>8. TableInv'
  <2>1. \A s \in Sessions : Users(s)' = Users(s)
    BY <1>3 DEF Users
  <2> QED
    BY <2>1, <1>0, <1>3 DEF TableInv
<1>9. HolderInv'
  <2>1. \A u \in Tasks \ {t} : pc'[u] = "holding" => mine[u] \in locked /\ mine[u] # l
    BY <1>0, <1>2, <1>5 DEF HolderInv
  <2>2. \A k \in locked : \E u \in Tasks \ {t} : pc[u] = "holding" /\ mine[u] = k
    BY <1>0, <1>2 DEF HolderInv
  <2>3. \A k \in locked' : \E u \in Tasks : pc'[u] = "holding" /\ mine'[u] = k
    BY <2>2, <1>1, <1>3, <1>5
  <2>4. \A u, v \in Tasks :
          pc'[u] = "holding" /\ pc'[v] = "holding" /\ mine'[u] = mine'[v] => u = v
    BY <2>1, <1>0, <1>1, <1>3, <1>5 DEF HolderInv
  <2>5. \A u \in Tasks : pc'[u] = "holding" => mine'[u] \in locked'
    BY <2>1, <1>1, <1>3
  <2> QED
    BY <2>3, <2>4, <2>5 DEF HolderInv
<1>10. QueueInv'
  <2>1. \A k \in LockIds : \A i \in 1..Len(waiters'[k]) :
          pc'[waiters'[k][i]] = "waiting" /\ mine'[waiters'[k][i]] = k
    BY <1>3, <1>4, <1>5
  <2>2. \A u \in Tasks : pc'[u] = "waiting" =>
          \E i \in 1..Len(waiters'[mine'[u]]) : waiters'[mine'[u]][i] = u
    BY <1>3, <1>4, <1>5
  <2> QED
    BY <2>1, <2>2, <1>4 DEF QueueInv
<1>11. ASSUME NEW u \in woken'
       PROVE  /\ u \in Tasks /\ pc'[u] = "waiting" /\ mine'[u] \notin locked'
              /\ waiters'[mine'[u]] # <<>> /\ waiters'[mine'[u]][1] = u
  <2>1. /\ u \in Tasks \ {t} /\ pc[u] = "waiting" /\ mine[u] \notin locked
        /\ waiters[mine[u]] # <<>> /\ waiters[mine[u]][1] = u
    BY <1>0, <1>3 DEF WokenInv, TypeOK
  <2>2. mine[u] # l /\ mine[u] \in LockIds
    BY <2>1, <1>0, <1>2 DEF MineInv
  <2> QED
    BY <2>1, <2>2, <1>3, <1>4, <1>5
<1>12. WokenInv'
  BY <1>11 DEF WokenInv
<1>13. WakeNotLost'
  <2> SUFFICES ASSUME NEW k \in LockIds, k \notin locked', waiters'[k] # <<>>
               PROVE  Head(waiters'[k]) \in woken'
    BY DEF WakeNotLost
  <2>1. k # l /\ waiters'[k] = waiters[k] /\ k \notin locked
    BY <1>3, <1>4
  <2>2. Head(waiters[k]) \in woken
    BY <2>1, <1>0 DEF WakeNotLost
  <2>3. Head(waiters[k]) # t
    <3>1. waiters[k] \in Seq(Tasks) /\ waiters[k] # <<>>
      BY <2>1, <1>0 DEF TypeOK
    <3>2. Head(waiters[k]) = waiters[k][1] /\ 1 \in 1..Len(waiters[k])
      BY <3>1
    <3>3. mine[waiters[k][1]] = k
      BY <3>2, <1>0 DEF QueueInv
    <3> QED
      BY <3>2, <3>3, <2>1, <1>1
  <2> QED
    BY <2>1, <2>2, <2>3, <1>3
<1> QED
  BY <1>6, <1>7, <1>8, <1>9, <1>10, <1>12, <1>13 DEF IInv

-----------------------------------------------------------------------------
(* Forget keeps the table and what the tasks know of it in step.           *)
LEMMA ForgetStep ==
  ASSUME TypeOK, MineInv, TableInv, NEW t \in Tasks, pc[t] # "idle", Forget(t)
  PROVE  /\ pc' \in [Tasks -> {"idle", "waiting", "holding"}]
         /\ session' \in [Tasks -> Sessions \cup {NoSession}]
         /\ mine' \in [Tasks -> LockIds \cup {NoLock}]
         /\ table' \in [Sessions -> LockIds \cup {NoLock}]
         /\ count' \in [Sessions -> Nat]
         /\ MineInv' /\ TableInv'
         /\ pc'[t] = "idle"
         /\ \A u \in Tasks \ {t} : pc'[u] = pc[u] /\ mine'[u] = mine[u]
<1>0. PICK s \in Sessions : s = session[t]
  BY DEF MineInv
<1>1. /\ \A r \in Sessions : count'[r] = Cardinality(Users(r)')
      /\ count[s] = 1 <=> Users(s)' = {}
      /\ \A r \in Sessions \ {s} : Users(r)' = Users(r)
  BY <1>0, UsersForget
<1>2. /\ pc' \in [Tasks -> {"idle", "waiting", "holding"}]
      /\ session' \in [Tasks -> Sessions \cup {NoSession}]
      /\ mine' \in [Tasks -> LockIds \cup {NoLock}]
      /\ table' \in [Sessions -> LockIds \cup {NoLock}]
  BY DEF TypeOK, Forget
<1>3. count' \in [Sessions -> Nat]
  <2>1. count' = [count EXCEPT ![s] = @ - 1] /\ DOMAIN count' = Sessions
    BY <1>0 DEF TypeOK, Forget
  <2>2. \A r \in Sessions : count'[r] \in Nat
    <3>1. \A r \in Sessions : Cardinality(Users(r)') \in Nat
      <4> SUFFICES ASSUME NEW r \in Sessions PROVE Cardinality(Users(r)') \in Nat
        OBVIOUS
      <4>1. Users(r)' \subseteq Tasks
        BY DEF Users
      <4> QED
        BY <4>1, FS_Subset, FS_CardinalityType, LockAssumption
    <3> QED
      BY <3>1, <1>1
  <2> QED
    BY <2>1, <2>2 DEF TypeOK
<1>4. /\ pc'[t] = "idle" /\ session'[t] = NoSession /\ mine'[t] = NoLock
      /\ \A u \in Tasks \ {t} :
           pc'[u] = pc[u] /\ mine'[u] = mine[u] /\ session'[u] = session[u]
  BY DEF TypeOK, Forget
<1>5. /\ table'[s] = IF count[s] = 1 THEN NoLock ELSE table[s]
      /\ \A r \in Sessions \ {s} : table'[r] = table[r]
  BY <1>0 DEF TypeOK, Forget
<1>6. MineInv'
  <2> SUFFICES ASSUME NEW u \in Tasks
               PROVE  IF pc'[u] = "idle"
                      THEN session'[u] = NoSession /\ mine'[u] = NoLock
                      ELSE /\ session'[u] \in Sessions
                           /\ mine'[u] = table'[session'[u]]
                           /\ mine'[u] \in LockIds
    BY DEF MineInv
  <2>1. CASE u = t
    BY <2>1, <1>4
  <2>2. CASE u # t /\ pc[u] = "idle"
    BY <2>2, <1>4 DEF MineInv
  <2>3. CASE u # t /\ pc[u] # "idle"
    <3>1. session[u] \in Sessions /\ mine[u] = table[session[u]] /\ mine[u] \in LockIds
      BY <2>3 DEF MineInv
    <3>2. session[u] = s => count[s] # 1
      BY <2>3, <1>1, <1>4 DEF Users
    <3>3. table'[session[u]] = table[session[u]]
      BY <3>1, <3>2, <1>5
    <3> QED
      BY <2>3, <3>1, <3>3, <1>4
  <2> QED
    BY <2>1, <2>2, <2>3
<1>7. TableInv'
  <2>1. table[s] # NoLock
    BY <1>0, LockAssumption DEF MineInv
  <2>2. \A r \in Sessions : table'[r] = NoLock <=> Users(r)' = {}
    BY <2>1, <1>1, <1>5 DEF TableInv
  <2>3. \A r, q \in Sessions : table'[r] # NoLock /\ table'[r] = table'[q] => r = q
    BY <1>5 DEF TableInv
  <2> QED
    BY <2>2, <2>3, <1>1 DEF TableInv
<1> QED
  BY <1>2, <1>3, <1>4, <1>6, <1>7

LEMMA ExitStep ==
  ASSUME IInv, NEW t \in Tasks, Exit(t)
  PROVE  IInv'
<1>0. TypeOK /\ MineInv /\ TableInv /\ HolderInv /\ QueueInv /\ WokenInv /\ WakeNotLost
  BY DEF IInv
<1>1. PICK l \in LockIds : l = mine[t]
  BY <1>0 DEF MineInv, Exit
<1>2. /\ pc[t] = "holding" /\ l \in locked
      /\ locked' = locked \ {l} /\ waiters' = waiters
      /\ woken' = woken \cup WakeFirst(waiters[l])
      /\ Forget(t)
  BY <1>0, <1>1 DEF HolderInv, Exit
<1>3. /\ pc' \in [Tasks -> {"idle", "waiting", "holding"}]
      /\ session' \in [Tasks -> Sessions \cup {NoSession}]
      /\ mine' \in [Tasks -> LockIds \cup {NoLock}]
      /\ table' \in [Sessions -> LockIds \cup {NoLock}]
      /\ count' \in [Sessions -> Nat]
      /\ MineInv' /\ TableInv'
      /\ pc'[t] = "idle"
      /\ \A u \in Tasks \ {t} : pc'[u] = pc[u] /\ mine'[u] = mine[u]
  BY <1>0, <1>2, ForgetStep
<1>4. waiters[l] \in Seq(Tasks)
  BY <1>0 DEF TypeOK
<1>5. waiters[l] # <<>> =>
        /\ Head(waiters[l]) = waiters[l][1]
        /\ waiters[l][1] \in Tasks
        /\ pc[waiters[l][1]] = "waiting" /\ mine[waiters[l][1]] = l
  BY <1>0, <1>4 DEF QueueInv
<1>6. TypeOK'
  <2>1. woken' \subseteq Tasks
    BY <1>0, <1>2, <1>5 DEF TypeOK, WakeFirst
  <2> QED
    BY <2>1, <1>0, <1>2, <1>3 DEF TypeOK
<1>7. HolderInv'
  <2>1. \A u \in Tasks \ {t} : pc[u] = "holding" => mine[u] \in locked \ {l}
    BY <1>0, <1>1, <1>2 DEF HolderInv
  <2>2. \A k \in locked \ {l} : \E u \in Tasks \ {t} : pc[u] = "holding" /\ mine[u] = k
    BY <1>0, <1>1 DEF HolderInv
  <2>3. \A u \in Tasks : pc'[u] = "holding" => u # t /\ pc[u] = "holding" /\ mine'[u] = mine[u]
    BY <1>3
  <2>4. \A k \in locked' : \E u \in Tasks : pc'[u] = "holding" /\ mine'[u] = k
    BY <2>2, <1>2, <1>3
  <2> QED
    BY <2>1, <2>3, <2>4, <1>0, <1>2 DEF HolderInv
<1>8. \A k \in LockIds : \A i \in 1..Len(waiters[k]) : waiters[k][i] \in Tasks \ {t}
  BY <1>0, <1>2 DEF QueueInv, TypeOK
<1>9. QueueInv'
  <2>1. \A k \in LockIds : \A i \in 1..Len(waiters'[k]) :
          pc'[waiters'[k][i]] = "waiting" /\ mine'[waiters'[k][i]] = k
    BY <1>0, <1>2, <1>3, <1>8 DEF QueueInv
  <2>2. \A u \in Tasks : pc'[u] = "waiting" =>
          \E i \in 1..Len(waiters'[mine'[u]]) : waiters'[mine'[u]][i] = u
    BY <1>0, <1>2, <1>3 DEF QueueInv
  <2> QED
    BY <2>1, <2>2, <1>0, <1>2 DEF QueueInv
<1>10. ASSUME NEW u \in woken'
       PROVE  /\ pc'[u] = "waiting" /\ mine'[u] \notin locked'
              /\ waiters'[mine'[u]] # <<>> /\ waiters'[mine'[u]][1] = u
  <2>1. CASE u \in woken
    <3>1. /\ u \in Tasks \ {t} /\ pc[u] = "waiting" /\ mine[u] \notin locked
          /\ waiters[mine[u]] # <<>> /\ waiters[mine[u]][1] = u
      BY <2>1, <1>0, <1>2 DEF WokenInv, TypeOK
    <3> QED
      BY <3>1, <1>2, <1>3
  <2>2. CASE u \notin woken
    <3>1. waiters[l] # <<>> /\ u = Head(waiters[l])
      BY <2>2, <1>2 DEF WakeFirst
    <3>2. u \in Tasks \ {t} /\ pc[u] = "waiting" /\ mine[u] = l /\ waiters[l][1] = u
      BY <3>1, <1>2, <1>5
    <3> QED
      BY <3>1, <3>2, <1>2, <1>3
  <2> QED
    BY <2>1, <2>2
<1>11. WokenInv'
  BY <1>10 DEF WokenInv
<1>12. WakeNotLost'
  BY <1>0, <1>2 DEF WakeNotLost, WakeFirst
<1> QED
  BY <1>3, <1>6, <1>7, <1>9, <1>11, <1>12 DEF IInv

LEMMA CancelStep ==
  ASSUME IInv, NEW t \in Tasks, Cancel(t)
  PROVE  IInv'
<1>0. TypeOK /\ MineInv /\ TableInv /\ HolderInv /\ QueueInv /\ WokenInv /\ WakeNotLost
  BY DEF IInv
<1>1. PICK l \in LockIds : l = mine[t]
  BY <1>0 DEF MineInv, Cancel
<1>2. /\ pc[t] = "waiting" /\ locked' = locked
      /\ waiters' = [waiters EXCEPT ![mine[t]] = Without(@, t)]
      /\ woken' = (woken \ {t}) \cup
                  IF l \in locked THEN {} ELSE WakeFirst(waiters'[l])
      /\ Forget(t)
  BY <1>1 DEF Cancel
<1>3. /\ pc' \in [Tasks -> {"idle", "waiting", "holding"}]
      /\ session' \in [Tasks -> Sessions \cup {NoSession}]
      /\ mine' \in [Tasks -> LockIds \cup {NoLock}]
      /\ table' \in [Sessions -> LockIds \cup {NoLock}]
      /\ count' \in [Sessions -> Nat]
      /\ MineInv' /\ TableInv'
      /\ pc'[t] = "idle"
      /\ \A u \in Tasks \ {t} : pc'[u] = pc[u] /\ mine'[u] = mine[u]
  BY <1>0, <1>2, ForgetStep
<1>4. /\ waiters' \in [LockIds -> Seq(Tasks)]
      /\ \A k \in LockIds : \A i \in 1..Len(waiters'[k]) :
           /\ waiters'[k][i] \in Tasks \ {t}
           /\ pc[waiters'[k][i]] = "waiting" /\ mine[waiters'[k][i]] = k
      /\ \A k \in LockIds : \A i, j \in 1..Len(waiters'[k]) :
           waiters'[k][i] = waiters'[k][j] => i = j
      /\ \A u \in Tasks \ {t} : pc[u] = "waiting" =>
           \E i \in 1..Len(waiters'[mine[u]]) : waiters'[mine[u]][i] = u
      /\ \A k \in LockIds \ {l} : waiters'[k] = waiters[k]
      /\ waiters[l][1] # t =>
           waiters'[l] # <<>> /\ waiters'[l][1] = waiters[l][1]
  BY <1>1, <1>2, LeaveQueue
<1>5. waiters'[l] # <<>> =>
        /\ Head(waiters'[l]) = waiters'[l][1]
        /\ waiters'[l][1] \in Tasks \ {t}
        /\ pc[waiters'[l][1]] = "waiting" /\ mine[waiters'[l][1]] = l
  <2>1. waiters'[l] \in Seq(Tasks)
    BY <1>4
  <2>2. waiters'[l] # <<>> => 1 \in 1..Len(waiters'[l]) /\ Head(waiters'[l]) = waiters'[l][1]
    BY <2>1
  <2> QED
    BY <2>2, <1>4
<1>6. TypeOK'
  <2>1. woken' \subseteq Tasks
    BY <1>0, <1>2, <1>5 DEF TypeOK, WakeFirst
  <2> QED
    BY <2>1, <1>0, <1>2, <1>3, <1>4 DEF TypeOK
<1>7. HolderInv'
  <2>1. \A u \in Tasks : pc'[u] = "holding" => u # t /\ pc[u] = "holding" /\ mine'[u] = mine[u]
    BY <1>3
  <2>2. \A k \in locked : \E u \in Tasks \ {t} : pc[u] = "holding" /\ mine[u] = k
    BY <1>0, <1>2 DEF HolderInv
  <2>3. \A k \in locked' : \E u \in Tasks : pc'[u] = "holding" /\ mine'[u] = k
    BY <2>2, <1>2, <1>3
  <2> QED
    BY <2>1, <2>3, <1>0, <1>2 DEF HolderInv
<1>8. QueueInv'
  <2>1. \A k \in LockIds : \A i \in 1..Len(waiters'[k]) :
          pc'[waiters'[k][i]] = "waiting" /\ mine'[waiters'[k][i]] = k
    BY <1>3, <1>4
  <2>2. \A u \in Tasks : pc'[u] = "waiting" =>
          \E i \in 1..Len(waiters'[mine'[u]]) : waiters'[mine'[u]][i] = u
    <3> SUFFICES ASSUME NEW u \in Tasks, pc'[u] = "waiting"
                 PROVE  \E i \in 1..Len(waiters'[mine'[u]]) : waiters'[mine'[u]][i] = u
      OBVIOUS
    <3>1. u \in Tasks \ {t} /\ pc[u] = "waiting" /\ mine'[u] = mine[u]
      BY <1>3
    <3> QED
      BY <3>1, <1>4
  <2> QED
    BY <2>1, <2>2, <1>4 DEF QueueInv
<1>9. ASSUME NEW u \in woken'
      PROVE  /\ pc'[u] = "waiting" /\ mine'[u] \notin locked'
             /\ waiters'[mine'[u]] # <<>> /\ waiters'[mine'[u]][1] = u
  <2>1. CASE u \in woken \ {t}
    <3>1. /\ u \in Tasks \ {t} /\ pc[u] = "waiting" /\ mine[u] \notin locked
          /\ waiters[mine[u]] # <<>> /\ waiters[mine[u]][1] = u
      BY <2>1, <1>0 DEF WokenInv, TypeOK
    <3>2. mine[u] \in LockIds /\ pc'[u] = "waiting" /\ mine'[u] = mine[u]
      BY <3>1, <1>0, <1>3 DEF MineInv
    <3>3. CASE mine[u] = l
      BY <3>1, <3>2, <3>3, <1>2, <1>4
    <3>4. CASE mine[u] # l
      BY <3>1, <3>2, <3>4, <1>2, <1>4
    <3> QED
      BY <3>3, <3>4
  <2>2. CASE u \notin woken \ {t}
    <3>1. l \notin locked /\ waiters'[l] # <<>> /\ u = Head(waiters'[l])
      BY <2>2, <1>2 DEF WakeFirst
    <3>2. u \in Tasks \ {t} /\ pc[u] = "waiting" /\ mine[u] = l /\ waiters'[l][1] = u
      BY <3>1, <1>5
    <3> QED
      BY <3>1, <3>2, <1>2, <1>3
  <2> QED
    BY <2>1, <2>2
<1>10. WokenInv'
  BY <1>9 DEF WokenInv
<1>11. WakeNotLost'
  <2> SUFFICES ASSUME NEW k \in LockIds, k \notin locked', waiters'[k] # <<>>
               PROVE  Head(waiters'[k]) \in woken'
    BY DEF WakeNotLost
  <2>1. CASE k = l
    BY <2>1, <1>2 DEF WakeFirst
  <2>2. CASE k # l
    <3>1. waiters'[k] = waiters[k] /\ Head(waiters[k]) \in woken
      BY <2>2, <1>0, <1>2, <1>4 DEF WakeNotLost
    <3>2. waiters[k] \in Seq(Tasks)
      BY <1>0 DEF TypeOK
    <3>3. Head(waiters[k]) = waiters[k][1] /\ 1 \in 1..Len(waiters'[k])
      BY <3>1, <3>2
    <3>4. Head(waiters[k]) # t
      BY <3>1, <3>3, <1>4
    <3> QED
      BY <3>1, <3>4, <1>2
  <2> QED
    BY <2>1, <2>2
<1> QED
  BY <1>3, <1>6, <1>7, <1>8, <1>10, <1>11 DEF IInv

-----------------------------------------------------------------------------
LEMMA InvStep == IInv /\ [Next]_vars => IInv'
<1> SUFFICES ASSUME IInv, [Next]_vars PROVE IInv'
  OBVIOUS
<1>1. ASSUME NEW t \in Tasks, NEW s \in Sessions, Enter(t, s) PROVE IInv'
  BY <1>1, EnterStep
<1>2. ASSUME NEW t \in Tasks, Wake(t) PROVE IInv'
  BY <1>2, WakeStep
<1>3. ASSUME NEW t \in Tasks, Exit(t) PROVE IInv'
  BY <1>3, ExitStep
<1>4. ASSUME NEW t \in Tasks, Cancel(t) PROVE IInv'
  BY <1>4, CancelStep
<1>5. CASE UNCHANGED vars
  <2> USE <1>5 DEF vars
  <2>1. TypeOK' /\ MineInv' /\ HolderInv' /\ WokenInv' /\ WakeNotLost'
    BY DEF IInv, TypeOK, MineInv, HolderInv, WokenInv, WakeNotLost
  <2>2. \A s \in Sessions : Users(s)' = Users(s)
    BY DEF Users
  <2>3. TableInv'
    BY <2>2 DEF IInv, TableInv
  <2>4. QueueInv'
    BY DEF IInv, QueueInv
  <2> QED
    BY <2>1, <2>3, <2>4 DEF IInv
<1> QED
  BY <1>1, <1>2, <1>3, <1>4, <1>5 DEF Next

LEMMA Inductive == Spec => []IInv
<1>1. Init => IInv
  BY InitInv
<1>2. IInv /\ [Next]_vars => IInv'
  BY InvStep
<1> QED
  BY <1>1, <1>2, PTL DEF Spec

(* The variables of the lock manager keep their types.                     *)
THEOREM TypeCorrect == Spec => []TypeOK
<1>1. IInv => TypeOK
  BY DEF IInv
<1> QED
  BY <1>1, Inductive, PTL

(* However many tasks enter, leave and are cancelled, and however often    *)
(* lock objects are dropped and made again: one task at a time runs under  *)
(* the lock of a session.                                                  *)
THEOREM ExclusionTheorem == Spec => []MutualExclusion
<1>1. IInv => MutualExclusion
  BY DEF IInv, MineInv, HolderInv, MutualExclusion
<1> QED
  BY <1>1, Inductive, PTL

(* The entry of a session lives exactly while it has users.                *)
THEOREM EntryTheorem == Spec => []EntryMatchesUsers
<1>1. IInv => EntryMatchesUsers
  <2> SUFFICES ASSUME IInv, NEW s \in Sessions
               PROVE  /\ count[s] = Cardinality({t \in Tasks : session[t] = s})
                      /\ table[s] = NoLock <=> count[s] = 0
                      /\ \A t \in Tasks : session[t] = s => mine[t] = table[s]
    BY DEF EntryMatchesUsers
  <2>1. count[s] = Cardinality(Users(s)) /\ (table[s] = NoLock <=> Users(s) = {})
    BY DEF IInv, TableInv
  <2>2. Cardinality(Users(s)) = 0 <=> Users(s) = {}
    BY UsersFinite
  <2>3. \A t \in Tasks : session[t] = s => mine[t] = table[s]
    BY LockAssumption DEF IInv, MineInv
  <2> QED
    BY <2>1, <2>2, <2>3 DEF Users
<1> QED
  BY <1>1, Inductive, PTL

(* A free lock with a queue has always woken the first task in it.         *)
THEOREM WakeTheorem == Spec => []WakeNotLost
<1>1. IInv => WakeNotLost
  BY DEF IInv
<1> QED
  BY <1>1, Inductive, PTL

-----------------------------------------------------------------------------
(* The refinement: sequences.                                              *)

LEMMA EmptyToSeq == SetToSeq({}) = <<>>
<1>1. Cardinality({}) = 0
  BY FS_EmptySet
<1>2. [i \in 1..0 |-> i] \in [1..0 -> {}] /\ IsInjective([i \in 1..0 |-> i])
  BY DEF IsInjective
<1>3. SetToSeq({}) \in [1..0 -> {}]
  BY <1>1, <1>2 DEF SetToSeq
<1> QED
  BY <1>3

LEMMA OneToSeq ==
  ASSUME NEW t
  PROVE  SetToSeq({t}) = <<t>>
<1>1. Cardinality({t}) = 1
  BY FS_Singleton
<1>2. [i \in 1..1 |-> t] \in [1..1 -> {t}] /\ IsInjective([i \in 1..1 |-> t])
  BY DEF IsInjective
<1>3. SetToSeq({t}) \in [1..1 -> {t}]
  BY <1>1, <1>2 DEF SetToSeq
<1> QED
  BY <1>3

LEMMA EmptyPrefix ==
  ASSUME NEW S, NEW w \in Seq(S)
  PROVE  SetToSeq({}) \o w = w
BY EmptyToSeq

LEMMA RemoveAtProperties ==
  ASSUME NEW S, NEW w \in Seq(S), NEW n \in 1..Len(w)
  PROVE  /\ RemoveAt(w, n) \in Seq(S)
         /\ Len(RemoveAt(w, n)) = Len(w) - 1
         /\ \A j \in 1..(Len(w) - 1) :
              RemoveAt(w, n)[j] = w[IF j < n THEN j ELSE j + 1]
<1>1. n \in Int /\ 1 <= n /\ n <= Len(w) /\ Len(w) \in Nat
  OBVIOUS
<1>2. SubSeq(w, 1, n - 1) \in Seq(S) /\ Len(SubSeq(w, 1, n - 1)) = n - 1
  BY <1>1
<1>3. /\ SubSeq(w, n + 1, Len(w)) \in Seq(S)
      /\ Len(SubSeq(w, n + 1, Len(w))) = Len(w) - n
  BY <1>1
<1>4. \A j \in 1..(n - 1) : SubSeq(w, 1, n - 1)[j] = w[j]
  BY <1>1
<1>5. \A j \in 1..(Len(w) - n) : SubSeq(w, n + 1, Len(w))[j] = w[n + j]
  BY <1>1
<1> DEFINE a == SubSeq(w, 1, n - 1)
           b == SubSeq(w, n + 1, Len(w))
<1>6. /\ a \o b \in Seq(S) /\ Len(a \o b) = Len(w) - 1
      /\ \A j \in 1..(n - 1) : (a \o b)[j] = a[j]
      /\ \A j \in n..(Len(w) - 1) : (a \o b)[j] = b[j - (n - 1)]
  <2> HIDE DEF a, b
  <2>1. a \in Seq(S) /\ Len(a) = n - 1 /\ b \in Seq(S) /\ Len(b) = Len(w) - n
    BY <1>2, <1>3 DEF a, b
  <2>2. a \o b \in Seq(S) /\ Len(a \o b) = Len(w) - 1
    BY <1>1, <2>1
  <2> QED
    BY <1>1, <2>1, <2>2
<1>7. \A j \in 1..(Len(w) - 1) : (a \o b)[j] = w[IF j < n THEN j ELSE j + 1]
  <2> SUFFICES ASSUME NEW j \in 1..(Len(w) - 1)
               PROVE  (a \o b)[j] = w[IF j < n THEN j ELSE j + 1]
    OBVIOUS
  <2>1. CASE j < n
    <3>1. j \in 1..(n - 1)
      BY <1>1, <2>1
    <3> QED
      BY <2>1, <3>1, <1>4, <1>6
  <2>2. CASE ~(j < n)
    <3>1. /\ j \in n..(Len(w) - 1) /\ j - (n - 1) \in 1..(Len(w) - n)
          /\ (n + (j - (n - 1))) = j + 1
      BY <1>1, <2>2
    <3> HIDE DEF a, b
    <3>2. b[j - (n - 1)] = w[n + (j - (n - 1))]
      BY <3>1, <1>5 DEF b
    <3> QED
      BY <2>2, <3>1, <3>2, <1>6
  <2> QED
    BY <2>1, <2>2
<1> QED
  BY <1>6, <1>7 DEF RemoveAt

LEMMA WithoutIsRemoveAt ==
  ASSUME NEW S, NEW w \in Seq(S), NEW n \in 1..Len(w),
         \A i, j \in 1..Len(w) : w[i] = w[j] => i = j
  PROVE  Without(w, w[n]) = RemoveAt(w, n)
<1>1. Without(w, w[n]) \in Seq(S) /\ Len(Without(w, w[n])) = Len(w) - 1
  BY WithoutProperties
<1>2. \A j \in 1..Len(Without(w, w[n])) :
        Without(w, w[n])[j] = w[IF j < n THEN j ELSE j + 1]
  BY WithoutProperties
<1>3. RemoveAt(w, n) \in Seq(S) /\ Len(RemoveAt(w, n)) = Len(w) - 1
  BY RemoveAtProperties
<1>4. \A j \in 1..(Len(w) - 1) :
        RemoveAt(w, n)[j] = w[IF j < n THEN j ELSE j + 1]
  BY RemoveAtProperties
<1>5. \A j \in 1..(Len(w) - 1) : Without(w, w[n])[j] = RemoveAt(w, n)[j]
  BY <1>1, <1>2, <1>4
<1> QED
  BY <1>1, <1>3, <1>5, SeqEqual

LEMMA RemoveHead ==
  ASSUME NEW S, NEW w \in Seq(S), w # <<>>
  PROVE  RemoveAt(w, 1) = Tail(w) /\ <<Head(w)>> \o Tail(w) = w
BY DEF RemoveAt

LEMMA RemoveBehind ==
  ASSUME NEW S, NEW w \in Seq(S), NEW n \in 1..Len(w), NEW u \in S
  PROVE  /\ n + 1 \in DOMAIN (<<u>> \o w)
         /\ (<<u>> \o w)[n + 1] = w[n]
         /\ RemoveAt(<<u>> \o w, n + 1) = <<u>> \o RemoveAt(w, n)
<1> DEFINE v == <<u>> \o w
<1>1. v \in Seq(S) /\ Len(v) = Len(w) + 1 /\ v[1] = u
  OBVIOUS
<1>2. /\ \A j \in 1..Len(w) : v[j + 1] = w[j]
      /\ \A j \in 2..(Len(w) + 1) : v[j] = w[j - 1]
  OBVIOUS
<1>3. n + 1 \in 1..Len(v) /\ v[n + 1] = w[n]
  BY <1>1, <1>2
<1>4. /\ RemoveAt(v, n + 1) \in Seq(S) /\ Len(RemoveAt(v, n + 1)) = Len(w)
      /\ \A j \in 1..Len(w) :
           RemoveAt(v, n + 1)[j] = v[IF j < n + 1 THEN j ELSE j + 1]
  <2> HIDE DEF v
  <2>1. Len(v) - 1 = Len(w)
    BY <1>1
  <2> QED
    BY <1>1, <1>3, <2>1, RemoveAtProperties
<1>5. /\ RemoveAt(w, n) \in Seq(S) /\ Len(RemoveAt(w, n)) = Len(w) - 1
      /\ \A j \in 1..(Len(w) - 1) :
           RemoveAt(w, n)[j] = w[IF j < n THEN j ELSE j + 1]
  BY RemoveAtProperties
<1>6. /\ <<u>> \o RemoveAt(w, n) \in Seq(S)
      /\ Len(<<u>> \o RemoveAt(w, n)) = Len(w)
  BY <1>5
<1>7. \A j \in 1..Len(w) : (<<u>> \o RemoveAt(w, n))[j] = RemoveAt(v, n + 1)[j]
  <2> SUFFICES ASSUME NEW j \in 1..Len(w)
               PROVE  (<<u>> \o RemoveAt(w, n))[j] = RemoveAt(v, n + 1)[j]
    OBVIOUS
  <2>1. CASE j = 1
    BY <2>1, <1>1, <1>4, <1>5
  <2>2. CASE j # 1
    <3>1. j - 1 \in 1..(Len(w) - 1) /\ (<<u>> \o RemoveAt(w, n))[j] = RemoveAt(w, n)[j - 1]
      BY <2>2, <1>5
    <3>2. RemoveAt(w, n)[j - 1] = w[IF j - 1 < n THEN j - 1 ELSE (j - 1) + 1]
      BY <3>1, <1>5
    <3>3. CASE j < n + 1
      <4>1. RemoveAt(v, n + 1)[j] = v[j]
        BY <3>3, <1>4
      <4>2. v[j] = w[j - 1]
        BY <2>2, <1>2
      <4>3. RemoveAt(w, n)[j - 1] = w[j - 1]
        BY <3>3, <3>2
      <4> QED
        BY <3>1, <4>1, <4>2, <4>3
    <3>4. CASE ~(j < n + 1)
      <4>1. RemoveAt(v, n + 1)[j] = v[j + 1]
        BY <3>4, <1>4
      <4>2. v[j + 1] = w[j]
        BY <1>2
      <4>3. RemoveAt(w, n)[j - 1] = w[j]
        BY <3>4, <3>2
      <4> QED
        BY <3>1, <4>1, <4>2, <4>3
    <3> QED
      BY <3>3, <3>4
  <2> QED
    BY <2>1, <2>2
<1>8. RemoveAt(v, n + 1) = <<u>> \o RemoveAt(w, n)
  BY <1>4, <1>6, <1>7, SeqEqual
<1> QED
  BY <1>1, <1>3, <1>8

-----------------------------------------------------------------------------
(* The queue of the watched session.                                       *)

Object == table[Watched]
Queue == QueueOf(Watched)

(* Who uses the session has its lock object, and who has it uses the       *)
(* session.                                                                *)
UsersKnown ==
  \A t \in Tasks : session[t] = Watched <=> pc[t] # "idle" /\ mine[t] = Object

QueueShape ==
  /\ Object = NoLock => (\A t \in Tasks : session[t] # Watched) /\ Queue = <<>>
  /\ Object # NoLock =>
       /\ Object \in LockIds /\ waiters[Object] \in Seq(Tasks)
       /\ Object \notin locked => Queue = waiters[Object]
  /\ \A t \in Tasks : pc[t] = "holding" /\ session[t] = Watched =>
       Object # NoLock /\ Queue = <<t>> \o waiters[Object]
  /\ Object \in locked =>
       \E t \in Tasks : pc[t] = "holding" /\ session[t] = Watched

LEMMA UsersKnownHolds == IInv => UsersKnown
<1> SUFFICES ASSUME IInv, NEW t \in Tasks
             PROVE  session[t] = Watched <=> pc[t] # "idle" /\ mine[t] = Object
  BY DEF UsersKnown
<1>1. CASE pc[t] = "idle"
  BY <1>1, WatchedAssumption, LockAssumption DEF IInv, MineInv
<1>2. CASE pc[t] # "idle"
  <2>1. session[t] \in Sessions /\ mine[t] = table[session[t]] /\ mine[t] # NoLock
    BY <1>2, LockAssumption DEF IInv, MineInv
  <2> QED
    BY <1>2, <2>1, WatchedAssumption DEF IInv, TableInv, Object
<1> QED
  BY <1>1, <1>2

LEMMA QueueShapeHolds == IInv => QueueShape
<1> SUFFICES ASSUME IInv PROVE QueueShape
  OBVIOUS
<1>0. UsersKnown
  BY UsersKnownHolds
<1>1. ASSUME Object = NoLock
      PROVE  (\A t \in Tasks : session[t] # Watched) /\ Queue = <<>>
  <2>1. \A t \in Tasks : session[t] # Watched
    BY <1>1, WatchedAssumption DEF IInv, TableInv, Users, Object
  <2>2. Holders(Watched) = {}
    BY <2>1 DEF Holders
  <2>3. <<>> \in Seq(Tasks)
    OBVIOUS
  <2> QED
    BY <1>1, <2>1, <2>2, <2>3, EmptyPrefix DEF Queue, QueueOf, Object
<1>2. ASSUME Object # NoLock
      PROVE  Object \in LockIds /\ waiters[Object] \in Seq(Tasks)
  BY <1>2, WatchedAssumption DEF IInv, TypeOK, Object
<1>3. ASSUME Object # NoLock, Object \notin locked
      PROVE  Queue = waiters[Object]
  <2>1. Holders(Watched) = {}
    BY <1>0, <1>3 DEF Holders, UsersKnown, IInv, HolderInv
  <2> QED
    BY <1>2, <1>3, <2>1, EmptyPrefix DEF Queue, QueueOf, Object
<1>4. ASSUME NEW t \in Tasks, pc[t] = "holding", session[t] = Watched
      PROVE  Object # NoLock /\ Queue = <<t>> \o waiters[Object]
  <2>1. Object # NoLock
    BY <1>1, <1>4
  <2>2. Holders(Watched) = {t}
    BY <1>0, <1>4 DEF Holders, UsersKnown, IInv, HolderInv
  <2> QED
    BY <2>1, <2>2, OneToSeq DEF Queue, QueueOf, Object
<1>5. ASSUME Object \in locked
      PROVE  \E t \in Tasks : pc[t] = "holding" /\ session[t] = Watched
  <2>1. PICK t \in Tasks : pc[t] = "holding" /\ mine[t] = Object
    BY <1>5 DEF IInv, HolderInv
  <2> QED
    BY <1>0, <2>1 DEF UsersKnown
<1> QED
  BY <1>1, <1>2, <1>3, <1>4, <1>5 DEF QueueShape

(* A step of a task in another session leaves the queue as it is.          *)
LEMMA Elsewhere ==
  ASSUME IInv, Object' = Object,
         \A t \in Tasks :
           (pc[t] = "holding" /\ session[t] = Watched)' =
             (pc[t] = "holding" /\ session[t] = Watched),
         Object # NoLock => waiters'[Object] = waiters[Object]
  PROVE  Queue' = Queue
<1>1. Holders(Watched)' = Holders(Watched)
  BY DEF Holders
<1> QED
  BY <1>1 DEF Queue, QueueOf, Object

LEMMA EnterMaps ==
  ASSUME IInv, IInv', NEW t \in Tasks, NEW s \in Sessions, Enter(t, s)
  PROVE  Queue' = Queue \/ Mutex!Request(t)
<1>0. /\ QueueShape /\ QueueShape' /\ UsersKnown /\ UsersKnown'
  BY QueueShapeHolds, UsersKnownHolds, PTL
<1>1. PICK l \in LockIds :
        /\ IF table[s] = NoLock THEN FreshLock(l) ELSE l = table[s]
        /\ table' = [table EXCEPT ![s] = l]
        /\ mine' = [mine EXCEPT ![t] = l]
        /\ TakeOrWait(t, l)
  BY DEF Enter
<1>2. pc[t] = "idle" /\ session' = [session EXCEPT ![t] = s]
  BY DEF Enter
<1>3. session[t] = NoSession /\ NoSession # Watched
  BY <1>2, WatchedAssumption, LockAssumption DEF IInv, MineInv
<1>4. CASE s # Watched
  <2>1. Object' = Object /\ (Object # NoLock => Object # l)
    BY <1>1, <1>4, WatchedAssumption, LockAssumption
       DEF Object, FreshLock, IInv, TypeOK, TableInv
  <2>2. Object # NoLock => waiters'[Object] = waiters[Object]
    <3>1. \A k \in LockIds \ {l} : waiters'[k] = waiters[k]
      BY <1>1 DEF TakeOrWait, IInv, TypeOK
    <3> QED
      BY <1>0, <2>1, <3>1 DEF QueueShape
  <2>3. \A u \in Tasks :
          (pc[u] = "holding" /\ session[u] = Watched)' =
            (pc[u] = "holding" /\ session[u] = Watched)
    BY <1>1, <1>2, <1>3, <1>4 DEF TakeOrWait, IInv, TypeOK
  <2> QED
    BY <2>1, <2>2, <2>3, Elsewhere
<1>5. CASE s = Watched
  <2>1. Object' = l /\ session'[t] = Watched /\ Object' # NoLock
    BY <1>1, <1>2, <1>5, WatchedAssumption, LockAssumption DEF Object, IInv, TypeOK
  <2>2. CASE l \notin locked /\ waiters[l] = <<>>
    <3>1. pc'[t] = "holding" /\ waiters' = waiters
      BY <1>1, <2>2 DEF TakeOrWait, IInv, TypeOK
    <3>2. Queue' = <<t>> \o <<>>
      BY <1>0, <2>1, <2>2, <3>1 DEF QueueShape
    <3>3. Queue = <<>>
      BY <1>0, <1>1, <1>5, <2>2 DEF QueueShape, Object
    <3>4. t \notin ToSet(Queue) /\ Append(Queue, t) = <<t>>
      BY <3>3 DEF ToSet
    <3> QED
      BY <3>2, <3>4 DEF Mutex!Request, Mutex!ToSet, ToSet, Queue
  <2>3. CASE ~(l \notin locked /\ waiters[l] = <<>>)
    <3>1. /\ pc'[t] = "waiting" /\ locked' = locked
          /\ waiters' = [waiters EXCEPT ![l] = Append(@, t)]
      BY <1>1, <2>3 DEF TakeOrWait, IInv, TypeOK
    <3>2. Object = l
      BY <1>1, <1>5, <2>3, FreshIsFree DEF Object
    <3>3. l # NoLock /\ waiters[l] \in Seq(Tasks) /\ waiters'[l] = Append(waiters[l], t)
      BY <3>1, LockAssumption DEF IInv, TypeOK
    <3>4. \A i \in 1..Len(waiters[l]) : waiters[l][i] # t
      BY <1>2 DEF IInv, QueueInv
    <3>5. CASE l \notin locked
      <4>1. Queue = waiters[l] /\ Queue' = Append(waiters[l], t)
        BY <1>0, <2>1, <3>1, <3>2, <3>3, <3>5 DEF QueueShape
      <4>2. t \notin ToSet(Queue)
        BY <3>3, <3>4, <4>1 DEF ToSet
      <4> QED
        BY <4>1, <4>2 DEF Mutex!Request, Mutex!ToSet, ToSet, Queue
    <3>6. CASE l \in locked
      <4>1. PICK u \in Tasks : pc[u] = "holding" /\ session[u] = Watched
        BY <1>0, <3>2, <3>6 DEF QueueShape
      <4>2. u # t /\ pc'[u] = "holding" /\ session'[u] = Watched
        BY <1>1, <1>2, <2>3, <4>1 DEF TakeOrWait, IInv, TypeOK
      <4>3. Queue = <<u>> \o waiters[l]
        BY <1>0, <3>2, <4>1 DEF QueueShape
      <4>4. Queue' = <<u>> \o Append(waiters[l], t)
        BY <1>0, <2>1, <3>3, <4>2 DEF QueueShape
      <4>5. Queue' = Append(Queue, t)
        BY <3>3, <4>3, <4>4
      <4>6. t \notin ToSet(Queue)
        <5> SUFFICES ASSUME NEW i \in DOMAIN Queue, Queue[i] = t PROVE FALSE
          BY DEF ToSet
        <5>1. i \in 1..(Len(waiters[l]) + 1)
          BY <3>3, <4>3
        <5>2. CASE i = 1
          BY <3>3, <4>2, <4>3, <5>2
        <5>3. CASE i # 1
          <6>1. i - 1 \in 1..Len(waiters[l]) /\ Queue[i] = waiters[l][i - 1]
            BY <3>3, <4>3, <5>1, <5>3
          <6> QED
            BY <3>4, <6>1
        <5> QED
          BY <5>2, <5>3
      <4> QED
        BY <4>5, <4>6 DEF Mutex!Request, Mutex!ToSet, ToSet, Queue
    <3> QED
      BY <3>5, <3>6
  <2> QED
    BY <2>2, <2>3
<1> QED
  BY <1>4, <1>5

LEMMA WakeMaps ==
  ASSUME IInv, IInv', NEW t \in Tasks, Wake(t)
  PROVE  Queue' = Queue
<1>0. /\ QueueShape /\ QueueShape' /\ UsersKnown /\ UsersKnown'
  BY QueueShapeHolds, UsersKnownHolds, PTL
<1>1. PICK l \in LockIds : l = mine[t]
  BY DEF Wake, IInv, MineInv
<1>2. /\ pc[t] = "waiting" /\ t \in woken
      /\ waiters' = [waiters EXCEPT ![l] = Without(@, t)]
      /\ pc' = [pc EXCEPT ![t] = "holding"]
      /\ UNCHANGED <<session, mine, table>>
  BY <1>1 DEF Wake
<1>3. Object' = Object
  BY <1>2 DEF Object
<1>4. CASE session[t] # Watched
  <2>1. Object # l
    BY <1>0, <1>1, <1>2, <1>4 DEF UsersKnown
  <2>2. Object # NoLock => waiters'[Object] = waiters[Object]
    BY <1>0, <1>2, <2>1 DEF QueueShape, IInv, TypeOK
  <2>3. \A u \in Tasks :
          (pc[u] = "holding" /\ session[u] = Watched)' =
            (pc[u] = "holding" /\ session[u] = Watched)
    BY <1>2, <1>4 DEF IInv, TypeOK
  <2> QED
    BY <1>3, <2>2, <2>3, Elsewhere
<1>5. CASE session[t] = Watched
  <2>1. Object = l /\ l # NoLock
    BY <1>0, <1>1, <1>2, <1>5, LockAssumption DEF UsersKnown
  <2>2. PICK w \in Seq(Tasks) : w = waiters[l]
    BY DEF IInv, TypeOK
  <2>3. l \notin locked /\ w # <<>> /\ w[1] = t
    BY <1>1, <1>2, <2>2 DEF IInv, WokenInv
  <2>4. Queue = w
    BY <1>0, <2>1, <2>2, <2>3 DEF QueueShape
  <2>5. 1 \in 1..Len(w) /\ \A i, j \in 1..Len(w) : w[i] = w[j] => i = j
    BY <2>2, <2>3 DEF IInv, QueueInv
  <2>6. Without(w, t) = Tail(w)
    BY <2>3, <2>5, WithoutIsRemoveAt, RemoveHead
  <2>7. waiters'[l] = Tail(w)
    BY <1>2, <2>2, <2>6 DEF IInv, TypeOK
  <2>8. pc'[t] = "holding" /\ session'[t] = Watched
    BY <1>2, <1>5 DEF IInv, TypeOK
  <2>9. Queue' = <<t>> \o Tail(w)
    BY <1>0, <1>3, <2>1, <2>7, <2>8 DEF QueueShape
  <2>10. Head(w) = t
    BY <2>3
  <2> QED
    BY <2>3, <2>4, <2>9, <2>10, RemoveHead
<1> QED
  BY <1>4, <1>5

(* What is left of the session when a task leaves it.                      *)
LEMMA ForgetMaps ==
  ASSUME IInv, IInv', NEW t \in Tasks, pc[t] # "idle", Forget(t)
  PROVE  /\ session[t] # Watched => Object' = Object /\ Object # mine[t]
         /\ session[t] = Watched => Object = mine[t] /\ Object' \in {Object, NoLock}
         /\ \A u \in Tasks \ {t} :
              pc'[u] = pc[u] /\ session'[u] = session[u] /\ mine'[u] = mine[u]
         /\ pc'[t] = "idle" /\ session'[t] # Watched
<1>0. UsersKnown
  BY UsersKnownHolds
<1>1. session[t] \in Sessions
  BY DEF IInv, MineInv
<1>2. /\ session[t] # Watched => Object' = Object
      /\ session[t] = Watched => Object' \in {Object, NoLock}
  BY <1>1, WatchedAssumption DEF Forget, Object, IInv, TypeOK
<1>3. /\ session[t] # Watched => Object # mine[t]
      /\ session[t] = Watched => Object = mine[t]
  BY <1>0 DEF UsersKnown
<1>4. /\ \A u \in Tasks \ {t} :
           pc'[u] = pc[u] /\ session'[u] = session[u] /\ mine'[u] = mine[u]
      /\ pc'[t] = "idle" /\ session'[t] = NoSession
  BY DEF Forget, IInv, TypeOK
<1> QED
  BY <1>2, <1>3, <1>4, WatchedAssumption, LockAssumption

LEMMA ExitMaps ==
  ASSUME IInv, IInv', NEW t \in Tasks, Exit(t)
  PROVE  Queue' = Queue \/ Mutex!Release(t)
<1>0. /\ QueueShape /\ QueueShape' /\ UsersKnown /\ UsersKnown'
  BY QueueShapeHolds, UsersKnownHolds, PTL
<1>1. /\ pc[t] = "holding" /\ locked' = locked \ {mine[t]} /\ waiters' = waiters
      /\ Forget(t)
  BY DEF Exit
<1>2. /\ session[t] # Watched => Object' = Object /\ Object # mine[t]
      /\ session[t] = Watched => Object = mine[t] /\ Object' \in {Object, NoLock}
      /\ \A u \in Tasks \ {t} :
           pc'[u] = pc[u] /\ session'[u] = session[u] /\ mine'[u] = mine[u]
      /\ pc'[t] = "idle" /\ session'[t] # Watched
  BY <1>1, ForgetMaps
<1>3. CASE session[t] # Watched
  BY <1>1, <1>2, <1>3, Elsewhere
<1>4. CASE session[t] = Watched
  <2>1. Object # NoLock /\ Queue = <<t>> \o waiters[Object]
    BY <1>0, <1>1, <1>4 DEF QueueShape
  <2>2. PICK w \in Seq(Tasks) : w = waiters[Object]
    BY <1>0, <2>1 DEF QueueShape
  <2>3. Queue' = w
    <3>1. CASE Object' = Object
      BY <1>0, <1>1, <1>2, <1>4, <2>1, <2>2, <3>1 DEF QueueShape
    <3>2. CASE Object' = NoLock
      <4>1. Queue' = <<>> /\ \A u \in Tasks : session'[u] # Watched
        BY <1>0, <3>2 DEF QueueShape
      <4>2. w = <<>>
        <5> SUFFICES ASSUME w # <<>> PROVE FALSE
          OBVIOUS
        <5>1. 1 \in 1..Len(w) /\ w[1] \in Tasks
          OBVIOUS
        <5>2. pc[w[1]] = "waiting" /\ mine[w[1]] = Object
          BY <1>0, <2>1, <2>2, <5>1 DEF QueueShape, IInv, QueueInv
        <5>3. session[w[1]] = Watched /\ w[1] # t
          BY <1>0, <1>1, <5>1, <5>2 DEF UsersKnown
        <5> QED
          BY <1>2, <4>1, <5>1, <5>3
      <4> QED
        BY <4>1, <4>2
    <3> QED
      BY <1>2, <1>4, <3>1, <3>2
  <2>4. /\ <<t>> \o w # <<>> /\ Head(<<t>> \o w) = t /\ Tail(<<t>> \o w) = w
    OBVIOUS
  <2> QED
    BY <2>1, <2>2, <2>3, <2>4 DEF Mutex!Release, Mutex!Owns, Queue
<1> QED
  BY <1>3, <1>4

LEMMA CancelMaps ==
  ASSUME IInv, IInv', NEW t \in Tasks, Cancel(t)
  PROVE  Queue' = Queue \/ Mutex!Release(t) \/ Mutex!Abandon(t)
<1>0. /\ QueueShape /\ QueueShape' /\ UsersKnown /\ UsersKnown'
  BY QueueShapeHolds, UsersKnownHolds, PTL
<1>1. /\ pc[t] = "waiting" /\ locked' = locked
      /\ waiters' = [waiters EXCEPT ![mine[t]] = Without(@, t)]
      /\ Forget(t)
  BY DEF Cancel
<1>2. /\ session[t] # Watched => Object' = Object /\ Object # mine[t]
      /\ session[t] = Watched => Object = mine[t] /\ Object' \in {Object, NoLock}
      /\ \A u \in Tasks \ {t} :
           pc'[u] = pc[u] /\ session'[u] = session[u] /\ mine'[u] = mine[u]
      /\ pc'[t] = "idle" /\ session'[t] # Watched
  BY <1>1, ForgetMaps
<1>3. CASE session[t] # Watched
  <2>1. Object # NoLock => waiters'[Object] = waiters[Object]
    BY <1>0, <1>1, <1>2, <1>3 DEF QueueShape, IInv, TypeOK
  <2> QED
    BY <1>1, <1>2, <1>3, <2>1, Elsewhere
<1>4. CASE session[t] = Watched
  <2>1. Object = mine[t] /\ Object # NoLock /\ Object \in LockIds
    BY <1>0, <1>2, <1>4 DEF QueueShape
  <2>2. PICK w \in Seq(Tasks) : w = waiters[Object]
    BY <1>0, <2>1 DEF QueueShape
  <2>3. PICK n \in 1..Len(w) : w[n] = t
    BY <1>1, <2>1, <2>2 DEF IInv, QueueInv
  <2>4. \A i, j \in 1..Len(w) : w[i] = w[j] => i = j
    BY <2>1, <2>2 DEF IInv, QueueInv
  <2>5. PICK r \in Seq(Tasks) : r = RemoveAt(w, n)
    BY RemoveAtProperties
  <2>6. waiters'[Object] = r
    <3>1. Without(w, t) = r
      BY <2>3, <2>4, <2>5, WithoutIsRemoveAt
    <3> QED
      BY <1>1, <2>1, <2>2, <3>1 DEF IInv, TypeOK
  <2>7. \A i \in 1..Len(r) :
          r[i] \in Tasks \ {t} /\ pc[r[i]] = "waiting" /\ mine[r[i]] = Object
    <3>1. \A k \in LockIds : \A i \in 1..Len(waiters'[k]) :
            /\ waiters'[k][i] \in Tasks \ {t}
            /\ pc[waiters'[k][i]] = "waiting" /\ mine[waiters'[k][i]] = k
      BY <1>1, LeaveQueue
    <3> QED
      BY <2>1, <2>6, <3>1
  <2>8. Object' = NoLock => r = <<>> /\ Object \notin locked /\ Queue' = <<>>
    <3> SUFFICES ASSUME Object' = NoLock
                 PROVE  r = <<>> /\ Object \notin locked /\ Queue' = <<>>
      OBVIOUS
    <3>1. Queue' = <<>> /\ \A u \in Tasks : session'[u] # Watched
      BY <1>0 DEF QueueShape
    <3>2. \A u \in Tasks \ {t} : session[u] # Watched
      BY <1>2, <3>1
    <3>3. Object \notin locked
      BY <1>0, <1>1, <3>2 DEF QueueShape
    <3>4. ASSUME r # <<>> PROVE FALSE
      <4>1. 1 \in 1..Len(r)
        BY <3>4
      <4>2. r[1] \in Tasks \ {t} /\ pc[r[1]] = "waiting" /\ mine[r[1]] = Object
        BY <2>7, <4>1
      <4> QED
        BY <1>0, <3>2, <4>2 DEF UsersKnown
    <3> QED
      BY <3>1, <3>3, <3>4
  <2>9. CASE Object \notin locked
    <3>1. Queue = w
      BY <1>0, <2>1, <2>2, <2>9 DEF QueueShape
    <3>2. Queue' = r
      BY <1>0, <1>1, <1>2, <1>4, <2>1, <2>6, <2>8, <2>9 DEF QueueShape
    <3>3. w # <<>> /\ Head(w) = w[1] /\ 1 \in 1..Len(w)
      BY <2>3
    <3>4. CASE n = 1
      <4>1. r = Tail(w) /\ Head(w) = t
        BY <2>3, <2>5, <3>3, <3>4, RemoveHead
      <4> QED
        BY <3>1, <3>2, <3>3, <4>1 DEF Mutex!Release, Mutex!Owns, Queue
    <3>5. CASE n # 1
      <4>1. Head(w) # t
        BY <2>3, <2>4, <3>3, <3>5
      <4>2. n \in DOMAIN w
        OBVIOUS
      <4> QED
        BY <2>3, <2>5, <3>1, <3>2, <4>1, <4>2
           DEF Mutex!Abandon, Mutex!Owns, Mutex!RemoveAt, RemoveAt, Queue
    <3> QED
      BY <3>4, <3>5
  <2>10. CASE Object \in locked
    <3>1. PICK u \in Tasks : pc[u] = "holding" /\ session[u] = Watched
      BY <1>0, <2>10 DEF QueueShape
    <3>2. Queue = <<u>> \o w
      BY <1>0, <2>2, <3>1 DEF QueueShape
    <3>3. u # t /\ pc'[u] = "holding" /\ session'[u] = Watched
      BY <1>1, <1>2, <3>1
    <3>4. Object' = Object
      BY <1>2, <1>4, <2>8, <2>10
    <3>5. Queue' = <<u>> \o r
      BY <1>0, <2>6, <3>3, <3>4 DEF QueueShape
    <3>6. /\ n + 1 \in DOMAIN (<<u>> \o w) /\ (<<u>> \o w)[n + 1] = t
          /\ <<u>> \o r = RemoveAt(<<u>> \o w, n + 1)
      BY <2>3, <2>5, RemoveBehind
    <3>7. Head(<<u>> \o w) = u
      OBVIOUS
    <3> QED
      BY <3>2, <3>3, <3>5, <3>6, <3>7
         DEF Mutex!Abandon, Mutex!Owns, Mutex!RemoveAt, RemoveAt, Queue
  <2> QED
    BY <2>9, <2>10
<1> QED
  BY <1>3, <1>4

-----------------------------------------------------------------------------
(* SessionLock implements FifoMutex for every session (Watched is any):    *)
(* tasks get the lock in the order in which they asked for it, one at a    *)
(* time, and one that is cancelled takes nothing but its own place along,  *)
(* although lock objects are dropped and made again under their users      *)
(* (acquire_lock).                                                         *)
THEOREM FifoTheorem == Spec => FifoPerSession
<1>1. Init => Mutex!Init
  <2> SUFFICES ASSUME Init PROVE Queue = <<>>
    BY DEF Mutex!Init, Queue
  <2>1. IInv
    BY InitInv
  <2>2. Object = NoLock
    BY WatchedAssumption DEF Init, Object
  <2> QED
    BY <2>1, <2>2, QueueShapeHolds DEF QueueShape
<1>2. IInv /\ IInv' /\ [Next]_vars => [Mutex!Next]_(QueueOf(Watched))
  <2> SUFFICES ASSUME IInv, IInv', [Next]_vars
               PROVE  Queue' = Queue \/ Mutex!Next
    BY DEF Queue
  <2>1. ASSUME NEW t \in Tasks, NEW s \in Sessions, Enter(t, s)
        PROVE  Queue' = Queue \/ Mutex!Next
    BY <2>1, EnterMaps DEF Mutex!Next
  <2>2. ASSUME NEW t \in Tasks, Wake(t)
        PROVE  Queue' = Queue
    BY <2>2, WakeMaps
  <2>3. ASSUME NEW t \in Tasks, Exit(t)
        PROVE  Queue' = Queue \/ Mutex!Next
    BY <2>3, ExitMaps DEF Mutex!Next
  <2>4. ASSUME NEW t \in Tasks, Cancel(t)
        PROVE  Queue' = Queue \/ Mutex!Next
    BY <2>4, CancelMaps DEF Mutex!Next
  <2>5. CASE UNCHANGED vars
    BY <2>5 DEF vars, Queue, QueueOf, Holders
  <2> QED
    BY <2>1, <2>2, <2>3, <2>4, <2>5 DEF Next
<1> QED
  BY <1>1, <1>2, Inductive, PTL DEF Spec, FifoPerSession, Mutex!Spec
=============================================================================
