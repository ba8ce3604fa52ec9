------------------------- MODULE MessagePathProofs -------------------------
(***************************************************************************)
(* Proofs about MessagePath, for any finite set of messages, any texts,    *)
(* mentions and commands, any limit, window and number of waiters.         *)
(***************************************************************************)
EXTENDS MessagePath, SessionLockProofs, WellFoundedInduction

-----------------------------------------------------------------------------
(* Sequences and numbers.                                                  *)

LEMMA MinFacts ==
  ASSUME NEW S \in SUBSET Nat, S # {}
  PROVE  Min(S) \in S /\ \A n \in S : Min(S) <= n
<1> DEFINE R == OpToRel(<, Nat)
<1>1. IsWellFoundedOn(R, Nat)
  BY NatLessThanWellFounded
<1>2. \E x \in S : \A y \in S : ~(<<y, x>> \in R)
  <2> HIDE DEF R
  <2> QED BY <1>1, WFMin
<1>3. PICK x \in S : \A y \in S : ~(<<y, x>> \in R)
  BY <1>2
<1>4. \A y \in S : ~(y < x)
  BY <1>3 DEF OpToRel
<1>5. \E n \in S : \A y \in S : n <= y
  BY <1>4
<1> QED BY <1>5 DEF Min

LEMMA FirstFacts ==
  ASSUME NEW S, NEW q \in Seq(S), q # <<>>
  PROVE  q[1] \in S
<1>1. 1 \in 1..Len(q)
  OBVIOUS
<1> QED BY <1>1

LEMMA TailFacts ==
  ASSUME NEW S, NEW q \in Seq(S), q # <<>>, IsInjective(q)
  PROVE  /\ Tail(q) \in Seq(S) /\ Head(q) \in S
         /\ IsInjective(Tail(q))
         /\ ToSet(Tail(q)) = ToSet(q) \ {Head(q)}
<1>1. /\ Tail(q) \in Seq(S) /\ Len(q) \in Nat \ {0}
      /\ Len(Tail(q)) = Len(q) - 1 /\ Head(q) = q[1] /\ Head(q) \in S
      /\ \A i \in 1..(Len(q) - 1) : Tail(q)[i] = q[i + 1]
      /\ DOMAIN q = 1..Len(q) /\ DOMAIN Tail(q) = 1..(Len(q) - 1)
  OBVIOUS
<1>2. IsInjective(Tail(q))
  <2> SUFFICES ASSUME NEW a \in 1..(Len(q) - 1), NEW b \in 1..(Len(q) - 1),
                      Tail(q)[a] = Tail(q)[b]
               PROVE  a = b
    BY <1>1 DEF IsInjective
  <2>1. q[a + 1] = q[b + 1] /\ a + 1 \in 1..Len(q) /\ b + 1 \in 1..Len(q)
    BY <1>1
  <2>2. a + 1 = b + 1
    BY <1>1, <2>1 DEF IsInjective
  <2> QED BY <2>2
<1>3. ToSet(Tail(q)) \subseteq ToSet(q) \ {Head(q)}
  <2> SUFFICES ASSUME NEW a \in 1..(Len(q) - 1)
               PROVE  Tail(q)[a] \in ToSet(q) /\ Tail(q)[a] # q[1]
    BY <1>1 DEF ToSet
  <2>1. Tail(q)[a] = q[a + 1] /\ a + 1 \in 1..Len(q) /\ 1 \in 1..Len(q) /\ a + 1 # 1
    BY <1>1
  <2> QED BY <1>1, <2>1 DEF IsInjective, ToSet
<1>4. ToSet(q) \ {Head(q)} \subseteq ToSet(Tail(q))
  <2> SUFFICES ASSUME NEW a \in 1..Len(q), q[a] # q[1]
               PROVE  q[a] \in ToSet(Tail(q))
    BY <1>1 DEF ToSet
  <2>1. a - 1 \in 1..(Len(q) - 1) /\ (a - 1) + 1 = a
    BY <1>1
  <2>2. Tail(q)[a - 1] = q[a]
    BY <1>1, <2>1
  <2> QED BY <1>1, <2>1, <2>2 DEF ToSet
<1> QED BY <1>1, <1>2, <1>3, <1>4

LEMMA AppendFacts ==
  ASSUME NEW S, NEW q \in Seq(S), NEW x \in S, IsInjective(q), x \notin ToSet(q)
  PROVE  /\ Append(q, x) \in Seq(S) /\ Append(q, x) # <<>>
         /\ IsInjective(Append(q, x))
         /\ ToSet(Append(q, x)) = ToSet(q) \cup {x}
         /\ q # <<>> => Head(Append(q, x)) = Head(q)
         /\ q = <<>> => Head(Append(q, x)) = x
<1>1. /\ Append(q, x) \in Seq(S) /\ Len(q) \in Nat
      /\ DOMAIN q = 1..Len(q) /\ DOMAIN Append(q, x) = 1..(Len(q) + 1)
      /\ Append(q, x)[Len(q) + 1] = x
      /\ \A i \in 1..Len(q) : Append(q, x)[i] = q[i]
      /\ Append(q, x) # <<>>
  OBVIOUS
<1>2. 1..(Len(q) + 1) = (1..Len(q)) \cup {Len(q) + 1}
  BY <1>1
<1>3. \A i \in 1..Len(q) : q[i] # x
  BY <1>1 DEF ToSet
<1>4. IsInjective(Append(q, x))
  BY <1>1, <1>2, <1>3 DEF IsInjective
<1>5. ToSet(Append(q, x)) = ToSet(q) \cup {x}
  BY <1>1, <1>2 DEF ToSet
<1>6. Head(Append(q, x)) = Append(q, x)[1]
  BY <1>1
<1>7. q # <<>> => 1 \in 1..Len(q) /\ Head(q) = q[1]
  OBVIOUS
<1>8. q = <<>> => Len(q) + 1 = 1
  OBVIOUS
<1> QED BY <1>1, <1>4, <1>5, <1>6, <1>7, <1>8
-----------------------------------------------------------------------------
(* The limiter.                                                            *)

(* What is left of the stamps: a stamp that is recent enough keeps its     *)
(* distance from the end.                                                  *)
LEMMA RecentFacts ==
  ASSUME clock \in Nat, stamps \in Seq(0..clock), Window \in Nat,
         NEW t \in 0..clock
  PROVE  /\ Recent(t) \in Seq(0..clock)
         /\ Len(Recent(t)) <= Len(stamps)
         /\ Recent(t) # <<>> => Recent(t)[1] >= t - Window
         /\ \A i \in DOMAIN stamps : stamps[i] >= t - Window =>
              \E j \in DOMAIN Recent(t) :
                /\ Recent(t)[j] = stamps[i]
                /\ Len(Recent(t)) - j = Len(stamps) - i
<1> DEFINE kept == {i \in DOMAIN stamps : stamps[i] >= t - Window}
<1>1. DOMAIN stamps = 1..Len(stamps) /\ Len(stamps) \in Nat
  OBVIOUS
<1>2. CASE kept = {}
  <2>1. Recent(t) = <<>>
    BY <1>2 DEF Recent
  <2> QED BY <1>1, <1>2, <2>1
<1>3. CASE kept # {}
  <2>1. kept \in SUBSET Nat
    BY <1>1
  <2> DEFINE n == Min(kept)
  <2>2. n \in kept /\ \A i \in kept : n <= i
    <3> HIDE DEF kept
    <3> QED BY <1>3, <2>1, MinFacts
  <2>3. Recent(t) = SubSeq(stamps, n, Len(stamps))
    BY <1>3 DEF Recent
  <2>4. n \in 1..Len(stamps) /\ stamps[n] >= t - Window
    BY <1>1, <2>2
  <2> HIDE DEF n
  <2>5. /\ Recent(t) \in Seq(0..clock)
        /\ Len(Recent(t)) = Len(stamps) - n + 1
        /\ \A j \in 1..(Len(stamps) - n + 1) : Recent(t)[j] = stamps[n + j - 1]
    BY <1>1, <2>3, <2>4
  <2>6. Recent(t)[1] = stamps[n]
    BY <2>4, <2>5
  <2>7. ASSUME NEW i \in DOMAIN stamps, stamps[i] >= t - Window
        PROVE  \E j \in DOMAIN Recent(t) :
                 /\ Recent(t)[j] = stamps[i]
                 /\ Len(Recent(t)) - j = Len(stamps) - i
    <3>1. n <= i /\ i \in 1..Len(stamps)
      BY <1>1, <2>2, <2>7
    <3>2. i - n + 1 \in 1..(Len(stamps) - n + 1) /\ n + (i - n + 1) - 1 = i
      BY <2>4, <3>1
    <3>3. DOMAIN Recent(t) = 1..(Len(stamps) - n + 1)
      BY <2>4, <2>5
    <3>4. Recent(t)[i - n + 1] = stamps[i]
      BY <2>5, <3>2
    <3> QED BY <2>4, <2>5, <3>1, <3>2, <3>3, <3>4
  <2> QED BY <1>1, <2>4, <2>5, <2>6, <2>7
<1> QED BY <1>2, <1>3

(* The messages that were let through at the time t or later.              *)
PassedSince(t) == {m \in Messages : passedAt[m] >= t}

(* Each of them has a stamp, from some stamp on that is not older than t,  *)
(* as long as the window that begins at t is open.                         *)
StampsCover(t) ==
  \E i \in DOMAIN stamps :
    stamps[i] >= t /\ Cardinality(PassedSince(t)) <= Len(stamps) - i + 1

OpenInv ==
  \A t \in Nat :
    clock <= t + Window /\ PassedSince(t) # {} => StampsCover(t)

CountInv ==
  limit.count > 0 => OpenInv /\ Len(stamps) <= limit.count /\ WindowBound

(* A message passed at this very moment.                                   *)
StampedNow == \E i \in DOMAIN stamps : stamps[i] = clock

(* Who waits for the lock waits behind a message that sleeps; when the     *)
(* lock comes to it, that one has just been let through.                   *)
WaitInv ==
  /\ limitq # <<>> => limit.count > 0 /\ limit.strategy = "stall"
  /\ limitq # <<>> /\ place[Head(limitq)] = "queued" => StampedNow

LimitTypes ==
  /\ limit \in Limits
  /\ clock \in Nat
  /\ place \in [Messages -> Places]
  /\ now \in [Messages -> 0..clock]
  /\ stamps \in Seq(0..clock)
  /\ wake \in [Messages -> Nat]
  /\ passedAt \in [Messages -> -1..clock]

GateTypes ==
  /\ limitq \in Seq(Messages)
  /\ IsInjective(limitq)
  /\ ToSet(limitq) = {m \in Messages : place[m] \in {"queued", "asleep"}}
  /\ \A i \in DOMAIN limitq : i > 1 => place[limitq[i]] = "queued"

LimitInv == LimitTypes /\ GateTypes /\ CountInv /\ WaitInv

LEMMA MessagesFinite == IsFiniteSet(Messages)
BY LockAssumption, PathAssumption

LEMMA LimitKnown ==
  ASSUME LimitTypes
  PROVE  /\ limit.count \in Int /\ limit.strategy \in {"stall", "discard"}
         /\ Window \in Nat
BY LimitAssumption DEF LimitTypes

(* Letting a message through with a stamp: the time of its round, which    *)
(* may be old, but then there is a stamp of now.                           *)
LEMMA PassCounts ==
  ASSUME LimitTypes, limit.count > 0, OpenInv, WindowBound,
         NEW m \in Messages, NEW t \in 0..clock,
         t = clock \/ StampedNow,
         limit.count > Len(Recent(t)),
         stamps' = Append(Recent(t), t),
         passedAt' = [passedAt EXCEPT ![m] = clock],
         UNCHANGED <<limit, clock>>
  PROVE  /\ OpenInv' /\ Len(stamps') <= limit'.count /\ WindowBound'
         /\ StampedNow'
<1> DEFINE r == Recent(t)
<1>1. /\ clock \in Nat /\ stamps \in Seq(0..clock) /\ Window \in Nat
      /\ limit.count \in Int /\ passedAt \in [Messages -> -1..clock]
  BY LimitKnown DEF LimitTypes
<1>2. /\ r \in Seq(0..clock)
      /\ \A i \in DOMAIN stamps : stamps[i] >= t - Window =>
           \E j \in DOMAIN r :
             r[j] = stamps[i] /\ Len(r) - j = Len(stamps) - i
  BY <1>1, RecentFacts
<1> HIDE DEF r
<1>3. stamps' = Append(r, t)
  BY DEF r
<1>4. /\ stamps' \in Seq(0..clock) /\ Len(stamps') = Len(r) + 1
      /\ Len(r) \in Nat /\ DOMAIN r = 1..Len(r)
      /\ DOMAIN stamps' = 1..(Len(r) + 1)
      /\ \A j \in 1..Len(r) : stamps'[j] = r[j]
      /\ stamps'[Len(r) + 1] = t
  BY <1>2, <1>3
<1>5. Len(stamps') <= limit'.count
  BY <1>1, <1>4 DEF r
<1>6. \A i \in DOMAIN stamps : stamps[i] \in 0..clock /\ i \in 1..Len(stamps)
  BY <1>1
<1>7. ASSUME NEW i \in DOMAIN stamps, stamps[i] >= t - Window
      PROVE  \E j \in DOMAIN stamps' :
               stamps'[j] = stamps[i] /\ Len(stamps') - j = Len(stamps) - i + 1
  <2>1. PICK j \in DOMAIN r : r[j] = stamps[i] /\ Len(r) - j = Len(stamps) - i
    BY <1>2, <1>7
  <2>2. j \in DOMAIN stamps' /\ stamps'[j] = stamps[i]
    BY <1>4, <2>1
  <2>3. Len(stamps') - j = Len(stamps) - i + 1
    BY <1>1, <1>4, <1>6, <2>1
  <2> QED BY <2>2, <2>3
<1>8. StampedNow'
  <2>1. CASE t = clock
    BY <1>4, <2>1 DEF StampedNow
  <2>2. CASE StampedNow
    <3>1. PICK i \in DOMAIN stamps : stamps[i] = clock
      BY <2>2 DEF StampedNow
    <3>2. stamps[i] >= t - Window
      BY <1>1, <3>1
    <3>3. \E j \in DOMAIN stamps' : stamps'[j] = clock
      BY <1>7, <3>1, <3>2
    <3> QED BY <3>3 DEF StampedNow
  <2> QED BY <2>1, <2>2
<1>9. \A n \in Messages : passedAt'[n] = IF n = m THEN clock ELSE passedAt[n]
  BY <1>1
<1>10. OpenInv'
  <2> SUFFICES ASSUME NEW u \in Nat, clock <= u + Window, PassedSince(u)' # {}
               PROVE  StampsCover(u)'
    BY DEF OpenInv
  <2>1. u <= clock
    <3>1. PICK n \in Messages : passedAt'[n] >= u
      BY DEF PassedSince
    <3>2. passedAt'[n] <= clock /\ passedAt'[n] \in Int
      BY <1>1, <1>9
    <3> QED BY <1>1, <3>1, <3>2
  <2>2. PassedSince(u)' = PassedSince(u) \cup {m}
    BY <1>1, <1>9, <2>1 DEF PassedSince
  <2>3. IsFiniteSet(PassedSince(u))
    BY MessagesFinite, FS_Subset DEF PassedSince
  <2>4. Cardinality(PassedSince(u)') <= Cardinality(PassedSince(u)) + 1
        /\ Cardinality(PassedSince(u)) \in Nat
        /\ Cardinality(PassedSince(u)') \in Nat
    <3>1. Cardinality(PassedSince(u)) \in Nat
      BY <2>3, FS_CardinalityType
    <3>2. Cardinality(PassedSince(u) \cup {m}) =
            IF m \in PassedSince(u) THEN Cardinality(PassedSince(u))
            ELSE Cardinality(PassedSince(u)) + 1
      BY <2>3, FS_AddElement
    <3> QED BY <2>2, <3>1, <3>2
  <2>5. CASE PassedSince(u) # {}
    <3>1. PICK i \in DOMAIN stamps :
            stamps[i] >= u /\ Cardinality(PassedSince(u)) <= Len(stamps) - i + 1
      BY <2>5 DEF OpenInv, StampsCover
    <3>2. stamps[i] >= t - Window
      BY <1>1, <1>6, <3>1
    <3>3. PICK j \in DOMAIN stamps' :
            stamps'[j] = stamps[i] /\ Len(stamps') - j = Len(stamps) - i + 1
      BY <1>7, <3>2
    <3>4. Cardinality(PassedSince(u)') <= Len(stamps') - j + 1
      <4>1. /\ i \in Int /\ j \in Int
            /\ Len(stamps) \in Int /\ Len(stamps') \in Int
        BY <1>1, <1>4
      <4>2. /\ Cardinality(PassedSince(u)') <= Cardinality(PassedSince(u)) + 1
            /\ Cardinality(PassedSince(u)) <= Len(stamps) - i + 1
            /\ Len(stamps') - j = Len(stamps) - i + 1
            /\ Cardinality(PassedSince(u)) \in Int
            /\ Cardinality(PassedSince(u)') \in Int
        BY <2>4, <3>1, <3>3
      <4>3. \A a, c, x, y, k, n \in Int :
              a <= c + 1 /\ c <= k - x + 1 /\ n - y = k - x + 1 => a <= n - y + 1
        OBVIOUS
      <4> QED BY ONLY <4>1, <4>2, <4>3
    <3>5. stamps'[j] >= u
      BY <3>1, <3>3
    <3> QED BY <3>4, <3>5 DEF StampsCover
  <2>6. CASE PassedSince(u) = {}
    <3>1. PICK j \in DOMAIN stamps' : stamps'[j] = clock
      BY <1>8 DEF StampedNow
    <3>2. Cardinality(PassedSince(u)') <= 1
      BY <2>4, <2>6, FS_EmptySet
    <3>3. Cardinality(PassedSince(u)') <= Len(stamps') - j + 1
      BY <1>4, <2>4, <3>1, <3>2
    <3> QED BY <2>1, <3>1, <3>3 DEF StampsCover
  <2> QED BY <2>5, <2>6
<1>11. WindowBound'
  <2> SUFFICES ASSUME NEW u \in {passedAt'[n] : n \in Messages} \ {-1}
               PROVE  Cardinality({n \in Messages : passedAt'[n] \in u..(u + Window)})
                        <= limit.count
    BY DEF WindowBound
  <2>1. u \in Nat /\ u <= clock
    BY <1>1, <1>9
  <2> DEFINE A == {n \in Messages : passedAt'[n] \in u..(u + Window)}
  <2>2. CASE clock <= u + Window
    <3>1. A = PassedSince(u)'
      BY <1>1, <1>9, <2>1, <2>2 DEF PassedSince
    <3>2. CASE PassedSince(u)' = {}
      <4>1. Cardinality(A) = 0
        BY <3>1, <3>2, FS_EmptySet
      <4> QED BY <1>1, <4>1
    <3>3. CASE PassedSince(u)' # {}
      <4>1. StampsCover(u)'
        BY <1>10, <2>1, <2>2, <3>3 DEF OpenInv
      <4>2. PICK i \in DOMAIN stamps' :
              Cardinality(PassedSince(u)') <= Len(stamps') - i + 1
        BY <4>1 DEF StampsCover
      <4>3. IsFiniteSet(A) /\ Cardinality(A) \in Nat
        BY MessagesFinite, FS_Subset, FS_CardinalityType
      <4>4. i >= 1 /\ i \in Nat
        BY <1>4, <4>2
      <4>5. Cardinality(PassedSince(u)') = Cardinality(A)
        BY <3>1
      <4> HIDE DEF A
      <4>6. Cardinality(A) <= Len(stamps')
        BY <1>4, <4>2, <4>3, <4>4, <4>5
      <4> QED BY <1>1, <1>4, <1>5, <4>3, <4>6 DEF A
    <3> QED BY <3>2, <3>3
  <2>3. CASE ~(clock <= u + Window)
    <3> DEFINE B == {n \in Messages : passedAt[n] \in u..(u + Window)}
    <3>1. A \subseteq B
      BY <1>1, <1>9, <2>1, <2>3
    <3>2. u \in {passedAt[n] : n \in Messages} \ {-1}
      BY <1>1, <1>9, <2>1, <2>3
    <3>3. Cardinality(B) <= limit.count
      BY <3>2 DEF WindowBound
    <3>4. IsFiniteSet(B)
      BY MessagesFinite, FS_Subset
    <3>5. Cardinality(A) <= Cardinality(B) /\ IsFiniteSet(A)
      BY <3>1, <3>4, FS_Subset
    <3>6. Cardinality(A) \in Nat /\ Cardinality(B) \in Nat
      BY <3>4, <3>5, FS_CardinalityType
    <3> HIDE DEF A, B
    <3>7. Cardinality(A) <= limit.count
      BY <1>1, <3>3, <3>5, <3>6
    <3> QED BY <3>7 DEF A
  <2> QED BY <2>2, <2>3
<1> QED BY <1>5, <1>8, <1>10, <1>11

(* Forgetting old stamps without letting a message through.                *)
LEMMA WaitCounts ==
  ASSUME LimitTypes, limit.count > 0, OpenInv, WindowBound,
         Len(stamps) <= limit.count,
         NEW t \in 0..clock, stamps' = Recent(t),
         UNCHANGED <<limit, clock, passedAt>>
  PROVE  OpenInv' /\ Len(stamps') <= limit'.count /\ WindowBound'
<1>1. /\ clock \in Nat /\ stamps \in Seq(0..clock) /\ Window \in Nat
      /\ limit.count \in Int
  BY LimitKnown DEF LimitTypes
<1>2. /\ stamps' \in Seq(0..clock) /\ Len(stamps') <= Len(stamps)
      /\ \A i \in DOMAIN stamps : stamps[i] >= t - Window =>
           \E j \in DOMAIN stamps' :
             stamps'[j] = stamps[i] /\ Len(stamps') - j = Len(stamps) - i
  BY <1>1, RecentFacts
<1>3. OpenInv'
  <2> SUFFICES ASSUME NEW u \in Nat, clock <= u + Window, PassedSince(u)' # {}
               PROVE  StampsCover(u)'
    BY DEF OpenInv
  <2>1. PassedSince(u)' = PassedSince(u)
    BY DEF PassedSince
  <2>2. PICK i \in DOMAIN stamps :
          stamps[i] >= u /\ Cardinality(PassedSince(u)) <= Len(stamps) - i + 1
    BY <2>1 DEF OpenInv, StampsCover
  <2>3. stamps[i] >= t - Window
    <3>1. stamps[i] \in 0..clock
      BY <1>1
    <3> QED BY <1>1, <2>2, <3>1
  <2>4. PICK j \in DOMAIN stamps' :
          stamps'[j] = stamps[i] /\ Len(stamps') - j = Len(stamps) - i
    BY <1>2, <2>3
  <2>5. Len(stamps') \in Nat /\ Len(stamps) \in Nat /\ i \in Nat /\ j \in Nat
    BY <1>1, <1>2
  <2>6. Len(stamps') - j + 1 = Len(stamps) - i + 1
    BY <2>4, <2>5
  <2>7. Cardinality(PassedSince(u)') <= Len(stamps') - j + 1
    BY <2>1, <2>2, <2>6
  <2> QED BY <2>2, <2>4, <2>7 DEF StampsCover
<1>4. WindowBound'
  BY DEF WindowBound
<1>5. Len(stamps') <= limit'.count
  BY <1>1, <1>2
<1> QED BY <1>3, <1>4, <1>5

(* A round leaves the counts right, and the lock to a message that was let *)
(* through now, or to the one that sleeps.                                 *)
LEMMA RoundCounts ==
  ASSUME LimitTypes, CountInv, NEW m \in Messages, NEW t \in 0..clock,
         NEW q \in Seq(Messages), q # <<>>, Head(q) = m,
         Round(m, t, q), t = clock \/ StampedNow,
         ~(limit.count > 0 /\ limit.strategy = "stall") => Tail(q) = <<>>
  PROVE  /\ LimitTypes' /\ CountInv'
         /\ \E p \in {"passed", "asleep", "gone"} :
              /\ place' = [place EXCEPT ![m] = p]
              /\ limitq' = IF p = "asleep" THEN q ELSE Tail(q)
              /\ p = "asleep" => limit'.count > 0 /\ limit'.strategy = "stall"
              /\ p # "asleep" /\ Tail(q) # <<>> =>
                   limit'.count > 0 /\ limit'.strategy = "stall" /\ StampedNow'
<1>1. /\ clock \in Nat /\ stamps \in Seq(0..clock) /\ Window \in Nat
      /\ limit.count \in Int /\ passedAt \in [Messages -> -1..clock]
      /\ limit \in Limits /\ wake \in [Messages -> Nat]
      /\ now \in [Messages -> 0..clock] /\ place \in [Messages -> Places]
      /\ limit.strategy \in {"stall", "discard"}
  BY LimitKnown DEF LimitTypes
<1>2. /\ Recent(t) \in Seq(0..clock) /\ Len(Recent(t)) <= Len(stamps)
      /\ Recent(t) # <<>> => Recent(t)[1] >= t - Window
  BY <1>1, RecentFacts
<1>3. UNCHANGED <<limit, clock>> /\ now' = [now EXCEPT ![m] = t]
  BY DEF Round
<1>4. now' \in [Messages -> 0..clock]
  BY <1>1, <1>3
<1>5. \A p \in Places : [place EXCEPT ![m] = p] \in [Messages -> Places]
  BY <1>1
<1>6. clock \in -1..clock /\ [passedAt EXCEPT ![m] = clock] \in [Messages -> -1..clock]
  BY <1>1
<1>7. ASSUME limit.count <= 0, Pass(m), stamps' = Recent(t), limitq' = Tail(q)
      PROVE  /\ LimitTypes' /\ CountInv' /\ Tail(q) = <<>>
             /\ place' = [place EXCEPT ![m] = "passed"]
  <2>1. ~(limit.count > 0)
    BY <1>1, <1>7
  <2>2. Tail(q) = <<>> /\ CountInv'
    BY <1>3, <2>1 DEF CountInv
  <2>3. place' = [place EXCEPT ![m] = "passed"] /\ place' \in [Messages -> Places]
    BY <1>5, <1>7 DEF Pass, Put, Places
  <2>4. LimitTypes'
    BY <1>1, <1>2, <1>3, <1>4, <1>6, <1>7, <2>3 DEF LimitTypes, Pass
  <2> QED BY <2>2, <2>3, <2>4
<1>8. ASSUME limit.count > Len(Recent(t)), limit.count > 0,
             Pass(m), stamps' = Append(Recent(t), t), limitq' = Tail(q)
      PROVE  /\ LimitTypes' /\ CountInv' /\ StampedNow'
             /\ place' = [place EXCEPT ![m] = "passed"]
  <2>1. OpenInv /\ WindowBound
    BY <1>8 DEF CountInv
  <2>2. OpenInv' /\ Len(stamps') <= limit'.count /\ WindowBound' /\ StampedNow'
    BY <1>3, <1>8, <2>1, PassCounts DEF Pass
  <2>3. place' = [place EXCEPT ![m] = "passed"] /\ place' \in [Messages -> Places]
    BY <1>5, <1>8 DEF Pass, Put, Places
  <2>4. stamps' \in Seq(0..clock)
    BY <1>2, <1>8
  <2>5. LimitTypes'
    BY <1>1, <1>3, <1>4, <1>6, <1>8, <2>3, <2>4 DEF LimitTypes, Pass
  <2> QED BY <2>2, <2>3, <2>5 DEF CountInv
<1>9. ASSUME limit.count > 0, stamps' = Recent(t), UNCHANGED passedAt
      PROVE  CountInv'
  BY <1>3, <1>9, WaitCounts DEF CountInv
<1>10. CASE limit.count <= 0 /\ Pass(m) /\ stamps' = Recent(t) /\ limitq' = Tail(q)
  BY <1>7, <1>10
<1>11. CASE /\ limit.count > Len(Recent(t)) /\ Pass(m)
            /\ stamps' = Append(Recent(t), t) /\ limitq' = Tail(q)
  <2>1. limit.count > 0
    <3>1. Len(Recent(t)) \in Nat /\ limit.count \in Int
      BY <1>1, <1>2
    <3>2. limit.count > Len(Recent(t))
      BY <1>11
    <3> QED BY ONLY <3>1, <3>2
  <2>2. /\ LimitTypes' /\ CountInv' /\ StampedNow'
        /\ place' = [place EXCEPT ![m] = "passed"]
    BY <1>8, <1>11, <2>1
  <2>3. Tail(q) # <<>> => limit'.count > 0 /\ limit'.strategy = "stall"
    BY <1>3
  <2> QED BY <1>11, <2>2, <2>3
<1>12. CASE /\ 0 < limit.count /\ limit.count <= Len(Recent(t))
            /\ limit.strategy = "stall" /\ Put(m, "asleep")
            /\ wake' = [wake EXCEPT
                 ![m] = clock + (Recent(t)[1] + Window - t) + 1]
            /\ stamps' = Recent(t) /\ KeepGate(q) /\ UNCHANGED passedAt
  <2>1. Recent(t) # <<>>
    BY <1>1, <1>12
  <2>2. Recent(t)[1] >= t - Window /\ Recent(t)[1] \in 0..clock
    <3>1. Recent(t)[1] \in 0..clock
      BY <1>2, <2>1, FirstFacts
    <3> QED BY <1>2, <2>1, <3>1
  <2>3. clock + (Recent(t)[1] + Window - t) + 1 \in Nat
    <3>1. /\ clock \in Nat /\ Window \in Nat /\ t \in Int
          /\ Recent(t)[1] \in Int /\ Recent(t)[1] >= t - Window
      BY <1>1, <2>2
    <3> QED BY ONLY <3>1
  <2>4. wake' \in [Messages -> Nat]
    BY <1>1, <1>12, <2>3
  <2>5. place' = [place EXCEPT ![m] = "asleep"] /\ place' \in [Messages -> Places]
    BY <1>5, <1>12 DEF Put, Places
  <2>6. LimitTypes'
    BY <1>1, <1>2, <1>3, <1>4, <1>12, <2>4, <2>5 DEF LimitTypes
  <2>7. CountInv'
    BY <1>1, <1>9, <1>12
  <2>8. limit'.count > 0 /\ limit'.strategy = "stall" /\ limitq' = q
    BY <1>1, <1>3, <1>12 DEF KeepGate
  <2> QED BY <2>5, <2>6, <2>7, <2>8
<1>13. CASE /\ 0 < limit.count /\ limit.count <= Len(Recent(t))
            /\ limit.strategy = "discard" /\ Put(m, "gone")
            /\ stamps' = Recent(t) /\ limitq' = Tail(q)
            /\ UNCHANGED <<wake, passedAt>>
  <2>1. Tail(q) = <<>>
    BY <1>13
  <2>2. place' = [place EXCEPT ![m] = "gone"] /\ place' \in [Messages -> Places]
    BY <1>5, <1>13 DEF Put, Places
  <2>3. LimitTypes'
    BY <1>1, <1>2, <1>3, <1>4, <1>13, <2>2 DEF LimitTypes
  <2>4. CountInv'
    BY <1>1, <1>9, <1>13
  <2> QED BY <1>13, <2>1, <2>2, <2>3, <2>4
<1>14. \/ limit.count <= 0 /\ Pass(m) /\ stamps' = Recent(t) /\ limitq' = Tail(q)
       \/ /\ limit.count > Len(Recent(t)) /\ Pass(m)
          /\ stamps' = Append(Recent(t), t) /\ limitq' = Tail(q)
       \/ /\ 0 < limit.count /\ limit.count <= Len(Recent(t))
          /\ limit.strategy = "stall" /\ Put(m, "asleep")
          /\ wake' = [wake EXCEPT
               ![m] = clock + (Recent(t)[1] + Window - t) + 1]
          /\ stamps' = Recent(t) /\ KeepGate(q) /\ UNCHANGED passedAt
       \/ /\ 0 < limit.count /\ limit.count <= Len(Recent(t))
          /\ limit.strategy = "discard" /\ Put(m, "gone")
          /\ stamps' = Recent(t) /\ limitq' = Tail(q)
          /\ UNCHANGED <<wake, passedAt>>
  BY DEF Round
<1> QED
  BY <1>10, <1>11, <1>12, <1>13, <1>14

(* The queue of the lock after a round, q being the queue during it.       *)
LEMMA RoundGate ==
  ASSUME LimitTypes, NEW m \in Messages, NEW q \in Seq(Messages),
         q # <<>>, Head(q) = m, IsInjective(q),
         ToSet(q) = {n \in Messages : place[n] \in {"queued", "asleep"}} \cup {m},
         \A i \in DOMAIN q : i > 1 => place[q[i]] = "queued",
         NEW p \in {"passed", "asleep", "gone"},
         place' = [place EXCEPT ![m] = p],
         limitq' = IF p = "asleep" THEN q ELSE Tail(q)
  PROVE  GateTypes'
<1>1. \A n \in Messages : place'[n] = IF n = m THEN p ELSE place[n]
  BY DEF LimitTypes
<1>2. /\ Tail(q) \in Seq(Messages) /\ IsInjective(Tail(q))
      /\ ToSet(Tail(q)) = ToSet(q) \ {m}
  BY TailFacts
<1>3. /\ DOMAIN q = 1..Len(q) /\ Len(q) \in Nat \ {0} /\ q[1] = m
      /\ DOMAIN Tail(q) = 1..(Len(q) - 1)
      /\ \A i \in 1..(Len(q) - 1) : Tail(q)[i] = q[i + 1]
      /\ \A i \in 1..Len(q) : q[i] \in Messages
  OBVIOUS
<1>4. \A i \in 1..Len(q) : i > 1 => place'[q[i]] = "queued"
  <2> SUFFICES ASSUME NEW i \in 1..Len(q), i > 1
               PROVE  place'[q[i]] = "queued"
    OBVIOUS
  <2>1. q[i] # m
    <3>1. 1 \in DOMAIN q /\ i \in DOMAIN q /\ i # 1
      BY <1>3
    <3> QED BY <1>3, <3>1 DEF IsInjective
  <2> QED BY <1>1, <1>3, <2>1
<1>5. CASE p = "asleep"
  <2>1. limitq' = q
    BY <1>5
  <2>2. ToSet(q) = {n \in Messages : place'[n] \in {"queued", "asleep"}}
    BY <1>1, <1>5
  <2> QED BY <1>3, <1>4, <2>1, <2>2 DEF GateTypes
<1>6. CASE p # "asleep"
  <2>1. limitq' = Tail(q)
    BY <1>6
  <2>2. ToSet(Tail(q)) = {n \in Messages : place'[n] \in {"queued", "asleep"}}
    BY <1>1, <1>2, <1>6
  <2>3. ASSUME NEW i \in 1..(Len(q) - 1), i > 1
        PROVE  place'[Tail(q)[i]] = "queued"
    <3>1. i + 1 \in 1..Len(q) /\ i + 1 > 1 /\ Tail(q)[i] = q[i + 1]
      BY <1>3
    <3> QED BY <1>4, <3>1
  <2> QED BY <1>2, <1>3, <2>1, <2>2, <2>3 DEF GateTypes
<1> QED BY <1>5, <1>6

LEMMA RoundStep ==
  ASSUME LimitInv, NEW m \in Messages, NEW t \in 0..clock, NEW q,
         \/ limitq = <<>> /\ q = <<m>>
         \/ limitq # <<>> /\ q = limitq /\ Head(q) = m,
         Round(m, t, q), t = clock \/ StampedNow
  PROVE  LimitInv'
<1>1. LimitTypes /\ CountInv
  BY DEF LimitInv
<1>2. /\ q \in Seq(Messages) /\ q # <<>> /\ Head(q) = m /\ IsInjective(q)
      /\ ToSet(q) = {n \in Messages : place[n] \in {"queued", "asleep"}} \cup {m}
      /\ \A i \in DOMAIN q : i > 1 => place[q[i]] = "queued"
  <2>1. CASE limitq = <<>> /\ q = <<m>>
    <3>1. {n \in Messages : place[n] \in {"queued", "asleep"}} = {}
      BY <2>1 DEF LimitInv, GateTypes, ToSet
    <3>2. /\ <<m>> \in Seq(Messages) /\ <<m>> # <<>> /\ Head(<<m>>) = m
          /\ DOMAIN <<m>> = {1} /\ <<m>>[1] = m
      OBVIOUS
    <3>3. IsInjective(<<m>>) /\ ToSet(<<m>>) = {m}
      BY <3>2 DEF IsInjective, ToSet
    <3> QED BY <2>1, <3>1, <3>2, <3>3
  <2>2. CASE limitq # <<>> /\ q = limitq /\ Head(q) = m
    <3>1. q \in Seq(Messages) /\ IsInjective(q)
      BY <2>2 DEF LimitInv, GateTypes
    <3>2. m \in ToSet(q)
      BY <2>2, <3>1 DEF ToSet
    <3> QED BY <2>2, <3>1, <3>2 DEF LimitInv, GateTypes
  <2> QED BY <2>1, <2>2
<1>3. ~(limit.count > 0 /\ limit.strategy = "stall") => Tail(q) = <<>>
  <2>1. Tail(<<m>>) = <<>>
    OBVIOUS
  <2> QED BY <2>1 DEF LimitInv, WaitInv
<1>4. /\ LimitTypes' /\ CountInv'
      /\ \E p \in {"passed", "asleep", "gone"} :
           /\ place' = [place EXCEPT ![m] = p]
           /\ limitq' = IF p = "asleep" THEN q ELSE Tail(q)
           /\ p = "asleep" => limit'.count > 0 /\ limit'.strategy = "stall"
           /\ p # "asleep" /\ Tail(q) # <<>> =>
                limit'.count > 0 /\ limit'.strategy = "stall" /\ StampedNow'
  BY <1>1, <1>2, <1>3, RoundCounts
<1>5. PICK p \in {"passed", "asleep", "gone"} :
        /\ place' = [place EXCEPT ![m] = p]
        /\ limitq' = IF p = "asleep" THEN q ELSE Tail(q)
        /\ p = "asleep" => limit'.count > 0 /\ limit'.strategy = "stall"
        /\ p # "asleep" /\ Tail(q) # <<>> =>
             limit'.count > 0 /\ limit'.strategy = "stall" /\ StampedNow'
  BY <1>4
<1>6. GateTypes'
  BY <1>1, <1>2, <1>5, RoundGate
<1>7. WaitInv'
  <2>1. CASE p = "asleep"
    <3>1. Head(limitq') = m /\ place'[m] = "asleep"
      BY <1>1, <1>2, <1>5, <2>1 DEF LimitTypes
    <3> QED BY <1>5, <2>1, <3>1 DEF WaitInv
  <2>2. CASE p # "asleep"
    BY <1>5, <2>2 DEF WaitInv
  <2> QED BY <2>1, <2>2
<1> QED BY <1>4, <1>6, <1>7 DEF LimitInv

LEMMA ArriveBusyStep ==
  ASSUME LimitInv, NEW m \in Messages, ArriveBusy(m)
  PROVE  LimitInv'
<1>1. /\ place[m] = "away" /\ limitq # <<>> /\ m \notin ToSet(limitq)
      /\ limitq' = Append(limitq, m)
      /\ place' = [place EXCEPT ![m] = "queued"]
      /\ now' = [now EXCEPT ![m] = clock]
      /\ UNCHANGED <<limit, clock, stamps, wake, passedAt>>
  BY DEF ArriveBusy, Gate!Request, Gate!ToSet, ToSet, Put
<1>2. LimitTypes /\ GateTypes /\ CountInv /\ WaitInv
  BY DEF LimitInv
<1>3. \A n \in Messages : place'[n] = IF n = m THEN "queued" ELSE place[n]
  BY <1>1, <1>2 DEF LimitTypes
<1>4. LimitTypes'
  <2>1. place' \in [Messages -> Places]
    BY <1>1, <1>2 DEF LimitTypes, Places
  <2>2. now' \in [Messages -> 0..clock]
    BY <1>1, <1>2 DEF LimitTypes
  <2> QED BY <1>1, <1>2, <2>1, <2>2 DEF LimitTypes
<1>5. /\ limitq \in Seq(Messages) /\ IsInjective(limitq)
      /\ ToSet(limitq) = {n \in Messages : place[n] \in {"queued", "asleep"}}
  BY <1>2 DEF GateTypes
<1>6. /\ limitq' \in Seq(Messages) /\ IsInjective(limitq')
      /\ ToSet(limitq') = ToSet(limitq) \cup {m}
      /\ Head(limitq') = Head(limitq)
  BY <1>1, <1>5, AppendFacts
<1>7. GateTypes'
  <2>1. ToSet(limitq') = {n \in Messages : place'[n] \in {"queued", "asleep"}}
    BY <1>3, <1>5, <1>6
  <2>2. ASSUME NEW i \in DOMAIN limitq', i > 1
        PROVE  place'[limitq'[i]] = "queued"
    <3>1. /\ i \in 1..(Len(limitq) + 1) /\ Len(limitq) \in Nat
          /\ limitq'[i] = IF i \in 1..Len(limitq) THEN limitq[i] ELSE m
      BY <1>1, <1>5
    <3>2. i \in 1..Len(limitq) => limitq[i] \in Messages /\ place[limitq[i]] = "queued"
      BY <1>2, <1>5, <2>2 DEF GateTypes
    <3> QED BY <1>3, <3>1, <3>2
  <2> QED BY <1>6, <2>1, <2>2 DEF GateTypes
<1>8. CountInv'
  BY <1>1, <1>2 DEF CountInv, OpenInv, PassedSince, StampsCover, WindowBound
<1>9. WaitInv'
  <2>1. Head(limitq) \in ToSet(limitq)
    BY <1>1, <1>5 DEF ToSet
  <2>2. place'[Head(limitq')] = place[Head(limitq)]
    BY <1>1, <1>3, <1>5, <1>6, <2>1
  <2> QED BY <1>1, <1>2, <2>2 DEF WaitInv, StampedNow
<1> QED BY <1>4, <1>7, <1>8, <1>9 DEF LimitInv

LEMMA TakeGateStep ==
  ASSUME LimitInv, NEW m \in Messages, TakeGate(m)
  PROVE  LimitInv'
<1>1. place[m] = "queued" /\ limitq # <<>> /\ Head(limitq) = m
  BY DEF TakeGate, Gate!Owns
<1>2. StampedNow
  BY <1>1 DEF LimitInv, WaitInv
<1>3. now[m] \in 0..clock
  BY DEF LimitInv, LimitTypes
<1>4. Round(m, now[m], limitq)
  BY DEF TakeGate
<1> QED BY <1>1, <1>2, <1>3, <1>4, RoundStep

LEMMA WakeUpStep ==
  ASSUME LimitInv, NEW m \in Messages, WakeUp(m)
  PROVE  LimitInv'
<1>1. place[m] = "asleep" /\ Round(m, clock, limitq)
  BY DEF WakeUp
<1>2. limitq # <<>> /\ Head(limitq) = m
  <2>1. m \in ToSet(limitq) /\ limitq \in Seq(Messages)
    BY <1>1 DEF LimitInv, GateTypes
  <2>2. PICK i \in DOMAIN limitq : limitq[i] = m
    BY <2>1 DEF ToSet
  <2>3. ~(i > 1)
    BY <1>1, <2>2 DEF LimitInv, GateTypes
  <2>4. i = 1 /\ limitq # <<>>
    BY <2>1, <2>2, <2>3
  <2> QED BY <2>1, <2>2, <2>4
<1>3. clock \in 0..clock
  BY DEF LimitInv, LimitTypes
<1> QED BY <1>1, <1>2, <1>3, RoundStep

LEMMA ArriveFreeStep ==
  ASSUME LimitInv, NEW m \in Messages, ArriveFree(m)
  PROVE  LimitInv'
<1>1. limitq = <<>> /\ Round(m, clock, <<m>>)
  BY DEF ArriveFree
<1>2. clock \in 0..clock
  BY DEF LimitInv, LimitTypes
<1> QED BY <1>1, <1>2, RoundStep

(* Time passes when nobody waits for a lock that is free.                  *)
LEMMA TickStep ==
  ASSUME LimitInv, Tick
  PROVE  LimitInv'
<1>1. /\ clock' = clock + 1
      /\ UNCHANGED <<limit, place, limitq, now, stamps, wake, passedAt>>
      /\ \A m \in Messages : ~(place[m] = "queued" /\ limitq # <<>> /\ Head(limitq) = m)
  BY DEF Tick, Gate!Owns
<1>2. LimitTypes /\ GateTypes /\ CountInv /\ WaitInv
  BY DEF LimitInv
<1>3. clock \in Nat /\ 0..clock \subseteq 0..clock' /\ -1..clock \subseteq -1..clock'
      /\ clock' \in Nat
  BY <1>1, <1>2 DEF LimitTypes
<1>4. LimitTypes'
  <2>1. now' \in [Messages -> 0..clock'] /\ passedAt' \in [Messages -> -1..clock']
    BY <1>1, <1>2, <1>3 DEF LimitTypes
  <2>2. stamps' \in Seq(0..clock')
    <3>1. ASSUME NEW S, NEW T, S \subseteq T, NEW q \in Seq(S)
          PROVE  q \in Seq(T)
      BY <3>1
    <3>2. stamps \in Seq(0..clock)
      BY <1>2 DEF LimitTypes
    <3> QED BY <1>1, <1>3, <3>1, <3>2
  <2> QED BY <1>1, <1>2, <1>3, <2>1, <2>2 DEF LimitTypes
<1>5. GateTypes'
  BY <1>1, <1>2 DEF GateTypes
<1>6. CountInv'
  <2>1. ASSUME limit.count > 0
        PROVE  OpenInv' /\ Len(stamps') <= limit'.count /\ WindowBound'
    <3>1. OpenInv /\ Len(stamps) <= limit.count /\ WindowBound
      BY <1>2, <2>1 DEF CountInv
    <3>2. \A t \in Nat : clock' <= t + Window => clock <= t + Window
      BY <1>1, <1>2, <1>3, LimitKnown
    <3>3. OpenInv'
      BY <1>1, <3>1, <3>2 DEF OpenInv, PassedSince, StampsCover
    <3>4. WindowBound'
      BY <1>1, <3>1 DEF WindowBound
    <3> QED BY <1>1, <3>1, <3>3, <3>4
  <2> QED BY <1>1, <2>1 DEF CountInv
<1>7. WaitInv'
  <2>1. limitq # <<>> => Head(limitq) \in Messages
    BY <1>2 DEF GateTypes
  <2> QED BY <1>1, <1>2, <2>1 DEF WaitInv
<1> QED BY <1>4, <1>5, <1>6, <1>7 DEF LimitInv

LEMMA LimitInit ==
  ASSUME InitLimit
  PROVE  LimitInv
<1>1. LimitTypes
  BY DEF InitLimit, LimitTypes, Places
<1>2. GateTypes
  BY DEF InitLimit, GateTypes, IsInjective, ToSet
<1>3. \A t \in Nat : PassedSince(t) = {}
  BY DEF InitLimit, PassedSince
<1>4. {passedAt[m] : m \in Messages} \ {-1} = {}
  BY DEF InitLimit
<1>5. CountInv
  BY <1>1, <1>3, <1>4, LimitKnown DEF CountInv, OpenInv, WindowBound, InitLimit
<1>6. WaitInv
  BY DEF WaitInv, InitLimit
<1> QED BY <1>1, <1>2, <1>5, <1>6 DEF LimitInv

LEMMA LimitFrame ==
  ASSUME LimitInv, UNCHANGED limitVars
  PROVE  LimitInv'
BY DEF limitVars, LimitInv, LimitTypes, GateTypes, CountInv, WaitInv, OpenInv,
       PassedSince, StampsCover, WindowBound, StampedNow

LEMMA LimitNext ==
  ASSUME LimitInv, [PathNext]_pathVars
  PROVE  LimitInv'
<1>1. CASE UNCHANGED pathVars
  BY <1>1, LimitFrame DEF pathVars
<1>2. CASE TimePasses
  BY <1>2, TickStep DEF TimePasses
<1>3. ASSUME NEW m \in Messages, Arrive(m)
      PROVE  LimitInv'
  BY <1>3, ArriveFreeStep, ArriveBusyStep DEF Arrive
<1>4. ASSUME NEW m \in Messages, InLimiter(m)
      PROVE  LimitInv'
  BY <1>4, TakeGateStep, WakeUpStep DEF InLimiter
<1>5. ASSUME NEW m \in Messages,
             InHandlers(m) \/ AskAgent(m) \/ Admit(m) \/ AgentEnds(m) \/ GiveUp(m)
      PROVE  LimitInv'
  BY <1>5, LimitFrame DEF InHandlers, AskAgent, Admit, AgentEnds, GiveUp
<1> QED BY <1>1, <1>2, <1>3, <1>4, <1>5 DEF PathNext

LEMMA LimitInvariance == PathSpec => []LimitInv
<1>1. PathInit => LimitInv
  BY LimitInit DEF PathInit
<1>2. LimitInv /\ [PathNext]_pathVars => LimitInv'
  BY LimitNext
<1> QED BY <1>1, <1>2, PTL DEF PathSpec
-----------------------------------------------------------------------------
(* The waiters.                                                            *)

(* A message that is somewhere is an event, and one that the handlers have *)
(* seen has passed the limiter.                                            *)
EventInv ==
  /\ event \in [Events -> Shapes \cup {NoEvent}]
  /\ \A m \in Events :
       /\ place[m] # "away" => event[m] # NoEvent
       /\ step[m] # "idle" => place[m] = "passed"

(* Which parts of a message go together: only an opener has a future and   *)
(* timers, a message is handed to somebody who has been a waiter, and a    *)
(* message under the session lock is with its agent.                       *)
CallInv ==
  /\ pc \in [Events -> {"idle", "waiting", "holding"}]
  /\ \A m \in Events :
       /\ step[m] \in {"queued", "handling"} =>
            at[m] \in Events /\ future[at[m]] # "none"
       /\ timers[m] # {} => future[m] # "none"
       /\ future[m] # "none" => step[m] \in {"waiting", "over"}
       /\ pc[m] # "idle" => step[m] = "agent"

Handed(m) == step[m] \in {"queued", "handling"}

(* The lock of a waiter is held by the message in its handler; whom a      *)
(* message is handed to has it in the queue of his lock, once.             *)
TurnInv ==
  /\ \A w \in Events :
       /\ IsInjective(turnq[w])
       /\ \A m \in Events : m \in ToSet(turnq[w]) <=> Handed(m) /\ at[m] = w
  /\ \A m \in Events : step[m] = "handling" =>
       turnq[at[m]] # <<>> /\ Head(turnq[at[m]]) = m

WaitersInv ==
  /\ WaiterTypeOK /\ EventInv /\ CallInv /\ TurnInv
  /\ EntriesMatchWaiters

LEMMA IdType ==
  ASSUME NEW a \in Shapes, NEW b \in Shapes
  PROVE  a[b.by] \in Ids
<1>1. a.umo \in Ids /\ a.sender \in Ids /\ b.by \in {"umo", "sender"}
  BY DEF Shapes
<1> QED BY <1>1

LEMMA SeenIsShape ==
  ASSUME EventInv, NEW m \in Events, step[m] # "idle" \/ place[m] # "away"
  PROVE  event[m] \in Shapes
BY DEF EventInv

LEMMA OwnIdType ==
  ASSUME EventInv, NEW m \in Events, step[m] # "idle"
  PROVE  OwnId(m) \in Ids
BY SeenIsShape, IdType DEF OwnId, IdUnder

(* Where the loop over FILTERS takes a message: out, or into the queue of  *)
(* an open waiter.                                                         *)
Walked(m, queues) ==
  /\ step' \in [Events -> Steps] /\ pos' \in [Events -> Nat]
  /\ at' \in [Events -> Events \cup {Nobody}]
  /\ turnq' \in [Events -> Seq(Events)]
  /\ \A n \in Events \ {m} : step'[n] = step[n] /\ at'[n] = at[n]
  /\ step'[m] \in {"over", "free", "handling", "queued"}
  /\ \A v \in Events : turnq'[v] = IF Handed(m)' /\ v = at'[m]
                                   THEN Append(queues[v], m) ELSE queues[v]
  /\ Handed(m)' => at'[m] \in Events /\ future'[at'[m]] = "open"
  /\ step'[m] = "handling" => queues[at'[m]] = <<>>

LEMMA WalkFacts ==
  ASSUME WaiterTypeOK, EventInv, ToSet(filters) = WaitingOpeners,
         NEW m \in Events, event[m] \in Shapes, NEW i \in Nat, i > 0,
         NEW stopped \in BOOLEAN, NEW queues \in [Events -> Seq(Events)],
         Walk(m, i, stopped, queues)
  PROVE  Walked(m, queues)
<1> DEFINE hits == {j \in i..Len(filters) : Registered(j, m) # Nobody}
           open == {j \in hits : future'[Registered(j, m)] = "open"}
<1>1. /\ filters \in Seq(Events) /\ entry \in [Ids -> Events \cup {Nobody}]
      /\ step \in [Events -> Steps] /\ pos \in [Events -> Nat]
      /\ at \in [Events -> Events \cup {Nobody}]
  BY DEF WaiterTypeOK
<1>2. \A j \in i..Len(filters) : Registered(j, m) \in Events \cup {Nobody}
  <2> SUFFICES ASSUME NEW j \in i..Len(filters)
               PROVE  Registered(j, m) \in Events \cup {Nobody}
    OBVIOUS
  <2>1. j \in DOMAIN filters /\ filters[j] \in Events
    BY <1>1
  <2>2. filters[j] \in WaitingOpeners
    BY <2>1 DEF ToSet
  <2>3. event[filters[j]] \in Shapes
    BY <2>1, <2>2, SeenIsShape DEF WaitingOpeners
  <2>4. IdUnder(filters[j], m) \in Ids
    BY <2>3, IdType DEF IdUnder
  <2> QED BY <1>1, <2>4 DEF Registered
<1>3. open \in SUBSET Nat /\ open \subseteq hits /\ hits \subseteq i..Len(filters)
  BY <1>1
<1>4. CASE open = {}
  <2>1. /\ step' = [step EXCEPT ![m] = IF stopped \/ hits # {} THEN "over" ELSE "free"]
        /\ turnq' = queues
        /\ at' = [at EXCEPT ![m] = Nobody]
        /\ pos' = [pos EXCEPT ![m] = 0]
    BY <1>4 DEF Walk, Goto
  <2> HIDE DEF hits, open
  <2>2. /\ step' \in [Events -> Steps]
        /\ \A n \in Events \ {m} : step'[n] = step[n]
        /\ step'[m] \in {"over", "free"}
    BY <1>1, <2>1 DEF Steps
  <2>3. /\ at' \in [Events -> Events \cup {Nobody}] /\ pos' \in [Events -> Nat]
        /\ \A n \in Events \ {m} : at'[n] = at[n]
    BY <1>1, <2>1
  <2> QED BY <2>1, <2>2, <2>3 DEF Handed, Walked
<1>5. CASE open # {}
  <2> DEFINE w == Registered(Min(open), m)
  <2>1. Min(open) \in open
    <3> HIDE DEF open
    <3> QED BY <1>3, <1>5, MinFacts
  <2>2. /\ step' = [step EXCEPT ![m] = IF queues[w] = <<>> THEN "handling" ELSE "queued"]
        /\ turnq' = [queues EXCEPT ![w] = Append(@, m)]
        /\ at' = [at EXCEPT ![m] = w]
        /\ pos' = [pos EXCEPT ![m] = Min(open)]
    BY <1>5 DEF Walk, Goto
  <2>3. w \in Events /\ future'[w] = "open" /\ Min(open) \in Nat
    <3>1. \A j \in open : /\ j \in i..Len(filters) /\ Registered(j, m) # Nobody
                          /\ future'[Registered(j, m)] = "open"
      OBVIOUS
    <3> HIDE DEF open, hits
    <3> QED BY <1>2, <1>3, <2>1, <3>1
  <2> HIDE DEF w, hits, open
  <2>4. /\ step' \in [Events -> Steps]
        /\ \A n \in Events \ {m} : step'[n] = step[n]
        /\ step'[m] \in {"handling", "queued"}
        /\ step'[m] = "handling" => queues[w] = <<>>
    BY <1>1, <2>2 DEF Steps
  <2>5. /\ at' \in [Events -> Events \cup {Nobody}] /\ pos' \in [Events -> Nat]
        /\ \A n \in Events \ {m} : at'[n] = at[n]
        /\ at'[m] = w
    BY <1>1, <2>2, <2>3
  <2>6. /\ turnq' \in [Events -> Seq(Events)]
        /\ \A v \in Events : turnq'[v] = IF v = w THEN Append(queues[v], m)
                                                 ELSE queues[v]
    BY <2>2, <2>3
  <2> QED BY <2>3, <2>4, <2>5, <2>6 DEF Handed, Walked
<1> QED BY <1>4, <1>5

(* What becomes of the entries when nobody begins or ends to wait, and     *)
(* events only come into being.                                            *)
LEMMA EntriesKept ==
  ASSUME EventInv, CallInv, EntriesMatchWaiters,
         WaitingOpeners' = WaitingOpeners, UNCHANGED <<filters, entry>>,
         \A n \in Events : event[n] # NoEvent => event'[n] = event[n],
         \A n \in Events : future'[n] = "none" <=> future[n] = "none"
  PROVE  EntriesMatchWaiters'
<1>1. \A n \in Events : n \in WaitingOpeners \/ future[n] # "none" =>
        event'[n] = event[n]
  BY DEF EventInv, CallInv, WaitingOpeners
<1>2. \A n \in Events : n \in WaitingOpeners \/ future[n] # "none" =>
        OwnId(n)' = OwnId(n)
  BY <1>1 DEF OwnId, IdUnder
<1>3. WaitingOpeners \subseteq Events
  BY DEF WaitingOpeners
<1>4. \A i \in Ids : entry[i] # Nobody =>
        entry[i] \in WaitingOpeners /\ OwnId(entry[i]) = i
  BY DEF EntriesMatchWaiters
<1>5. \A i \in Ids : entry'[i] # Nobody =>
        entry'[i] \in WaitingOpeners' /\ OwnId(entry[i])' = i
  BY <1>2, <1>3, <1>4
<1>6. IsInjective(filters') /\ ToSet(filters') = WaitingOpeners'
  BY DEF EntriesMatchWaiters
<1>7. ASSUME NEW m \in WaitingOpeners,
             \A o \in Events \ {m} : future'[o] # "none" => OwnId(o)' # OwnId(m)'
      PROVE  entry'[OwnId(m)'] = m
  <2>1. \A o \in Events \ {m} : future[o] # "none" => OwnId(o) # OwnId(m)
    BY <1>2, <1>3, <1>7
  <2> QED BY <1>2, <1>3, <1>7, <2>1 DEF EntriesMatchWaiters
<1> QED BY <1>5, <1>6, <1>7 DEF EntriesMatchWaiters

(* The queues of the waiters' locks without m.                             *)
FreeOf(m, queues) ==
  /\ \A w \in Events : IsInjective(queues[w])
  /\ \A w \in Events : \A n \in Events :
       n \in ToSet(queues[w]) <=> n # m /\ Handed(n) /\ at[n] = w
  /\ \A n \in Events \ {m} : step[n] = "handling" =>
       queues[at[n]] # <<>> /\ Head(queues[at[n]]) = n

(* What the handlers leave as it is while they hand messages to waiters.   *)
OpenersKept ==
  /\ UNCHANGED <<filters, entry, pc, place>>
  /\ event' \in [Events -> Shapes \cup {NoEvent}]
  /\ \A n \in Events : event[n] # NoEvent => event'[n] = event[n]
  /\ future' \in [Events -> {"none", "open", "done"}]
  /\ \A n \in Events : future'[n] = "none" <=> future[n] = "none"
  /\ timers' \in [Events -> SUBSET {"running", "fired"}]
  /\ \A n \in Events : timers'[n] # {} => future[n] # "none"

(* The loop over FILTERS, once m has left the queues: it ends, or puts m   *)
(* into the queue of an open waiter.                                       *)
LEMMA WalkStep ==
  ASSUME WaitersInv, NEW m \in Events, place[m] = "passed",
         step[m] \in {"idle", "queued", "handling"},
         NEW i \in Nat, i > 0, NEW stopped \in BOOLEAN,
         NEW queues \in [Events -> Seq(Events)],
         FreeOf(m, queues), Walk(m, i, stopped, queues), OpenersKept
  PROVE  WaitersInv'
<1>1. WaiterTypeOK /\ EventInv /\ CallInv /\ TurnInv /\ EntriesMatchWaiters
  BY DEF WaitersInv
<1>2. event[m] \in Shapes
  BY <1>1, SeenIsShape
<1>3. ToSet(filters) = WaitingOpeners
  BY <1>1 DEF EntriesMatchWaiters
<1>4. Walked(m, queues)
  BY <1>1, <1>2, <1>3, WalkFacts
<1> USE DEF FreeOf, OpenersKept, Walked
<1>5. \A v \in Events : m \notin ToSet(queues[v])
  OBVIOUS
<1>6. WaiterTypeOK'
  BY <1>1, <1>4 DEF WaiterTypeOK
<1>7. EventInv'
  <2>1. ASSUME NEW n \in Events
        PROVE  /\ place'[n] # "away" => event'[n] # NoEvent
               /\ step'[n] # "idle" => place'[n] = "passed"
    <3>1. step'[n] # "idle" => n = m \/ step[n] # "idle"
      BY <1>4
    <3> QED BY <1>1, <3>1 DEF EventInv
  <2> QED BY <2>1 DEF EventInv
<1>8. CallInv'
  <2>1. pc[m] = "idle" /\ future[m] = "none"
    BY <1>1 DEF CallInv
  <2>2. ASSUME NEW n \in Events \ {m}
        PROVE  /\ step'[n] \in {"queued", "handling"} =>
                    at'[n] \in Events /\ future'[at'[n]] # "none"
               /\ timers'[n] # {} => future'[n] # "none"
               /\ future'[n] # "none" => step'[n] \in {"waiting", "over"}
               /\ pc'[n] # "idle" => step'[n] = "agent"
    <3>1. step'[n] = step[n] /\ at'[n] = at[n] /\ pc'[n] = pc[n]
      BY <1>4
    <3>2. step[n] \in {"queued", "handling"} =>
            at[n] \in Events /\ future'[at[n]] # "none"
      BY <1>1 DEF CallInv
    <3>3. /\ timers'[n] # {} => future'[n] # "none"
          /\ future'[n] # "none" => step[n] \in {"waiting", "over"}
          /\ pc[n] # "idle" => step[n] = "agent"
      BY <1>1 DEF CallInv
    <3> QED BY <3>1, <3>2, <3>3
  <2>3. /\ step'[m] \in {"queued", "handling"} =>
             at'[m] \in Events /\ future'[at'[m]] # "none"
        /\ timers'[m] # {} => future'[m] # "none"
        /\ future'[m] = "none" /\ pc'[m] = "idle"
    <3>1. step'[m] \in {"queued", "handling"} =>
            at'[m] \in Events /\ future'[at'[m]] = "open"
      BY <1>4 DEF Handed
    <3> QED BY <2>1, <3>1
  <2>4. pc' \in [Events -> {"idle", "waiting", "holding"}]
    BY <1>1 DEF CallInv
  <2> QED BY <2>2, <2>3, <2>4 DEF CallInv
<1>9. ASSUME NEW v \in Events
      PROVE  /\ IsInjective(turnq'[v])
             /\ \A n \in Events : n \in ToSet(turnq'[v]) <=> Handed(n)' /\ at'[n] = v
  <2>1. \A n \in Events \ {m} : Handed(n)' /\ at'[n] = v <=> Handed(n) /\ at[n] = v
    BY <1>4 DEF Handed
  <2>2. CASE Handed(m)' /\ v = at'[m]
    <3>1. turnq'[v] = Append(queues[v], m)
      BY <1>4, <2>2
    <3>2. IsInjective(turnq'[v]) /\ ToSet(turnq'[v]) = ToSet(queues[v]) \cup {m}
      BY <1>5, <3>1, AppendFacts
    <3> QED BY <2>1, <2>2, <3>2
  <2>3. CASE ~(Handed(m)' /\ v = at'[m])
    <3>1. turnq'[v] = queues[v]
      BY <1>4, <2>3
    <3> QED BY <2>1, <2>3, <3>1
  <2> QED BY <2>2, <2>3
<1>10. ASSUME NEW n \in Events, step'[n] = "handling"
       PROVE  turnq'[at'[n]] # <<>> /\ Head(turnq'[at'[n]]) = n
  <2>1. CASE n = m
    <3>1. Handed(m)' /\ at'[m] \in Events /\ queues[at'[m]] = <<>>
      BY <1>4, <1>10, <2>1 DEF Handed
    <3>2. turnq'[at'[m]] = Append(queues[at'[m]], m)
      BY <1>4, <3>1
    <3> QED BY <1>5, <2>1, <3>1, <3>2, AppendFacts
  <2>2. CASE n # m
    <3>1. step[n] = "handling" /\ at'[n] = at[n]
      BY <1>4, <1>10, <2>2
    <3>2. at[n] \in Events
      BY <1>1, <3>1 DEF CallInv
    <3>3. queues[at[n]] \in Seq(Events) /\ queues[at[n]] # <<>>
          /\ Head(queues[at[n]]) = n
      BY <2>2, <3>1, <3>2
    <3>4. /\ Append(queues[at[n]], m) # <<>>
          /\ Head(Append(queues[at[n]], m)) = n
      <4> DEFINE q == queues[at[n]]
      <4>1. q \in Seq(Events) /\ IsInjective(q) /\ m \notin ToSet(q)
            /\ q # <<>> /\ Head(q) = n
        BY <1>5, <3>2, <3>3
      <4> HIDE DEF q
      <4>2. Append(q, m) # <<>> /\ Head(Append(q, m)) = n
        BY <4>1, AppendFacts
      <4> QED BY <4>2 DEF q
    <3>5. turnq'[at[n]] \in {queues[at[n]], Append(queues[at[n]], m)}
      BY <1>4, <3>2
    <3> QED BY <3>1, <3>3, <3>4, <3>5
  <2> QED BY <2>1, <2>2
<1>11. TurnInv'
  BY <1>9, <1>10 DEF TurnInv
<1>12. EntriesMatchWaiters'
  <2>1. WaitingOpeners' = WaitingOpeners
    BY <1>4 DEF WaitingOpeners
  <2> QED BY <1>1, <2>1, EntriesKept
<1> QED BY <1>6, <1>7, <1>8, <1>11, <1>12 DEF WaitersInv

(* The message at the head of its waiter's lock gives it back.             *)
LEMMA GoOnStep ==
  ASSUME WaitersInv, NEW m \in Events,
         step[m] \in {"queued", "handling"}, Head(turnq[at[m]]) = m,
         GoOn(m), OpenersKept
  PROVE  WaitersInv'
<1> DEFINE queues == [turnq EXCEPT ![at[m]] = Tail(@)]
<1>1. WaiterTypeOK /\ EventInv /\ CallInv /\ TurnInv
  BY DEF WaitersInv
<1>2. /\ at[m] \in Events /\ m \in ToSet(turnq[at[m]]) /\ place[m] = "passed"
      /\ turnq \in [Events -> Seq(Events)] /\ pos[m] \in Nat
      /\ IsInjective(turnq[at[m]])
  BY <1>1 DEF CallInv, TurnInv, Handed, EventInv, WaiterTypeOK
<1>3. turnq[at[m]] \in Seq(Events) /\ turnq[at[m]] # <<>>
  BY <1>2 DEF ToSet
<1>4. /\ Tail(turnq[at[m]]) \in Seq(Events) /\ IsInjective(Tail(turnq[at[m]]))
      /\ ToSet(Tail(turnq[at[m]])) = ToSet(turnq[at[m]]) \ {m}
  BY <1>2, <1>3, TailFacts
<1>5. /\ queues \in [Events -> Seq(Events)]
      /\ \A w \in Events : queues[w] = IF w = at[m] THEN Tail(turnq[w]) ELSE turnq[w]
  BY <1>2, <1>4
<1>6. Walk(m, pos[m] + 1, TRUE, queues)
  BY DEF GoOn
<1> HIDE DEF queues
<1>7. ASSUME NEW w \in Events
      PROVE  IsInjective(queues[w])
  <2>1. CASE w = at[m]
    <3>1. queues[w] = Tail(turnq[at[m]])
      BY <1>5, <2>1
    <3> QED BY <1>4, <3>1
  <2>2. CASE w # at[m]
    <3>1. queues[w] = turnq[w]
      BY <1>5, <2>2
    <3> QED BY <1>1, <3>1 DEF TurnInv
  <2> QED BY <2>1, <2>2
<1>8. \A w \in Events : \A n \in Events :
        n \in ToSet(queues[w]) <=> n # m /\ Handed(n) /\ at[n] = w
  <2> SUFFICES ASSUME NEW w \in Events, NEW n \in Events
               PROVE  n \in ToSet(queues[w]) <=> n # m /\ Handed(n) /\ at[n] = w
    OBVIOUS
  <2>1. n \in ToSet(turnq[w]) <=> Handed(n) /\ at[n] = w
    BY <1>1 DEF TurnInv
  <2>2. CASE w = at[m]
    <3>1. queues[w] = Tail(turnq[at[m]])
      BY <1>5, <2>2
    <3>2. n \in ToSet(queues[w]) <=> n \in ToSet(turnq[w]) /\ n # m
      BY <1>4, <2>2, <3>1
    <3> QED BY <2>1, <3>2
  <2>3. CASE w # at[m]
    <3>1. queues[w] = turnq[w]
      BY <1>5, <2>3
    <3>2. n = m => at[n] # w
      BY <2>3
    <3> QED BY <2>1, <3>1, <3>2
  <2> QED BY <2>2, <2>3
<1>9. ASSUME NEW n \in Events \ {m}, step[n] = "handling"
      PROVE  queues[at[n]] # <<>> /\ Head(queues[at[n]]) = n
  <2>1. at[n] \in Events /\ turnq[at[n]] # <<>> /\ Head(turnq[at[n]]) = n
    BY <1>1, <1>9 DEF TurnInv, CallInv
  <2>2. at[n] # at[m]
    BY <1>9, <2>1
  <2> QED BY <1>5, <2>1, <2>2
<1>10. FreeOf(m, queues)
  BY <1>7, <1>8, <1>9 DEF FreeOf
<1>11. pos[m] + 1 \in Nat /\ pos[m] + 1 > 0
  BY <1>2
<1> QED BY <1>2, <1>5, <1>6, <1>10, <1>11, WalkStep

LEMMA HearStep ==
  ASSUME WaitersInv, NEW m \in Events, place[m] = "passed", Hear(m),
         UNCHANGED <<pc, place>>
  PROVE  WaitersInv'
<1>1. /\ step[m] = "idle" /\ UNCHANGED <<event, filters, entry, future, timers>>
      /\ Walk(m, 1, FALSE, turnq)
  BY DEF Hear
<1>2. WaiterTypeOK /\ EventInv /\ CallInv /\ TurnInv
  BY DEF WaitersInv
<1>3. turnq \in [Events -> Seq(Events)]
  BY <1>2 DEF WaiterTypeOK
<1>4. OpenersKept
  BY <1>1, <1>2 DEF OpenersKept, WaiterTypeOK, EventInv, CallInv
<1>5. FreeOf(m, turnq)
  <2>1. \A n \in Events : Handed(n) => n # m
    BY <1>1 DEF Handed
  <2> QED BY <1>2, <2>1 DEF FreeOf, TurnInv
<1>6. step[m] \in {"idle", "queued", "handling"} /\ 1 \in Nat /\ 1 > 0
  BY <1>1
<1> QED BY <1>1, <1>3, <1>4, <1>5, <1>6, WalkStep

LEMMA TakeTurnStep ==
  ASSUME WaitersInv, NEW m \in Events, TakeTurn(m), UNCHANGED <<pc, place>>
  PROVE  WaitersInv'
<1>1. /\ step[m] = "queued" /\ Head(turnq[at[m]]) = m
      /\ UNCHANGED <<event, filters, entry, future, timers>>
  BY DEF TakeTurn
<1>2. WaiterTypeOK /\ EventInv /\ CallInv /\ TurnInv /\ EntriesMatchWaiters
  BY DEF WaitersInv
<1>3. OpenersKept
  BY <1>1, <1>2 DEF OpenersKept, WaiterTypeOK, EventInv, CallInv
<1>4. CASE GoOn(m)
  BY <1>1, <1>3, <1>4, GoOnStep
<1>5. CASE Goto(m, "handling") /\ UNCHANGED <<turnq, at, pos>>
  <2>1. /\ step' \in [Events -> Steps] /\ step'[m] = "handling"
        /\ \A n \in Events \ {m} : step'[n] = step[n]
    BY <1>2, <1>5 DEF Goto, WaiterTypeOK, Steps
  <2>2. \A n \in Events : Handed(n)' <=> Handed(n)
    BY <1>1, <2>1 DEF Handed
  <2>3. WaiterTypeOK'
    BY <1>1, <1>2, <1>5, <2>1 DEF WaiterTypeOK
  <2>4. EventInv'
    BY <1>1, <1>2, <2>1 DEF EventInv
  <2>5. CallInv'
    BY <1>1, <1>2, <1>5, <2>1 DEF CallInv
  <2>6. TurnInv'
    <3>1. ASSUME NEW n \in Events, step'[n] = "handling"
          PROVE  turnq'[at'[n]] # <<>> /\ Head(turnq'[at'[n]]) = n
      <4>1. CASE n = m
        <5>1. m \in ToSet(turnq[at[m]])
          BY <1>1, <1>2 DEF TurnInv, CallInv, Handed
        <5> QED BY <1>1, <1>5, <4>1, <5>1 DEF ToSet
      <4>2. CASE n # m
        BY <1>2, <1>5, <2>1, <3>1, <4>2 DEF TurnInv
      <4> QED BY <4>1, <4>2
    <3> QED BY <1>2, <1>5, <2>2, <3>1 DEF TurnInv
  <2>7. EntriesMatchWaiters'
    <3>1. WaitingOpeners' = WaitingOpeners
      BY <1>1, <2>1 DEF WaitingOpeners
    <3> QED BY <1>1, <1>2, <3>1, EntriesKept
  <2> QED BY <2>3, <2>4, <2>5, <2>6, <2>7 DEF WaitersInv
<1> QED BY <1>4, <1>5 DEF TakeTurn

(* A handler that returns: the message is at the head of its waiter's      *)
(* lock.                                                                   *)
LEMMA HandleStep ==
  ASSUME WaitersInv, NEW m \in Events, Handle(m), UNCHANGED <<pc, place>>
  PROVE  WaitersInv'
<1>1. /\ step[m] = "handling" /\ GoOn(m) /\ UNCHANGED <<filters, entry>>
  BY DEF Handle, Ignore, Keep, Stop, Requeue, ByPlugin
<1>2. WaiterTypeOK /\ EventInv /\ CallInv /\ TurnInv
  BY DEF WaitersInv
<1>3. /\ at[m] \in Events /\ future[at[m]] # "none"
      /\ Head(turnq[at[m]]) = m /\ event[m] # NoEvent
  BY <1>1, <1>2 DEF TurnInv, CallInv, EventInv
<1>4. /\ event \in [Events -> Shapes \cup {NoEvent}]
      /\ future \in [Events -> {"none", "open", "done"}]
      /\ timers \in [Events -> SUBSET {"running", "fired"}]
      /\ \A n \in Events : timers[n] # {} => future[n] # "none"
  BY <1>2 DEF WaiterTypeOK, EventInv, CallInv
<1>5. \/ UNCHANGED event
      \/ \E n \in Events : event[n] = NoEvent /\ event' = [event EXCEPT ![n] = event[m]]
  BY WaiterAssumption DEF Handle, Ignore, Keep, Stop, Requeue
<1>6. UNCHANGED future \/ future' = [future EXCEPT ![at[m]] = "done"]
  BY DEF Handle, Ignore, Keep, Stop, Requeue
<1>7. UNCHANGED timers \/ timers' = [timers EXCEPT ![at[m]] = @ \cup {"running"}]
  BY DEF Handle, Ignore, Keep, Stop, Requeue
<1>8. /\ event' \in [Events -> Shapes \cup {NoEvent}]
      /\ \A n \in Events : event[n] # NoEvent => event'[n] = event[n]
  BY <1>3, <1>4, <1>5
<1>9. /\ future' \in [Events -> {"none", "open", "done"}]
      /\ \A n \in Events : future'[n] = "none" <=> future[n] = "none"
  BY <1>3, <1>4, <1>6
<1>10. /\ timers' \in [Events -> SUBSET {"running", "fired"}]
       /\ \A n \in Events : timers'[n] # {} => future[n] # "none"
  BY <1>3, <1>4, <1>7
<1>11. OpenersKept
  BY <1>1, <1>8, <1>9, <1>10 DEF OpenersKept
<1> QED BY <1>1, <1>3, <1>11, GoOnStep

(* A timer ends, and the wait with it.                                     *)
LEMMA ElapseStep ==
  ASSUME WaitersInv, NEW m \in Events, Elapse(m), UNCHANGED <<pc, place>>
  PROVE  WaitersInv'
<1>1. WaiterTypeOK /\ EventInv /\ CallInv /\ TurnInv /\ EntriesMatchWaiters
  BY DEF WaitersInv
<1>2. /\ UNCHANGED <<event, step, filters, entry, turnq, at, pos>>
      /\ timers[m] # {}
      /\ UNCHANGED future \/ future' = [future EXCEPT ![m] = "done"]
      /\ \/ timers' = [timers EXCEPT ![m] = (@ \ {"running"}) \cup {"fired"}]
         \/ timers' = [timers EXCEPT ![m] = @ \ {"fired"}]
  BY DEF Elapse, Fire, Expire
<1>3. /\ future \in [Events -> {"none", "open", "done"}]
      /\ timers \in [Events -> SUBSET {"running", "fired"}]
      /\ future[m] # "none"
      /\ \A n \in Events : timers[n] # {} => future[n] # "none"
  BY <1>1, <1>2 DEF WaiterTypeOK, CallInv
<1>4. /\ future' \in [Events -> {"none", "open", "done"}]
      /\ \A n \in Events : future'[n] = "none" <=> future[n] = "none"
  BY <1>2, <1>3
<1>5. /\ timers' \in [Events -> SUBSET {"running", "fired"}]
      /\ \A n \in Events : timers'[n] # {} => future[n] # "none"
  BY <1>2, <1>3
<1>6. WaiterTypeOK'
  BY <1>1, <1>2, <1>4, <1>5 DEF WaiterTypeOK
<1>7. EventInv'
  BY <1>1, <1>2 DEF EventInv
<1>8. CallInv'
  BY <1>1, <1>2, <1>4, <1>5 DEF CallInv
<1>9. TurnInv'
  BY <1>1, <1>2 DEF TurnInv, Handed
<1>10. EntriesMatchWaiters'
  <2>1. WaitingOpeners' = WaitingOpeners
    BY <1>2 DEF WaitingOpeners
  <2> QED BY <1>1, <1>2, <1>4, <2>1, EntriesKept
<1> QED BY <1>6, <1>7, <1>8, <1>9, <1>10 DEF WaitersInv

(* What is in FILTERS once an opener took his filter out.                  *)
LEMMA FilterFacts ==
  ASSUME filters \in Seq(Events), IsInjective(filters), NEW m \in Events
  PROVE  /\ WithoutFilter(m) \in Seq(Events)
         /\ IsInjective(WithoutFilter(m))
         /\ ToSet(WithoutFilter(m)) = ToSet(filters) \ {m}
<1>1. CASE m \notin ToSet(filters)
  BY <1>1 DEF WithoutFilter
<1>2. CASE m \in ToSet(filters)
  <2> DEFINE i == CHOOSE i \in DOMAIN filters : filters[i] = m
             L == Len(filters)
             q == WithoutFilter(m)
  <2>1. i \in 1..L /\ filters[i] = m /\ L \in Nat /\ DOMAIN filters = 1..L
    BY <1>2 DEF ToSet
  <2>2. q = RemoveAt(filters, i)
    BY <1>2 DEF WithoutFilter
  <2> HIDE DEF i, q
  <2>3. /\ q \in Seq(Events) /\ Len(q) = L - 1
        /\ \A j \in 1..(L - 1) : q[j] = filters[IF j < i THEN j ELSE j + 1]
    BY <2>1, <2>2, RemoveAtProperties
  <2>4. DOMAIN q = 1..(L - 1)
    BY <2>1, <2>3
  <2>5. \A a, b \in 1..L : filters[a] = filters[b] => a = b
    BY <2>1 DEF IsInjective
  <2>6. IsInjective(q)
    <3> SUFFICES ASSUME NEW a \in 1..(L - 1), NEW b \in 1..(L - 1), q[a] = q[b]
                 PROVE  a = b
      BY <2>4 DEF IsInjective
    <3>1. /\ (IF a < i THEN a ELSE a + 1) \in 1..L
          /\ (IF b < i THEN b ELSE b + 1) \in 1..L
      BY <2>1
    <3>2. (IF a < i THEN a ELSE a + 1) = (IF b < i THEN b ELSE b + 1)
      BY <2>3, <2>5, <3>1
    <3> QED BY <2>1, <3>2
  <2>7. ToSet(q) \subseteq ToSet(filters) \ {m}
    <3> SUFFICES ASSUME NEW j \in 1..(L - 1)
                 PROVE  q[j] \in ToSet(filters) /\ q[j] # m
      BY <2>4 DEF ToSet
    <3> DEFINE k == IF j < i THEN j ELSE j + 1
    <3>1. k \in 1..L /\ k # i /\ q[j] = filters[k]
      BY <2>1, <2>3
    <3> HIDE DEF k
    <3>2. filters[k] # m
      BY <2>1, <2>5, <3>1
    <3> QED BY <2>1, <3>1, <3>2 DEF ToSet
  <2>8. ToSet(filters) \ {m} \subseteq ToSet(q)
    <3> SUFFICES ASSUME NEW k \in 1..L, filters[k] # m
                 PROVE  filters[k] \in ToSet(q)
      BY <2>1 DEF ToSet
    <3> DEFINE j == IF k < i THEN k ELSE k - 1
    <3>1. k # i
      BY <2>1
    <3>2. j \in 1..(L - 1) /\ (IF j < i THEN j ELSE j + 1) = k
      BY <2>1, <3>1
    <3> HIDE DEF j
    <3>3. q[j] = filters[k]
      BY <2>3, <3>2
    <3> QED BY <2>4, <3>2, <3>3 DEF ToSet
  <2> QED BY <2>3, <2>6, <2>7, <2>8 DEF q
<1> QED BY <1>1, <1>2

(* A message begins to wait, with a filter and an entry of its own.        *)
LEMMA RegisterStep ==
  ASSUME WaitersInv, NEW m \in Events, Register(m), UNCHANGED <<pc, place>>
  PROVE  WaitersInv'
<1>1. WaiterTypeOK /\ EventInv /\ CallInv /\ TurnInv /\ EntriesMatchWaiters
  BY DEF WaitersInv
<1>2. /\ step[m] \in {"free", "opening"}
      /\ filters' = Append(filters, m)
      /\ entry' = [entry EXCEPT ![OwnId(m)] = m]
      /\ future' = [future EXCEPT ![m] = "open"]
      /\ timers' = [timers EXCEPT ![m] = {"running"}]
      /\ step' = [step EXCEPT ![m] = "waiting"]
      /\ UNCHANGED <<event, turnq, at, pos>>
  BY DEF Register, Goto
<1>3. /\ step \in [Events -> Steps] /\ filters \in Seq(Events)
      /\ entry \in [Ids -> Events \cup {Nobody}]
      /\ future \in [Events -> {"none", "open", "done"}]
      /\ timers \in [Events -> SUBSET {"running", "fired"}]
  BY <1>1 DEF WaiterTypeOK
<1>4. OwnId(m) \in Ids /\ m # Nobody
  BY <1>1, <1>2, OwnIdType, WaiterAssumption
<1>5. future[m] = "none" /\ pc[m] = "idle" /\ place[m] = "passed"
  BY <1>1, <1>2, <1>3 DEF CallInv, EventInv
<1>6. /\ step' \in [Events -> Steps]
      /\ \A n \in Events : step'[n] = IF n = m THEN "waiting" ELSE step[n]
  BY <1>2, <1>3 DEF Steps
<1>7. /\ future' \in [Events -> {"none", "open", "done"}]
      /\ \A n \in Events : future'[n] = IF n = m THEN "open" ELSE future[n]
  BY <1>2, <1>3
<1>8. /\ timers' \in [Events -> SUBSET {"running", "fired"}]
      /\ \A n \in Events : timers'[n] = IF n = m THEN {"running"} ELSE timers[n]
  BY <1>2, <1>3
<1>9. /\ entry' \in [Ids -> Events \cup {Nobody}]
      /\ \A i \in Ids : entry'[i] = IF i = OwnId(m) THEN m ELSE entry[i]
  BY <1>2, <1>3, <1>4
<1>10. WaitingOpeners' = WaitingOpeners \cup {m} /\ m \notin WaitingOpeners
  BY <1>2, <1>6 DEF WaitingOpeners
<1>11. IsInjective(filters) /\ ToSet(filters) = WaitingOpeners
  BY <1>1 DEF EntriesMatchWaiters
<1>12. /\ filters' \in Seq(Events) /\ IsInjective(filters')
       /\ ToSet(filters') = WaitingOpeners'
  BY <1>2, <1>3, <1>10, <1>11, AppendFacts
<1>13. WaiterTypeOK'
  BY <1>1, <1>2, <1>6, <1>7, <1>8, <1>9, <1>12 DEF WaiterTypeOK
<1>14. EventInv'
  BY <1>1, <1>2, <1>5, <1>6 DEF EventInv
<1>15. CallInv'
  BY <1>1, <1>2, <1>5, <1>6, <1>7, <1>8 DEF CallInv
<1>16. TurnInv'
  <2>1. \A n \in Events : /\ Handed(n)' <=> Handed(n)
                          /\ step'[n] = "handling" => step[n] = "handling"
    BY <1>2, <1>6 DEF Handed
  <2> QED BY <1>1, <1>2, <2>1 DEF TurnInv
<1>17. \A n \in Events : OwnId(n)' = OwnId(n)
  BY <1>2 DEF OwnId, IdUnder
<1>18. WaitingOpeners \subseteq Events
  BY DEF WaitingOpeners
<1>19. ASSUME NEW i \in Ids, entry'[i] # Nobody
       PROVE  entry'[i] \in WaitingOpeners' /\ OwnId(entry[i])' = i
  <2>1. CASE i = OwnId(m)
    BY <1>9, <1>10, <1>17, <2>1
  <2>2. CASE i # OwnId(m)
    <3>1. entry'[i] = entry[i]
      BY <1>9, <2>2
    <3>2. entry[i] \in WaitingOpeners /\ OwnId(entry[i]) = i
      BY <1>1, <1>19, <3>1 DEF EntriesMatchWaiters
    <3> QED BY <1>10, <1>17, <1>18, <3>1, <3>2
  <2> QED BY <2>1, <2>2
<1>20. ASSUME NEW n \in WaitingOpeners',
              \A o \in Events \ {n} : future'[o] # "none" => OwnId(o)' # OwnId(n)'
       PROVE  entry'[OwnId(n)'] = n
  <2>1. CASE n = m
    BY <1>4, <1>9, <1>17, <2>1
  <2>2. CASE n # m
    <3>1. n \in WaitingOpeners /\ n \in Events
      BY <1>10, <1>18, <2>2
    <3>2. OwnId(m) # OwnId(n)
      BY <1>7, <1>17, <1>20, <2>2, <3>1
    <3>3. \A o \in Events \ {n} : future[o] # "none" => OwnId(o) # OwnId(n)
      BY <1>7, <1>17, <1>20, <3>1, <3>2
    <3>4. entry[OwnId(n)] = n
      BY <1>1, <3>1, <3>3 DEF EntriesMatchWaiters
    <3>5. OwnId(n) \in Ids
      BY <1>1, <3>1, OwnIdType DEF WaitingOpeners
    <3> QED BY <1>9, <1>17, <3>1, <3>2, <3>4, <3>5
  <2> QED BY <2>1, <2>2
<1>21. EntriesMatchWaiters'
  BY <1>12, <1>19, <1>20 DEF EntriesMatchWaiters
<1> QED BY <1>13, <1>14, <1>15, <1>16, <1>21 DEF WaitersInv

(* A wait ends, and takes its filter and whatever entry is under its id.   *)
LEMMA CleanupStep ==
  ASSUME WaitersInv, NEW m \in Events, Cleanup(m), UNCHANGED <<pc, place>>
  PROVE  WaitersInv'
<1>1. WaiterTypeOK /\ EventInv /\ CallInv /\ TurnInv /\ EntriesMatchWaiters
  BY DEF WaitersInv
<1>2. /\ step[m] = "waiting" /\ future[m] = "done"
      /\ entry' = [entry EXCEPT ![OwnId(m)] = Nobody]
      /\ filters' = WithoutFilter(m)
      /\ timers' = [timers EXCEPT ![m] = {}]
      /\ step' = [step EXCEPT ![m] = "over"]
      /\ UNCHANGED <<event, future, turnq, at, pos>>
  BY DEF Cleanup, Goto
<1>3. /\ step \in [Events -> Steps] /\ filters \in Seq(Events)
      /\ entry \in [Ids -> Events \cup {Nobody}]
      /\ timers \in [Events -> SUBSET {"running", "fired"}]
  BY <1>1 DEF WaiterTypeOK
<1>4. OwnId(m) \in Ids
  BY <1>1, <1>2, OwnIdType
<1>5. pc[m] = "idle"
  BY <1>1, <1>2 DEF CallInv
<1>6. /\ step' \in [Events -> Steps]
      /\ \A n \in Events : step'[n] = IF n = m THEN "over" ELSE step[n]
  BY <1>2, <1>3 DEF Steps
<1>7. /\ timers' \in [Events -> SUBSET {"running", "fired"}]
      /\ \A n \in Events : timers'[n] = IF n = m THEN {} ELSE timers[n]
  BY <1>2, <1>3
<1>8. /\ entry' \in [Ids -> Events \cup {Nobody}]
      /\ \A i \in Ids : entry'[i] = IF i = OwnId(m) THEN Nobody ELSE entry[i]
  BY <1>2, <1>3, <1>4
<1>9. WaitingOpeners' = WaitingOpeners \ {m} /\ WaitingOpeners \subseteq Events
  BY <1>6 DEF WaitingOpeners
<1>10. /\ filters' \in Seq(Events) /\ IsInjective(filters')
       /\ ToSet(filters') = WaitingOpeners'
  BY <1>1, <1>2, <1>3, <1>9, FilterFacts DEF EntriesMatchWaiters
<1>11. WaiterTypeOK'
  BY <1>1, <1>2, <1>6, <1>7, <1>8, <1>10 DEF WaiterTypeOK
<1>12. EventInv'
  BY <1>1, <1>2, <1>6 DEF EventInv
<1>13. CallInv'
  BY <1>1, <1>2, <1>5, <1>6, <1>7 DEF CallInv
<1>14. TurnInv'
  <2>1. \A n \in Events : /\ Handed(n)' <=> Handed(n)
                          /\ step'[n] = "handling" => step[n] = "handling"
    BY <1>2, <1>6 DEF Handed
  <2> QED BY <1>1, <1>2, <2>1 DEF TurnInv
<1>15. \A n \in Events : OwnId(n)' = OwnId(n)
  BY <1>2 DEF OwnId, IdUnder
<1>16. ASSUME NEW i \in Ids, entry'[i] # Nobody
       PROVE  entry'[i] \in WaitingOpeners' /\ OwnId(entry[i])' = i
  <2>1. i # OwnId(m) /\ entry'[i] = entry[i]
    BY <1>8, <1>16
  <2>2. entry[i] \in WaitingOpeners /\ OwnId(entry[i]) = i
    BY <1>1, <1>16, <2>1 DEF EntriesMatchWaiters
  <2> QED BY <1>9, <1>15, <2>1, <2>2
<1>17. ASSUME NEW n \in WaitingOpeners',
              \A o \in Events \ {n} : future'[o] # "none" => OwnId(o)' # OwnId(n)'
       PROVE  entry'[OwnId(n)'] = n
  <2>1. n \in WaitingOpeners /\ n \in Events /\ n # m
    BY <1>9
  <2>2. \A o \in Events \ {n} : future[o] # "none" => OwnId(o) # OwnId(n)
    BY <1>2, <1>15, <1>17, <2>1
  <2>3. OwnId(m) # OwnId(n)
    BY <1>2, <2>1, <2>2
  <2>4. entry[OwnId(n)] = n
    BY <1>1, <2>1, <2>2 DEF EntriesMatchWaiters
  <2>5. OwnId(n) \in Ids
    BY <1>1, <2>1, OwnIdType DEF WaitingOpeners
  <2> QED BY <1>8, <1>15, <2>1, <2>3, <2>4, <2>5
<1>18. EntriesMatchWaiters'
  BY <1>10, <1>16, <1>17 DEF EntriesMatchWaiters
<1> QED BY <1>11, <1>12, <1>13, <1>14, <1>18 DEF WaitersInv

(* A message is with its agent as long as it is under the session lock.    *)
LEMMA AgentStep ==
  ASSUME WaitersInv, NEW m \in Events, NEW s \in {"agent", "opening", "over"},
         step[m] \in {"free", "agent"}, step' = [step EXCEPT ![m] = s],
         pc' \in [Events -> {"idle", "waiting", "holding"}],
         \A n \in Events \ {m} : pc'[n] = pc[n],
         pc'[m] # "idle" => s = "agent",
         UNCHANGED <<event, filters, entry, future, timers, turnq, at, pos, place>>
  PROVE  WaitersInv'
<1>1. WaiterTypeOK /\ EventInv /\ CallInv /\ TurnInv /\ EntriesMatchWaiters
  BY DEF WaitersInv
<1>2. /\ step' \in [Events -> Steps]
      /\ \A n \in Events : step'[n] = IF n = m THEN s ELSE step[n]
  BY <1>1 DEF WaiterTypeOK, Steps
<1>3. WaiterTypeOK'
  BY <1>1, <1>2 DEF WaiterTypeOK
<1>4. EventInv'
  BY <1>1, <1>2 DEF EventInv
<1>5. CallInv'
  BY <1>1, <1>2 DEF CallInv
<1>6. TurnInv'
  <2>1. \A n \in Events : /\ Handed(n)' <=> Handed(n)
                          /\ step'[n] = "handling" => step[n] = "handling"
    BY <1>2 DEF Handed
  <2> QED BY <1>1, <2>1 DEF TurnInv
<1>7. EntriesMatchWaiters'
  <2>1. WaitingOpeners' = WaitingOpeners
    BY <1>2 DEF WaitingOpeners
  <2> QED BY <1>1, <2>1, EntriesKept
<1> QED BY <1>3, <1>4, <1>5, <1>6, <1>7 DEF WaitersInv

(* A message in the limiter has not been seen by the handlers.             *)
LEMMA LimiterStep ==
  ASSUME WaitersInv, UNCHANGED <<pc, waitVars>>,
         \A n \in Events : place'[n] # "away" => event[n] # NoEvent,
         \A n \in Events : step[n] # "idle" => place'[n] = "passed"
  PROVE  WaitersInv'
<1>1. UNCHANGED <<event, step, filters, entry, future, timers, turnq, at, pos, pc>>
  BY DEF waitVars
<1>2. WaiterTypeOK /\ EventInv /\ CallInv /\ TurnInv /\ EntriesMatchWaiters
  BY DEF WaitersInv
<1>3. WaiterTypeOK'
  BY <1>1, <1>2 DEF WaiterTypeOK
<1>4. EventInv'
  BY <1>1, <1>2 DEF EventInv
<1>5. CallInv'
  BY <1>1, <1>2 DEF CallInv
<1>6. TurnInv'
  BY <1>1, <1>2 DEF TurnInv, Handed
<1>7. EntriesMatchWaiters'
  BY <1>1, <1>2 DEF EntriesMatchWaiters, WaitingOpeners, OwnId, IdUnder
<1> QED BY <1>3, <1>4, <1>5, <1>6, <1>7 DEF WaitersInv

LEMMA WaitersInit ==
  ASSUME PathInit
  PROVE  WaitersInv
<1>1. InitWaiters /\ pc = [t \in Events |-> "idle"] /\ place = [m \in Events |-> "away"]
  BY PathAssumption DEF PathInit, Init, InitLimit
<1>2. event \in [Events -> Shapes \cup {NoEvent}]
  BY <1>1, CastAssumption DEF InitWaiters
<1>3. WaitingOpeners = {} /\ \A i \in Ids : entry[i] = Nobody
  BY <1>1 DEF WaitingOpeners, InitWaiters
<1>4. filters = <<>> /\ IsInjective(filters) /\ ToSet(filters) = {}
  BY <1>1 DEF InitWaiters, IsInjective, ToSet
<1>5. WaiterTypeOK
  BY <1>1 DEF WaiterTypeOK, InitWaiters, Steps
<1>6. EventInv
  BY <1>1, <1>2 DEF EventInv, InitWaiters
<1>7. CallInv
  BY <1>1 DEF CallInv, InitWaiters
<1>8. TurnInv
  BY <1>1 DEF TurnInv, Handed, InitWaiters, IsInjective, ToSet
<1>9. EntriesMatchWaiters
  BY <1>3, <1>4 DEF EntriesMatchWaiters
<1> QED BY <1>5, <1>6, <1>7, <1>8, <1>9 DEF WaitersInv

LEMMA WaitersNext ==
  ASSUME LimitInv, WaitersInv, [PathNext]_pathVars
  PROVE  WaitersInv'
<1> USE PathAssumption
<1>1. WaiterTypeOK /\ EventInv /\ CallInv /\ LimitTypes
  BY DEF WaitersInv, LimitInv
<1>2. \A n \in Events : place[n] # "away" => event[n] # NoEvent
  BY <1>1 DEF EventInv
<1>3. \A n \in Events : step[n] # "idle" => place[n] = "passed"
  BY <1>1 DEF EventInv
<1>4. place \in [Events -> Places]
  BY <1>1 DEF LimitTypes
<1>5. CASE UNCHANGED pathVars
  BY <1>2, <1>3, <1>5, LimiterStep DEF pathVars, limitVars, vars
<1>6. CASE TimePasses
  BY <1>2, <1>3, <1>6, LimiterStep DEF TimePasses, Tick, vars
<1>7. ASSUME NEW m \in Events, Arrive(m)
      PROVE  WaitersInv'
  <2>1. /\ event[m] # NoEvent /\ place[m] = "away"
        /\ \E p \in Places : place' = [place EXCEPT ![m] = p]
        /\ UNCHANGED <<pc, waitVars>>
    BY <1>7 DEF Arrive, Due, ArriveFree, ArriveBusy, Round, Pass, Put, Places, vars
  <2>2. \A n \in Events \ {m} : place'[n] = place[n]
    BY <1>4, <2>1
  <2>3. \A n \in Events : place'[n] # "away" => event[n] # NoEvent
    BY <1>2, <2>1, <2>2
  <2>4. \A n \in Events : step[n] # "idle" => place'[n] = "passed"
    BY <1>3, <2>1, <2>2
  <2> QED BY <2>1, <2>3, <2>4, LimiterStep
<1>8. ASSUME NEW m \in Events, InLimiter(m)
      PROVE  WaitersInv'
  <2>1. /\ place[m] \in {"queued", "asleep"}
        /\ \E p \in Places : place' = [place EXCEPT ![m] = p]
        /\ UNCHANGED <<pc, waitVars>>
    BY <1>8 DEF InLimiter, TakeGate, WakeUp, Round, Pass, Put, Places, vars
  <2>2. \A n \in Events \ {m} : place'[n] = place[n]
    BY <1>4, <2>1
  <2>3. \A n \in Events : place'[n] # "away" => event[n] # NoEvent
    BY <1>2, <2>1, <2>2
  <2>4. \A n \in Events : step[n] # "idle" => place'[n] = "passed"
    BY <1>3, <2>1, <2>2
  <2> QED BY <2>1, <2>3, <2>4, LimiterStep
<1>9. ASSUME NEW m \in Events, InHandlers(m)
      PROVE  WaitersInv'
  <2>1. UNCHANGED <<pc, place>>
    BY <1>9 DEF InHandlers, vars, limitVars
  <2> QED BY <1>9, <2>1, HearStep, TakeTurnStep, HandleStep, RegisterStep,
             ElapseStep, CleanupStep DEF InHandlers
<1>10. pc \in [Events -> {"idle", "waiting", "holding"}]
  BY <1>1 DEF CallInv
<1>11. ASSUME NEW m \in Events, AskAgent(m)
       PROVE  WaitersInv'
  <2>1. /\ step[m] = "free" /\ step' = [step EXCEPT ![m] = "agent"]
        /\ \E p \in {"waiting", "holding"} : pc' = [pc EXCEPT ![m] = p]
        /\ UNCHANGED <<event, filters, entry, future, timers, turnq, at, pos, place>>
    BY <1>11 DEF AskAgent, Enter, TakeOrWait, Goto, limitVars
  <2> QED BY <1>10, <2>1, AgentStep
<1>12. ASSUME NEW m \in Events, Admit(m)
       PROVE  WaitersInv'
  <2>1. /\ pc[m] = "waiting" /\ pc' = [pc EXCEPT ![m] = "holding"]
        /\ UNCHANGED <<step, event, filters, entry, future, timers, turnq, at, pos, place>>
    BY <1>12 DEF Admit, Wake, limitVars, waitVars
  <2>2. step[m] = "agent" /\ step' = [step EXCEPT ![m] = "agent"]
    BY <1>1, <2>1 DEF CallInv, WaiterTypeOK
  <2> QED BY <1>10, <2>1, <2>2, AgentStep
<1>13. ASSUME NEW m \in Events, AgentEnds(m) \/ GiveUp(m)
       PROVE  WaitersInv'
  <2>1. /\ pc[m] # "idle" /\ pc' = [pc EXCEPT ![m] = "idle"]
        /\ \E s \in {"opening", "over"} : step' = [step EXCEPT ![m] = s]
        /\ UNCHANGED <<event, filters, entry, future, timers, turnq, at, pos, place>>
    BY <1>13 DEF AgentEnds, GiveUp, Exit, Cancel, Forget, Goto, limitVars
  <2>2. step[m] = "agent"
    BY <1>1, <2>1 DEF CallInv
  <2> QED BY <1>10, <2>1, <2>2, AgentStep
<1> QED BY <1>5, <1>6, <1>7, <1>8, <1>9, <1>11, <1>12, <1>13 DEF PathNext

LEMMA PathInvariance == PathSpec => [](LimitInv /\ WaitersInv)
<1>1. PathInit => WaitersInv
  BY WaitersInit
<1>2. LimitInv /\ WaitersInv /\ [PathNext]_pathVars => WaitersInv'
  BY WaitersNext
<1> QED BY <1>1, <1>2, LimitInvariance, PTL DEF PathSpec
-----------------------------------------------------------------------------
(* Who gets into the handler of a waiter.                                  *)

LEMMA GoOnFacts ==
  ASSUME WaitersInv, NEW m \in Events,
         step[m] \in {"queued", "handling"}, Head(turnq[at[m]]) = m, GoOn(m)
  PROVE  /\ \A n \in Events \ {m} : step'[n] = step[n]
         /\ step'[m] = "handling" => future'[at'[m]] = "open"
<1> DEFINE queues == [turnq EXCEPT ![at[m]] = Tail(@)]
<1>1. WaiterTypeOK /\ EventInv /\ CallInv /\ TurnInv
      /\ ToSet(filters) = WaitingOpeners
  BY DEF WaitersInv, EntriesMatchWaiters
<1>2. /\ at[m] \in Events /\ m \in ToSet(turnq[at[m]]) /\ event[m] \in Shapes
      /\ turnq \in [Events -> Seq(Events)] /\ pos[m] \in Nat
  BY <1>1, SeenIsShape DEF CallInv, TurnInv, Handed, WaiterTypeOK
<1>3. turnq[at[m]] \in Seq(Events) /\ turnq[at[m]] # <<>>
  BY <1>2 DEF ToSet
<1>4. queues \in [Events -> Seq(Events)]
  BY <1>2, <1>3
<1>5. pos[m] + 1 \in Nat /\ pos[m] + 1 > 0
  BY <1>2
<1>6. Walk(m, pos[m] + 1, TRUE, queues)
  BY DEF GoOn
<1> HIDE DEF queues
<1>7. Walked(m, queues)
  BY <1>1, <1>2, <1>4, <1>5, <1>6, WalkFacts
<1> QED BY <1>7 DEF Walked, Handed

LEMMA HandlingStep ==
  ASSUME WaitersInv, [PathNext]_pathVars, NEW m \in Events,
         step[m] # "handling", step'[m] = "handling"
  PROVE  future[at'[m]] = "open"
<1> USE PathAssumption
<1>1. WaiterTypeOK /\ EventInv /\ CallInv /\ TurnInv
      /\ ToSet(filters) = WaitingOpeners
  BY DEF WaitersInv, EntriesMatchWaiters
<1>2. step \in [Events -> Steps]
  BY <1>1 DEF WaiterTypeOK
<1>3. PICK n \in Events :
        /\ \/ place[n] = "passed" /\ Hear(n)
           \/ TakeTurn(n) \/ Handle(n) \/ Register(n) \/ Elapse(n) \/ Cleanup(n)
        /\ UNCHANGED limitVars
  <2>1. ASSUME NEW n \in Events,
               AskAgent(n) \/ AgentEnds(n) \/ GiveUp(n)
        PROVE  FALSE
    <3>1. \E s \in {"agent", "opening", "over"} : step' = [step EXCEPT ![n] = s]
      BY <2>1 DEF AskAgent, AgentEnds, GiveUp, Goto
    <3> QED BY <1>2, <3>1
  <2>2. step' # step
    OBVIOUS
  <2> QED BY <2>1, <2>2 DEF PathNext, pathVars, waitVars, TimePasses, Arrive,
             InLimiter, InHandlers, Admit
<1>4. CASE place[n] = "passed" /\ Hear(n)
  <2>1. /\ Walk(n, 1, FALSE, turnq) /\ UNCHANGED future
        /\ turnq \in [Events -> Seq(Events)] /\ event[n] \in Shapes
    BY <1>1, <1>4, SeenIsShape DEF Hear, WaiterTypeOK
  <2>2. Walked(n, turnq)
    <3>1. 1 \in Nat /\ 1 > 0
      OBVIOUS
    <3> QED BY <1>1, <2>1, <3>1, WalkFacts
  <2> QED BY <2>1, <2>2 DEF Walked, Handed
<1>5. CASE TakeTurn(n)
  <2>1. step[n] = "queued" /\ Head(turnq[at[n]]) = n /\ UNCHANGED future
    BY <1>5 DEF TakeTurn
  <2>2. CASE future[at[n]] = "open" /\ Goto(n, "handling") /\ UNCHANGED at
    BY <1>2, <2>2 DEF Goto
  <2>3. CASE GoOn(n)
    BY <2>1, <2>3, GoOnFacts
  <2> QED BY <1>5, <2>2, <2>3 DEF TakeTurn
<1>6. CASE Handle(n)
  <2>1. step[n] = "handling" /\ GoOn(n)
    BY <1>6 DEF Handle, Ignore, Keep, Stop, Requeue, ByPlugin
  <2>2. Head(turnq[at[n]]) = n
    BY <1>1, <2>1 DEF TurnInv
  <2>3. \A k \in Events \ {n} : step'[k] = step[k]
    BY <2>1, <2>2, GoOnFacts
  <2> QED BY <2>1, <2>3
<1>7. CASE Register(n) \/ Cleanup(n)
  <2>1. \E s \in {"waiting", "over"} : step' = [step EXCEPT ![n] = s]
    BY <1>7 DEF Register, Cleanup, Goto
  <2> QED BY <1>2, <2>1
<1>8. CASE Elapse(n)
  BY <1>8 DEF Elapse, Fire, Expire
<1> QED BY <1>3, <1>4, <1>5, <1>6, <1>7, <1>8
-----------------------------------------------------------------------------
(* The session lock within the path: every message asks for the lock of a  *)
(* session.                                                                *)

SessionInv == \A m \in Events : event[m] # NoEvent => event[m].umo \in Sessions

LEMMA SessionStep ==
  ASSUME SessionInv, WaitersInv, [PathNext]_pathVars
  PROVE  SessionInv'
<1> USE PathAssumption
<1>1. CASE UNCHANGED event
  BY <1>1 DEF SessionInv
<1>2. ASSUME NEW m \in Events, Requeue(m)
      PROVE  SessionInv'
  <2>1. step[m] = "handling"
    BY <1>2 DEF Requeue
  <2>2. event[m] # NoEvent /\ event \in [Events -> Shapes \cup {NoEvent}]
    BY <2>1 DEF WaitersInv, EventInv
  <2>3. PICK n \in Copies : event' = [event EXCEPT ![n] = event[m]]
    BY <1>2 DEF Requeue
  <2> QED BY <2>2, <2>3 DEF SessionInv
<1>3. UNCHANGED event \/ \E m \in Events : Requeue(m)
  BY DEF PathNext, pathVars, waitVars, TimePasses, Arrive, InLimiter, InHandlers,
     Hear, TakeTurn, Handle, Ignore, Keep, Stop, Register, Elapse, Fire, Expire,
     Cleanup, AskAgent, Admit, AgentEnds, GiveUp
<1> QED BY <1>1, <1>2, <1>3

LEMMA LockStep ==
  ASSUME SessionInv, WaitersInv, [PathNext]_pathVars
  PROVE  [Next]_vars
<1> USE PathAssumption
<1>1. ASSUME NEW m \in Events, AskAgent(m)
      PROVE  Next
  <2>1. step[m] = "free" /\ Enter(m, event[m].umo)
    BY <1>1 DEF AskAgent
  <2>2. event[m].umo \in Sessions
    BY <2>1 DEF WaitersInv, EventInv, SessionInv
  <2> QED BY <2>1, <2>2 DEF Next
<1>2. ASSUME NEW m \in Events, Admit(m) \/ AgentEnds(m) \/ GiveUp(m)
      PROVE  Next
  BY <1>2 DEF Admit, AgentEnds, GiveUp, Next
<1>3. CASE UNCHANGED pathVars
  BY <1>3 DEF pathVars
<1>4. CASE TimePasses \/ \E m \in Messages : Arrive(m) \/ InLimiter(m) \/ InHandlers(m)
  BY <1>4 DEF TimePasses, Arrive, InLimiter, InHandlers
<1> QED BY <1>1, <1>2, <1>3, <1>4 DEF PathNext
-----------------------------------------------------------------------------
(* The theorems.                                                           *)

(* The variables of the limiter and of the waiters have their types, in    *)
(* every state of the path.                                                *)
THEOREM PathTypes == PathSpec => []PathTypeOK
<1>1. LimitInv /\ WaitersInv => PathTypeOK
  BY DEF LimitInv, LimitTypes, GateTypes, WaitersInv, PathTypeOK, LimitTypeOK
<1> QED BY <1>1, PathInvariance, PTL

(* No window of time sees more messages of a session let through than the  *)
(* rate limit allows, however long they waited for its lock and however    *)
(* old the time they were counted under.                                   *)
THEOREM WindowTheorem == PathSpec => []WindowBound
<1>1. LimitInv => WindowBound
  BY DEF LimitInv, CountInv, WindowBound
<1> QED BY <1>1, LimitInvariance, PTL

(* FILTERS and USER_SESSIONS are those of the plugins that still wait: no  *)
(* message is handed to a waiter that is gone, and one who never shared    *)
(* its id is found under it.                                               *)
THEOREM EntriesTheorem == PathSpec => []EntriesMatchWaiters
<1>1. WaitersInv => EntriesMatchWaiters
  BY DEF WaitersInv
<1> QED BY <1>1, PathInvariance, PTL

(* A waiter's handler gets one message at a time, and none once the wait   *)
(* is over.                                                                *)
THEOREM HandlersTheorem == PathSpec => HandlersInTime
<1> DEFINE OnTime ==
             \A m \in Events :
               step[m] # "handling" /\ step'[m] = "handling" =>
                 /\ future[at'[m]] = "open"
                 /\ \A n \in Events \ {m} : step'[n] = "handling" => at'[n] # at'[m]
<1>1. ASSUME WaitersInv, WaitersInv', [PathNext]_pathVars
      PROVE  [OnTime]_waitVars
  <2> SUFFICES ASSUME NEW m \in Events, step[m] # "handling", step'[m] = "handling"
               PROVE  /\ future[at'[m]] = "open"
                      /\ \A n \in Events \ {m} :
                           step'[n] = "handling" => at'[n] # at'[m]
    OBVIOUS
  <2>1. future[at'[m]] = "open"
    BY <1>1, HandlingStep
  <2>2. \A n \in Events : step'[n] = "handling" => Head(turnq'[at'[n]]) = n
    BY <1>1 DEF WaitersInv, TurnInv
  <2> QED BY <2>1, <2>2
<1>2. HandlersInTime <=> [][OnTime]_waitVars
  BY DEF HandlersInTime
<1> HIDE DEF OnTime
<1> QED BY <1>1, <1>2, PathInvariance, PTL DEF PathSpec

(* The path uses the session lock as the lock's own specification says, so *)
(* what is proved of the lock holds of the messages on their way.          *)
THEOREM LockInPath == PathSpec => Spec
<1>1. PathInit => Init /\ SessionInv
  BY PathAssumption DEF PathInit, InitWaiters, SessionInv
<1>2. SessionInv /\ WaitersInv /\ [PathNext]_pathVars => SessionInv'
  BY SessionStep
<1>3. SessionInv /\ WaitersInv /\ [PathNext]_pathVars => [Next]_vars
  BY LockStep
<1> QED BY <1>1, <1>2, <1>3, PathInvariance, PTL DEF PathSpec, Spec

(* Whatever the limiter and the waiters do, no two messages of a session   *)
(* are with the agent together, and those that wait for it come to it in   *)
(* the order they asked.                                                   *)
THEOREM AgentInPath == PathSpec => []MutualExclusion /\ FifoPerSession
BY LockInPath, ExclusionTheorem, FifoTheorem, PTL
=============================================================================
