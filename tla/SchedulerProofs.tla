-------------------------- MODULE SchedulerProofs --------------------------
(***************************************************************************)
(* What holds of the scheduler for every size of the process table, every  *)
(* number of shells and of priorities.                                     *)
(*                                                                         *)
(* The types; and what signals, exits and switches of context may never    *)
(* do: take a shell or idle away, or leave RUNNING a process that lost the *)
(* CPU.  These need KInv: the pids of the residents (idle and the shells)  *)
(* are below every other pid, no signal is aimed at one of them, idle is   *)
(* never given to a queue, and the count of a ready queue is never behind  *)
(* by more than the queue holds.                                           *)
(*                                                                         *)
(* Where a process waits, when no signal is sent: PlaceInv says that its   *)
(* state tells the places it may be at, so that none runs before its prun  *)
(* and a wait is lost only to a child that had drained its wait queue.     *)
(***************************************************************************)
EXTENDS Scheduler, WellFoundedInduction, SequenceTheorems, FiniteSetTheorems,
        TLAPS

USE DEF Slots, Levels, Ttys, Prios, Idle

\* A set of natural numbers that is not empty has a least element.
LEMMA MinProperties ==
  ASSUME NEW S \in SUBSET Nat, S # {}
  PROVE  Min(S) \in S /\ \A y \in S : Min(S) <= y
<1>1. IsWellFoundedOn(OpToRel(<, Nat), Nat)
  BY NatLessThanWellFounded
<1>2. PICK x \in S : \A y \in S : <<y, x>> \notin OpToRel(<, Nat)
  BY <1>1, WFMin
<1>3. ASSUME NEW y \in S PROVE x <= y
  <2>1. y < x => <<y, x>> \in {ss \in Nat \X Nat : ss[1] < ss[2]}
    BY Zenon
  <2>2. ~(y < x)
    BY <1>2, <2>1 DEF OpToRel
  <2> QED
    BY <2>2
<1> QED
  BY <1>3 DEF Min

\* queue_enqueue gives a queue of processes, never an empty one, and does not
\* repeat a process.
LEMMA EnqueueProperties ==
  ASSUME NEW q \in Seq(Slots), NEW s \in Slots
  PROVE  /\ Enqueue(q, s) \in Seq(Slots)
         /\ Enqueue(q, s) # <<>>
         /\ IsInjective(q) => IsInjective(Enqueue(q, s))
<1>1. CASE Refuses(q, s)
  <2>1. q # <<>>
    BY <1>1, ConstantsAssumption DEF Refuses, Range
  <2> QED
    BY <1>1, <2>1 DEF Enqueue
<1>2. CASE ~Refuses(q, s)
  <2>1. Append(q, s) \in Seq(Slots) /\ Append(q, s) # <<>>
    OBVIOUS
  <2>2. ASSUME IsInjective(q) PROVE IsInjective(Append(q, s))
    <3> SUFFICES ASSUME NEW a \in DOMAIN Append(q, s), NEW b \in DOMAIN Append(q, s),
                        Append(q, s)[a] = Append(q, s)[b]
                 PROVE  a = b
      BY DEF IsInjective
    <3>1. \A k \in DOMAIN q : q[k] # s
      BY <1>2 DEF Refuses, Range
    <3> QED
      BY <2>2, <3>1 DEF IsInjective
  <2> QED
    BY <1>2, <2>1, <2>2 DEF Enqueue
<1> QED
  BY <1>1, <1>2

\* The count of a queue is behind by a natural number.
LEMMA LagType ==
  ASSUME TypeOK
  PROVE  \A l \in Queues : Lag(l) \in Nat
<1> SUFFICES ASSUME NEW l \in Queues PROVE Lag(l) \in Nat
  OBVIOUS
<1>1. IsFiniteSet(uncounted[l])
  BY DEF TypeOK, PidSets
<1> QED
  BY <1>1, FS_CardinalityType DEF Lag

\* queue_enqueue on a ready queue adds the process at the end or does nothing;
\* it leaves something to dequeue, and refuses only a process that is in the
\* queue, if the queue is not full.
LEMMA EnqueueInProperties ==
  ASSUME TypeOK, NEW q \in Seq(Slots), NEW l \in Queues, NEW s \in Slots
  PROVE  /\ EnqueueIn(q, l, s) \in {q, Append(q, s)}
         /\ EnqueueIn(q, l, s) \in Seq(Slots)
         /\ Lag(l) <= Len(q) => Lag(l) < Len(EnqueueIn(q, l, s))
         /\ Refuses(Counted(q, l), s) /\ Len(q) < ProcMax => s \in Range(q)
         /\ s \notin Range(q) /\ Len(q) < ProcMax => EnqueueIn(q, l, s) = Append(q, s)
<1> DEFINE n == Len(q) - Lag(l)
           c == SubSeq(q, 1, n)
<1>1. Lag(l) \in Nat /\ n \in Int /\ n <= Len(q) /\ Len(q) \in Nat
  BY LagType
<1>2. CASE n < 1
  <2>1. c = <<>>
    BY <1>1, <1>2, SubSeqEmpty
  <2> HIDE DEF c
  <2>2. Len(c) = 0 /\ s \notin Range(c) /\ ProcMax # 0
    BY <2>1, ConstantsAssumption DEF Range
  <2>3. ~Refuses(c, s)
    BY <2>2 DEF Refuses
  <2>4. EnqueueIn(q, l, s) = Append(q, s) /\ ~Refuses(Counted(q, l), s)
    BY <2>3 DEF EnqueueIn, Counted, c
  <2> QED
    BY <1>1, <2>4
<1>3. CASE n >= 1
  <2> HIDE DEF n
  <2>1. /\ c \in Seq(Slots) /\ Len(c) = n
        /\ \A i \in 1 .. n : c[i] = q[i]
    <3>1. \A i \in 1 .. n : i \in 1 .. Len(q) /\ q[i] \in Slots
      <4> SUFFICES ASSUME NEW i \in 1 .. n PROVE i \in 1 .. Len(q) /\ q[i] \in Slots
        OBVIOUS
      <4>1. i \in 1 .. Len(q)
        BY <1>1, <1>3
      <4> HIDE DEF Slots
      <4> QED
        BY <4>1, ElementOfSeq
    <3>2. /\ c \in Seq(Slots) /\ Len(c) = IF 1 <= n THEN n - 1 + 1 ELSE 0
          /\ \A i \in 1 .. n - 1 + 1 : c[i] = q[1 + i - 1]
      BY <1>1, <3>1, SubSeqProperties
    <3> QED
      BY <1>1, <1>3, <3>2
  <2> HIDE DEF c
  <2>2. s \in Range(c) => s \in Range(q)
    BY <1>1, <2>1 DEF Range
  <2>3. Refuses(c, s) /\ Len(q) < ProcMax => s \in Range(q)
    BY <1>1, <2>1, <2>2, ConstantsAssumption DEF Refuses
  <2>4. EnqueueIn(q, l, s) = IF Refuses(c, s) THEN q ELSE Append(q, s)
    BY DEF EnqueueIn, Counted, c, n
  <2>5. Refuses(Counted(q, l), s) <=> Refuses(c, s)
    BY DEF Counted, c, n
  <2>6. Append(q, s) \in Seq(Slots) /\ Len(Append(q, s)) = Len(q) + 1
    OBVIOUS
  <2>7. EnqueueIn(q, l, s) \in {q, Append(q, s)}
    BY <2>4
  <2>8. Lag(l) < Len(EnqueueIn(q, l, s))
    BY <1>1, <1>3, <2>6, <2>7 DEF n
  <2> QED
    BY <2>3, <2>4, <2>5, <2>6, <2>7, <2>8
<1> QED
  BY <1>1, <1>2, <1>3

\* The queues of the modes are given something to dequeue.
LEMMA ReadyProperties ==
  ASSUME TypeOK
  PROVE  /\ \A rq \in Seq(Slots) : SomeReady(rq) => rq # <<>>
         /\ \A qs \in [Levels -> Seq(Slots)], l \in Levels :
               l \in NonEmpty(qs) => qs[l] # <<>>
         /\ Levels \subseteq Queues /\ Ready \in Queues
<1>1. Levels \subseteq Queues /\ Ready \in Queues
  BY ConstantsAssumption DEF Queues, Ready
<1>2. \A l \in Queues : Lag(l) \in Nat
  BY LagType
<1> QED
  BY <1>1, <1>2 DEF SomeReady, NonEmpty

\* What queue_dequeue returns and leaves.
LEMMA DequeueProperties ==
  ASSUME NEW q \in Seq(Slots), q # <<>>
  PROVE  /\ Head(q) \in Slots /\ Tail(q) \in Seq(Slots)
         /\ IsInjective(q) => IsInjective(Tail(q))
<1>1. Head(q) \in Slots /\ Tail(q) \in Seq(Slots)
  BY HeadTailProperties
<1>2. ASSUME IsInjective(q) PROVE IsInjective(Tail(q))
  BY <1>2, HeadTailProperties DEF IsInjective
<1> QED
  BY <1>1, <1>2

\* The rotation of the array is a permutation of its indices.
LEMMA Rotation ==
  ASSUME NEW k \in Levels
  PROVE  /\ \A l \in Levels : (l + k) % (PQSize + 1) \in Levels
         /\ (0 + k) % (PQSize + 1) = k /\ 0 \in Levels
         /\ \A l, m \in Levels : (l + k) % (PQSize + 1) = (m + k) % (PQSize + 1) => l = m
         /\ \A m \in Levels : \E l \in Levels : (l + k) % (PQSize + 1) = m
<1> DEFINE n == PQSize + 1
<1>1. n \in Nat \ {0} /\ k \in 0 .. n - 1 /\ Levels = 0 .. n - 1
  BY ConstantsAssumption
<1> HIDE DEF n
<1>2. \A l \in 0 .. n - 1 : (l + k) % n = IF l + k < n THEN l + k ELSE l + k - n
  BY <1>1, SMTT(30)
<1>3. \A l \in 0 .. n - 1 : (l + k) % n \in 0 .. n - 1
  BY <1>1, <1>2
<1>4. (0 + k) % n = k /\ 0 \in 0 .. n - 1
  BY <1>1, <1>2
<1>5. \A l, m \in 0 .. n - 1 : (l + k) % n = (m + k) % n => l = m
  BY <1>1, <1>2
<1>6. ASSUME NEW m \in 0 .. n - 1 PROVE \E l \in 0 .. n - 1 : (l + k) % n = m
  <2> DEFINE l == IF m >= k THEN m - k ELSE m - k + n
  <2>1. l \in 0 .. n - 1 /\ (IF l + k < n THEN l + k ELSE l + k - n) = m
    BY <1>1
  <2> HIDE DEF l
  <2> QED
    BY <1>2, <2>1
<1> HIDE DEF Levels
<1> QED
  BY <1>1, <1>3, <1>4, <1>5, <1>6 DEF n

\* pqueue_dequeue finds a queue that is not empty, and the exits keep theirs.
LEMMA RotateProperties ==
  ASSUME TypeOK, NEW qs \in [Levels -> Seq(Slots)], NonEmpty(qs) # {}
  PROVE  /\ FirstLevel(qs) \in NonEmpty(qs)
         /\ qs[FirstLevel(qs)] # <<>>
         /\ Head(qs[FirstLevel(qs)]) \in Slots
         /\ RotatedTail(qs) \in [Levels -> Seq(Slots)]
         /\ Renamed(qs) => /\ uncounted' \in [Queues -> PidSets]
                           /\ target' \in [Slots -> Queues]
<1>1. FirstLevel(qs) \in NonEmpty(qs)
  <2>1. NonEmpty(qs) \in SUBSET Nat
    BY ConstantsAssumption DEF NonEmpty
  <2> QED
    BY <2>1, MinProperties DEF FirstLevel
<1> DEFINE k == FirstLevel(qs)
<1>2. k \in Levels /\ qs[k] # <<>> /\ qs[k] \in Seq(Slots)
  BY <1>1, ReadyProperties DEF NonEmpty
<1> HIDE DEF k
<1>3. Head(qs[k]) \in Slots /\ Tail(qs[k]) \in Seq(Slots)
  BY <1>2, DequeueProperties
<1>4. \A l \in Levels : (l + k) % (PQSize + 1) \in Levels
  BY <1>2, ConstantsAssumption, SMT
<1>5. RotatedTail(qs) = [l \in Levels |-> IF l = 0 THEN Tail(qs[k])
                                          ELSE qs[(l + k) % (PQSize + 1)]]
  BY DEF RotatedTail, k
<1>6. RotatedTail(qs) \in [Levels -> Seq(Slots)]
  BY <1>3, <1>4, <1>5
<1>7. ASSUME Renamed(qs)
      PROVE  uncounted' \in [Queues -> PidSets] /\ target' \in [Slots -> Queues]
  <2>1. /\ uncounted' = [l \in Queues |-> IF l = Ready THEN uncounted[l]
                                          ELSE uncounted[(l + k) % (PQSize + 1)]]
        /\ target' = [x \in Slots |-> IF target[x] = Ready THEN Ready
                          ELSE (target[x] + (PQSize + 1 - k)) % (PQSize + 1)]
    BY <1>7 DEF Renamed, k
  <2>2. \A l \in Queues : l # Ready => l \in Levels
    BY ConstantsAssumption DEF Queues, Ready
  <2>3. Levels \subseteq Queues /\ Ready \in Queues
    BY ReadyProperties
  <2>4. \A l \in Levels : (l + (PQSize + 1 - k)) % (PQSize + 1) \in Levels
    BY <1>2, ConstantsAssumption, SMT
  <2> HIDE DEF Levels
  <2>5. uncounted' \in [Queues -> PidSets]
    BY <1>4, <2>1, <2>2, <2>3 DEF TypeOK
  <2>6. target' \in [Slots -> Queues]
    BY <2>1, <2>2, <2>3, <2>4 DEF TypeOK
  <2> QED
    BY <2>5, <2>6
<1> QED
  BY <1>1, <1>2, <1>3, <1>6, <1>7 DEF k

\* What the proofs ask of a queue of waiters: no process twice, and never idle.
Good(q) == IsInjective(q) /\ Idle \notin Range(q)

\* A queue that is not given idle has none of it.
LEMMA NoIdle ==
  ASSUME NEW q \in Seq(Slots), Idle \notin Range(q)
  PROVE  /\ \A s \in Slots : s # Idle => Idle \notin Range(Append(q, s))
         /\ q # <<>> => Idle \notin Range(Tail(q)) /\ Head(q) # Idle
<1>1. ASSUME NEW s \in Slots, s # Idle PROVE Idle \notin Range(Append(q, s))
  <2> SUFFICES ASSUME NEW k \in DOMAIN Append(q, s), Append(q, s)[k] = Idle
               PROVE  FALSE
    BY DEF Range
  <2>1. k \in 1 .. Len(q) + 1
    OBVIOUS
  <2>2. CASE k \in 1 .. Len(q)
    <3>1. q[k] = Idle /\ k \in DOMAIN q
      BY <2>2
    <3> QED
      BY <3>1 DEF Range
  <2>3. CASE k = Len(q) + 1
    BY <1>1, <2>3
  <2> QED
    BY <2>1, <2>2, <2>3
<1>2. ASSUME q # <<>> PROVE Idle \notin Range(Tail(q)) /\ Head(q) # Idle
  <2>1. Head(q) = q[1] /\ 1 \in DOMAIN q
    BY <1>2
  <2>2. Head(q) # Idle
    BY <2>1 DEF Range
  <2>3. \A k \in DOMAIN Tail(q) : Tail(q)[k] = q[k + 1] /\ k + 1 \in DOMAIN q
    BY <1>2
  <2> QED
    BY <2>2, <2>3 DEF Range
<1> QED
  BY <1>1, <1>2

\* queue_enqueue and queue_dequeue keep a queue good.
LEMMA GoodQueue ==
  ASSUME NEW q \in Seq(Slots), Good(q)
  PROVE  /\ \A s \in Slots : s # Idle => Good(Enqueue(q, s))
         /\ q # <<>> => Good(Tail(q)) /\ Head(q) # Idle
<1>1. \A s \in Slots : Enqueue(q, s) \in {q, Append(q, s)}
  BY DEF Enqueue
<1> QED
  BY <1>1, NoIdle, EnqueueProperties, DequeueProperties DEF Good

\* pqueue_dequeue does not bring idle into a queue.
LEMMA NoIdleRotation ==
  ASSUME TypeOK, NEW qs \in [Levels -> Seq(Slots)], NonEmpty(qs) # {},
         \A l \in Levels : Idle \notin Range(qs[l])
  PROVE  /\ \A l \in Levels : Idle \notin Range(RotatedTail(qs)[l])
         /\ Head(qs[FirstLevel(qs)]) # Idle
<1> DEFINE k == FirstLevel(qs)
<1>1. k \in Levels /\ qs[k] # <<>> /\ qs[k] \in Seq(Slots)
  BY RotateProperties DEF NonEmpty
<1> HIDE DEF k
<1>2. Idle \notin Range(Tail(qs[k])) /\ Head(qs[k]) # Idle
  BY <1>1, NoIdle
<1>3. \A l \in Levels : (l + k) % (PQSize + 1) \in Levels
  BY <1>1, ConstantsAssumption, SMT
<1>4. RotatedTail(qs) = [l \in Levels |-> IF l = 0 THEN Tail(qs[k])
                                          ELSE qs[(l + k) % (PQSize + 1)]]
  BY DEF RotatedTail, k
<1>5. \A l \in Levels : Idle \notin Range(RotatedTail(qs)[l])
  BY <1>2, <1>3, <1>4
<1> QED
  BY <1>2, <1>5 DEF k

-----------------------------------------------------------------------------
(* Types *)

LEMMA EnqueueTypes ==
  ASSUME TypeOK, NEW s \in Slots
  PROVE  /\ ReadyWith(s) \in Seq(Slots) /\ QueuesWith(s) \in [Levels -> Seq(Slots)]
         /\ LevelOf(s) \in Levels
<1>1. LevelOf(s) \in Levels
  <2>1. priority[s] \in 0 .. MaxPrio
    BY DEF TypeOK
  <2> QED
    BY <2>1, ConstantsAssumption DEF LevelOf
<1>2. ready_queue \in Seq(Slots) /\ queues[LevelOf(s)] \in Seq(Slots)
  BY <1>1 DEF TypeOK
<1>3. EnqueueIn(ready_queue, Ready, s) \in Seq(Slots)
  BY <1>2, EnqueueInProperties, ReadyProperties
<1>4. EnqueueIn(queues[LevelOf(s)], LevelOf(s), s) \in Seq(Slots)
  BY <1>1, <1>2, EnqueueInProperties, ReadyProperties
<1> QED
  BY <1>1, <1>2, <1>3, <1>4 DEF TypeOK, ReadyWith, QueuesWith

LEMMA HandlerType ==
  ASSUME TypeOK, NEW s \in Slots
  PROVE  Handler(s) \in Seq(Frames)
<1>1. \A op \in Ops \ {"unlock"}, a \in Nat : Frame(op, a, 0) \in Frames
  BY ConstantsAssumption DEF Frame, Frames
<1>2. pid[s] \in Nat /\ waitpid[s] \in Nat /\ s \in Nat
  BY DEF TypeOK
<1> QED
  BY <1>1, <1>2 DEF Handler, Ops

\* What scheduler_think does to the state it changes.
LEMMA ThinkTypes ==
  ASSUME TypeOK, Think
  PROVE  /\ current' \in Slots /\ state' \in [Slots -> States]
         /\ ready_queue' \in Seq(Slots) /\ queues' \in [Levels -> Seq(Slots)]
         /\ uncounted' \in [Queues -> PidSets] /\ target' \in [Slots -> Queues]
         /\ frames' \in Seq(Frames)
<1> DEFINE rq == IF Requeues THEN ReadyWith(current) ELSE ready_queue
           qs == IF Requeues THEN QueuesWith(current) ELSE queues
<1>1. rq \in Seq(Slots) /\ qs \in [Levels -> Seq(Slots)]
  BY EnqueueTypes DEF TypeOK
<1>2. ASSUME NEW s \in Slots, Dispatch(s)
      PROVE  current' \in Slots /\ state' \in [Slots -> States] /\ frames' \in Seq(Frames)
  <2>1. <<Frame("think", 0, 0)>> \in Seq(Frames) /\ <<>> \in Seq(Frames)
    BY ConstantsAssumption DEF Frame, Frames, Ops
  <2> DEFINE st == IF Requeues THEN [state EXCEPT ![current] = "ready"] ELSE state
  <2>2. st \in [Slots -> States] /\ [st EXCEPT ![s] = "running"] \in [Slots -> States]
    BY DEF TypeOK, States
  <2> HIDE DEF st
  <2>3. /\ current' = s
        /\ \/ state' = st /\ frames' = <<Frame("think", 0, 0)>>
           \/ state' = [st EXCEPT ![s] = "running"] /\ frames' = <<>>
    BY <1>2 DEF Dispatch, st
  <2> QED
    BY <2>1, <2>2, <2>3
<1> HIDE DEF rq, qs
<1>3. CASE /\ SomeReady(rq) /\ Dispatch(Head(rq))
           /\ ready_queue' = Tail(rq) /\ queues' = qs
           /\ UNCHANGED <<uncounted, target>>
  BY <1>1, <1>2, <1>3, DequeueProperties, ReadyProperties DEF TypeOK
<1>4. CASE /\ NonEmpty(qs) # {} /\ Dispatch(Head(qs[FirstLevel(qs)]))
           /\ ready_queue' = rq /\ queues' = RotatedTail(qs) /\ Renamed(qs)
  BY <1>1, <1>2, <1>4, RotateProperties
<1>5. CASE current' = Idle /\ frames' = <<>> /\ UNCHANGED <<state, queued, target>>
  <2>1. <<>> \in Seq(Frames) /\ 0 \in Slots
    BY ConstantsAssumption
  <2>2. /\ state' = state /\ ready_queue' = ready_queue /\ queues' = queues
        /\ uncounted' = uncounted /\ target' = target
    BY <1>5 DEF queued
  <2>3. current' \in Slots /\ frames' \in Seq(Frames)
    BY <1>5, <2>1, Zenon
  <2> QED
    BY <2>2, <2>3 DEF TypeOK
<1>6. \/ /\ SomeReady(rq) /\ Dispatch(Head(rq))
         /\ ready_queue' = Tail(rq) /\ queues' = qs
         /\ UNCHANGED <<uncounted, target>>
      \/ /\ NonEmpty(qs) # {} /\ Dispatch(Head(qs[FirstLevel(qs)]))
         /\ ready_queue' = rq /\ queues' = RotatedTail(qs) /\ Renamed(qs)
      \/ current' = Idle /\ frames' = <<>> /\ UNCHANGED <<state, queued, target>>
  BY Zenon DEF Think, rq, qs
<1> QED
  BY <1>3, <1>4, <1>5, <1>6

LEMMA InitTypes == Init => TypeOK
<1> SUFFICES ASSUME Init PROVE TypeOK
  OBVIOUS
<1>1. [k \in Ttys |-> k] \in Seq(Slots)
  <2>1. NTty \in Nat /\ \A k \in 1 .. NTty : k \in Slots
    BY ConstantsAssumption
  <2> QED
    BY <2>1, IsASeq
<1>2. queues \in [Levels -> Seq(Slots)]
  <2>1. <<>> \in Seq(Slots)
    OBVIOUS
  <2> DEFINE first == [k \in Ttys |-> k]
  <2>2. first \in Seq(Slots)
    BY <1>1
  <2> HIDE DEF first
  <2>3. queues = [l \in Levels |-> IF l = PQSize THEN first ELSE <<>>]
    BY DEF Init, first
  <2> QED
    BY <2>1, <2>2, <2>3
<1>3. pid \in [Slots -> Nat] /\ available \in Int /\ pid_seed \in Nat /\ current \in Slots
      /\ held \in [Slots -> Slots] /\ priority \in [Slots -> Prios]
      /\ target \in [Slots -> Queues]
  BY ConstantsAssumption DEF Init, Queues, Ready
<1>4. uncounted \in [Queues -> PidSets]
  BY FS_EmptySet DEF Init, PidSets
<1> QED
  BY <1>2, <1>3, <1>4 DEF Init, TypeOK, States, PCs, Modes

LEMMA CallTypes == TypeOK /\ SysCall => TypeOK'
<1> SUFFICES ASSUME TypeOK, SysCall PROVE TypeOK'
  OBVIOUS
<1> USE DEF waits, marks, queued, cpu, pool, table
<1>0. \A op \in {"spin", "fault", "move"} : <<Frame(op, 0, 0)>> \in Seq(Frames)
  BY ConstantsAssumption DEF Frame, Frames, Ops
<1>1. CASE PCreate
  <2>1. GetFree \in Slots
    <3>1. \A S \in SUBSET Slots : S # {} => Min(S) \in S
      <4>1. Slots \in SUBSET Nat
        OBVIOUS
      <4> QED
        BY <4>1, MinProperties
    <3>2. FreeSlots # {} /\ FreeSlots \in SUBSET Slots
      BY <1>1 DEF PCreate, FreeSlots
    <3> QED
      BY <3>1, <3>2 DEF GetFree
  <2> HIDE DEF Slots
  <2> DEFINE c == GetFree
  <2>2. c \in Slots
    BY <2>1
  <2> HIDE DEF c
  <2>3. /\ pid' = [pid EXCEPT ![c] = pid_seed]
        /\ ppid' = [ppid EXCEPT ![c] = pid'[current]]
        /\ priority' = [priority EXCEPT ![c] = priority[current]]
        /\ state' = [state EXCEPT ![c] = "ready"]
        /\ is_tty' = [is_tty EXCEPT ![c] = FALSE]
        /\ wait_queue' = [wait_queue EXCEPT ![c] = <<>>]
        /\ pc' = [pc EXCEPT ![c] = "user"]
        /\ started' = [started EXCEPT ![c] = FALSE]
        /\ available' = available - 1 /\ pid_seed' = pid_seed + 1
        /\ UNCHANGED <<sleeptime, waitpid, held, target, cpu, read_pblocks, frames>>
    BY <1>1 DEF PCreate, c
  <2>4. pid' \in [Slots -> Nat] /\ ppid' \in [Slots -> Nat]
    BY <2>2, <2>3 DEF TypeOK
  <2>5. /\ priority' \in [Slots -> Prios] /\ state' \in [Slots -> States]
        /\ is_tty' \in [Slots -> BOOLEAN] /\ pc' \in [Slots -> PCs]
        /\ started' \in [Slots -> BOOLEAN]
    BY <2>2, <2>3 DEF TypeOK, States, PCs
  <2>6. wait_queue' \in [Slots -> Seq(Slots)]
    <3>1. <<>> \in Seq(Slots)
      OBVIOUS
    <3> QED
      BY <2>2, <2>3, <3>1 DEF TypeOK
  <2>7. available' \in Int /\ pid_seed' \in Nat
    BY <2>3 DEF TypeOK
  <2> QED
    BY <2>3, <2>4, <2>5, <2>6, <2>7 DEF TypeOK
<1>2. CASE PCreateSpins
  <2>1. frames' \in Seq(Frames)
    BY <1>0, <1>2 DEF PCreateSpins, Stuck
  <2> QED
    BY <1>2, <2>1 DEF PCreateSpins, Stuck, TypeOK
<1>3. ASSUME NEW c \in Slots, PRun(c) PROVE TypeOK'
  BY <1>3, EnqueueTypes DEF PRun, SchedEnqueue, TypeOK
<1>4. ASSUME NEW c \in Slots, WaitPid(c) PROVE TypeOK'
  <2>1. Enqueue(wait_queue[c], current) \in Seq(Slots)
    BY EnqueueProperties DEF TypeOK
  <2> QED
    BY <1>4, <2>1 DEF WaitPid, TypeOK, States, PCs
<1>5. ASSUME NEW c \in Slots, Kill(c) PROVE TypeOK'
  BY <1>5, HandlerType DEF Kill, Signal, TypeOK
<1>6. ASSUME NEW t \in SleepTimes, Sleep(t) PROVE TypeOK'
  BY <1>6, ConstantsAssumption DEF Sleep, TypeOK, States, PCs
<1>7. ASSUME NEW t \in Ttys, ReadBlock(t) PROVE TypeOK'
  <2>1. Enqueue(read_pblocks[t], current) \in Seq(Slots)
    BY EnqueueProperties DEF TypeOK
  <2> QED
    BY <1>7, <2>1 DEF ReadBlock, TypeOK, States, PCs
<1>8. ASSUME NEW s \in Slots, NEW p \in Prios, SetPriority(s, p) PROVE TypeOK'
  BY <1>8 DEF SetPriority, TypeOK
<1>9. ASSUME NEW m \in Modes, SetSched(m) PROVE TypeOK'
  BY <1>0, <1>9 DEF SetSched, TypeOK, Ops
<1> QED
  BY <1>1, <1>2, <1>3, <1>4, <1>5, <1>6, <1>7, <1>8, <1>9 DEF SysCall

\* The steps of a process that returns from its main.
LEMMA CleanerTypes == TypeOK /\ Cleaner => TypeOK'
<1> SUFFICES ASSUME TypeOK, Cleaner PROVE TypeOK'
  OBVIOUS
<1> USE DEF table, queued
<1>1. \A a, b \in PCs : ExitTo(a, b) =>
        /\ pc' \in [Slots -> PCs] /\ current \in Slots
        /\ UNCHANGED <<table, sleeptime, waitpid, started, current, sched_mode,
                       read_pblocks, pid_seed, frames>>
  BY DEF ExitTo, TypeOK
<1>2. {"user", "drain", "take", "wake", "push", "store", "bump", "zombify", "count",
       "last"} \subseteq PCs
  BY DEF PCs
<1>3. held[current] \in Slots /\ target[current] \in Queues
  BY DEF TypeOK
<1>4. CASE Exit
  BY <1>1, <1>2, <1>4 DEF Exit, TypeOK
<1>5. CASE ExitDrain
  <2> DEFINE b == IF wait_queue[current] = <<>> THEN "zombify" ELSE "take"
  <2>1. b \in PCs
    BY <1>2
  <2> HIDE DEF b
  <2>2. ExitTo("drain", b)
    BY <1>5 DEF ExitDrain, b
  <2> QED
    BY <1>1, <1>2, <1>5, <2>1, <2>2 DEF ExitDrain, TypeOK
<1>6. CASE ExitTake
  <2>1. /\ wait_queue[current] # <<>> /\ wait_queue[current] \in Seq(Slots)
        /\ held' = [held EXCEPT ![current] = Head(wait_queue[current])]
        /\ wait_queue' = [wait_queue EXCEPT ![current] = Tail(@)]
    BY <1>6 DEF ExitTake, TypeOK
  <2>2. Head(wait_queue[current]) \in Slots /\ Tail(wait_queue[current]) \in Seq(Slots)
    BY <2>1, DequeueProperties
  <2>3. held' \in [Slots -> Slots] /\ wait_queue' \in [Slots -> Seq(Slots)]
    BY <2>1, <2>2 DEF TypeOK
  <2> QED
    BY <1>1, <1>2, <1>6, <2>3 DEF ExitTake, TypeOK
<1>7. CASE ExitWake
  <2>1. state' \in [Slots -> States]
    BY <1>3, <1>7 DEF ExitWake, TypeOK, States
  <2> QED
    BY <1>1, <1>2, <1>7, <2>1 DEF ExitWake, TypeOK
<1>8. CASE ExitPush
  <2>1. Ready \in Queues /\ LevelOf(held[current]) \in Queues
    BY <1>3, EnqueueTypes, ReadyProperties
  <2>2. target' \in [Slots -> Queues]
    BY <1>8, <2>1 DEF ExitPush, TypeOK
  <2> QED
    BY <1>1, <1>2, <1>8, <2>2 DEF ExitPush, TypeOK
<1>9. CASE ExitStore
  <2> DEFINE l == target[current]
             p == held[current]
             q == IF l = Ready THEN ready_queue ELSE queues[l]
  <2>1. Ready \in Queues /\ 0 \in Slots /\ l \in Queues /\ p \in Slots
    BY <1>3, ReadyProperties, ConstantsAssumption
  <2>2. CASE /\ ExitTo("store", "drain")
             /\ target' = [target EXCEPT ![current] = Ready]
             /\ held' = [held EXCEPT ![current] = Idle]
             /\ UNCHANGED queued
    <3>1. target' \in [Slots -> Queues] /\ held' \in [Slots -> Slots]
      BY <2>1, <2>2 DEF TypeOK
    <3> QED
      BY <1>1, <1>2, <1>9, <2>2, <3>1 DEF ExitStore, TypeOK
  <2>3. CASE /\ ExitTo("store", "bump")
             /\ ready_queue' = IF l = Ready THEN Append(q, p) ELSE ready_queue
             /\ queues' = IF l = Ready THEN queues ELSE [queues EXCEPT ![l] = Append(q, p)]
             /\ uncounted' = [uncounted EXCEPT ![l] = @ \cup {pid[current]}]
             /\ UNCHANGED <<target, held>>
    <3>1. l # Ready => l \in Levels
      BY <2>1, ConstantsAssumption DEF Queues, Ready
    <3>2. q \in Seq(Slots)
      BY <3>1 DEF TypeOK
    <3> HIDE DEF q, p
    <3>3. Append(q, p) \in Seq(Slots)
      BY <2>1, <3>2
    <3> HIDE DEF l
    <3>4. ready_queue' \in Seq(Slots) /\ queues' \in [Levels -> Seq(Slots)]
      BY <2>3, <3>1, <3>3 DEF TypeOK
    <3>5. uncounted[l] \cup {pid[current]} \in PidSets
      <4>1. pid[current] \in Nat /\ uncounted[l] \in SUBSET Nat /\ IsFiniteSet(uncounted[l])
        BY <2>1 DEF TypeOK, PidSets
      <4>2. IsFiniteSet(uncounted[l] \cup {pid[current]})
        BY <4>1, FS_AddElement
      <4> QED
        BY <4>1, <4>2 DEF PidSets
    <3>6. uncounted' \in [Queues -> PidSets]
      BY <2>3, <3>5 DEF TypeOK
    <3> QED
      BY <1>1, <1>2, <1>9, <2>3, <3>4, <3>6 DEF ExitStore, TypeOK
  <2> HIDE DEF q, p, l
  <2> QED
    BY <1>9, <2>2, <2>3 DEF ExitStore, l, p, q
<1>10. CASE ExitBump
  <2>1. 0 \in Slots /\ Ready \in Queues
    BY ReadyProperties, ConstantsAssumption
  <2>2. target' \in [Slots -> Queues] /\ held' \in [Slots -> Slots]
    BY <1>10, <2>1 DEF ExitBump, TypeOK
  <2>3. uncounted[target[current]] \ {pid[current]} \in PidSets
    BY <1>3, FS_RemoveElement DEF TypeOK, PidSets
  <2>4. uncounted' \in [Queues -> PidSets]
    BY <1>10, <2>3 DEF ExitBump, TypeOK
  <2> QED
    BY <1>1, <1>2, <1>10, <2>2, <2>4 DEF ExitBump, TypeOK
<1>11. CASE ExitZombify
  <2>1. state' \in [Slots -> States]
    BY <1>11 DEF ExitZombify, TypeOK, States
  <2> QED
    BY <1>1, <1>2, <1>11, <2>1 DEF ExitZombify, TypeOK
<1>12. CASE ExitCount
  BY <1>1, <1>2, <1>12, SMTT(20) DEF ExitCount, TypeOK
<1> QED
  BY <1>4, <1>5, <1>6, <1>7, <1>8, <1>9, <1>10, <1>11, <1>12 DEF Cleaner

\* The first of the frames, and what is left when it is done.
LEMMA FrameProperties ==
  ASSUME TypeOK, frames # <<>>
  PROVE  /\ Head(frames) \in Frames /\ Tail(frames) \in Seq(Frames)
         /\ Arg \in Nat /\ Head(frames).i \in 0 .. ProcMax
<1>1. Head(frames) \in Frames /\ Tail(frames) \in Seq(Frames)
  BY HeadTailProperties DEF TypeOK
<1> QED
  BY <1>1 DEF Arg, Frames

\* One turn of a loop of sched_set_mode.
LEMMA MoveTypes == TypeOK /\ MoveStep => TypeOK'
<1> SUFFICES ASSUME TypeOK, MoveStep PROVE TypeOK'
  OBVIOUS
<1> USE DEF table, waits, pool, queued
<1>1. Tail(frames) \in Seq(Frames)
  BY FrameProperties DEF MoveStep, InFrame
<1>2. /\ ready_queue' \in Seq(Slots) /\ queues' \in [Levels -> Seq(Slots)]
      /\ uncounted' \in [Queues -> PidSets] /\ target' \in [Slots -> Queues]
  <2>1. CASE /\ SomeReady(ready_queue)
             /\ ready_queue' = Tail(ready_queue)
             /\ queues' = [queues EXCEPT ![PQSize] =
                             EnqueueIn(@, PQSize, Head(ready_queue))]
             /\ UNCHANGED <<uncounted, target>>
    <3>1. PQSize \in Levels /\ queues[PQSize] \in Seq(Slots)
      BY ConstantsAssumption DEF TypeOK
    <3>2. Head(ready_queue) \in Slots /\ Tail(ready_queue) \in Seq(Slots)
      BY <2>1, DequeueProperties, ReadyProperties DEF TypeOK
    <3>3. EnqueueIn(queues[PQSize], PQSize, Head(ready_queue)) \in Seq(Slots)
      BY <3>1, <3>2, EnqueueInProperties, ReadyProperties
    <3> QED
      BY <2>1, <3>2, <3>3 DEF TypeOK
  <2>2. CASE /\ NonEmpty(queues) # {}
             /\ ready_queue' = EnqueueIn(ready_queue, Ready,
                                         Head(queues[FirstLevel(queues)]))
             /\ queues' = RotatedTail(queues) /\ Renamed(queues)
    <3>1. queues \in [Levels -> Seq(Slots)] /\ ready_queue \in Seq(Slots)
      BY DEF TypeOK
    <3>2. /\ Head(queues[FirstLevel(queues)]) \in Slots
          /\ RotatedTail(queues) \in [Levels -> Seq(Slots)]
          /\ uncounted' \in [Queues -> PidSets] /\ target' \in [Slots -> Queues]
      BY <2>2, <3>1, RotateProperties
    <3> QED
      BY <2>2, <3>1, <3>2, EnqueueInProperties, ReadyProperties
  <2>3. CASE UNCHANGED <<queued, target>>
    BY <2>3 DEF TypeOK
  <2> QED
    BY <2>1, <2>2, <2>3, Zenon DEF MoveStep
<1>3. frames' \in Seq(Frames)
  BY <1>1 DEF MoveStep, TypeOK
<1> QED
  BY <1>2, <1>3 DEF MoveStep, TypeOK

\* A pid that is in the table has a slot.
LEMMA SlotOfType ==
  ASSUME NEW p, SlotsOf(p) # {}
  PROVE  SlotOf(p) \in Slots /\ state[SlotOf(p)] # "free" /\ pid[SlotOf(p)] = p
<1>1. SlotOf(p) \in SlotsOf(p)
  BY DEF SlotOf
<1> QED
  BY <1>1 DEF SlotsOf

\* One turn of process_cleanpid.
LEMMA CleanTypes == TypeOK /\ CleanStep => TypeOK'
<1> SUFFICES ASSUME TypeOK, CleanStep PROVE TypeOK'
  OBVIOUS
<1> USE DEF table, marks, queued
<1>1. Tail(frames) \in Seq(Frames)
  BY FrameProperties DEF CleanStep, InFrame
<1>2. UNCHANGED <<table, sleeptime, waitpid, marks, current, sched_mode,
                  read_pblocks, pid_seed>>
  BY DEF CleanStep
<1> DEFINE s == SlotOf(Arg)
           p == Head(wait_queue[s])
<1>3. CASE frames' = Tail(frames) /\ UNCHANGED <<state, wait_queue, queued, available>>
  BY <1>1, <1>2, <1>3 DEF TypeOK
<1>4. CASE /\ SlotsOf(Arg) # {} /\ wait_queue[s] # <<>>
           /\ wait_queue' = [wait_queue EXCEPT ![s] = Tail(@)]
           /\ state' = [state EXCEPT ![p] = "ready"]
           /\ SchedEnqueue(p)
           /\ UNCHANGED <<frames, available>>
  <2>1. s \in Slots /\ wait_queue[s] \in Seq(Slots)
    BY <1>4, SlotOfType DEF TypeOK
  <2>2. p \in Slots /\ Tail(wait_queue[s]) \in Seq(Slots)
    BY <1>4, <2>1, DequeueProperties
  <2> HIDE DEF p, s
  <2>3. /\ ready_queue' \in Seq(Slots) /\ queues' \in [Levels -> Seq(Slots)]
        /\ UNCHANGED uncounted
    BY <1>4, <2>2, EnqueueTypes DEF SchedEnqueue
  <2>4. wait_queue' \in [Slots -> Seq(Slots)]
    BY <1>4, <2>2 DEF TypeOK
  <2>5. state' \in [Slots -> States]
    BY <1>4 DEF TypeOK, States
  <2> QED
    BY <1>2, <1>4, <2>3, <2>4, <2>5 DEF TypeOK
<1>5. CASE /\ state' = [state EXCEPT ![s] = "zombie"]
           /\ available' = available + 1
           /\ frames' = Tail(frames)
           /\ UNCHANGED <<wait_queue, queued>>
  <2> HIDE DEF s
  <2>1. state' \in [Slots -> States]
    BY <1>5 DEF TypeOK, States
  <2>2. available' \in Int /\ frames' \in Seq(Frames)
    BY <1>1, <1>5 DEF TypeOK
  <2>3. UNCHANGED <<wait_queue, ready_queue, queues, uncounted>>
    BY <1>5
  <2> QED
    BY <1>2, <2>1, <2>2, <2>3 DEF TypeOK
<1> QED
  BY <1>3, <1>4, <1>5 DEF CleanStep

\* One turn of process_kill_children.
LEMMA KidsTypes == TypeOK /\ KidsStep => TypeOK'
<1> SUFFICES ASSUME TypeOK, KidsStep PROVE TypeOK'
  OBVIOUS
<1> DEFINE i == Head(frames).i
           next == <<Frame("kids", Arg, i + 1)>> \o Tail(frames)
<1>1. Tail(frames) \in Seq(Frames) /\ Arg \in Nat /\ i \in 0 .. ProcMax
  BY FrameProperties DEF KidsStep, InFrame
<1>2. CASE i = ProcMax
  <2>1. frames' \in Seq(Frames)
    BY <1>1, <1>2 DEF KidsStep
  <2> QED
    BY <2>1 DEF KidsStep, TypeOK, table, waits, marks, cpu, pool, queued
<1>3. CASE i # ProcMax
  <2>1. i + 1 \in 0 .. ProcMax /\ i \in Slots
    BY <1>1, <1>3, ConstantsAssumption
  <2>2. Frame("kids", Arg, i + 1) \in Frames
    BY <1>1, <2>1 DEF Frame, Frames, Ops
  <2> HIDE DEF i
  <2>3. next \in Seq(Frames)
    <3>1. <<Frame("kids", Arg, i + 1)>> \in Seq(Frames)
      BY <2>2
    <3> QED
      BY <1>1, <3>1, ConcatProperties
  <2> HIDE DEF next
  <2>4. Handler(i) \o next \in Seq(Frames)
    BY <2>1, <2>3, HandlerType, ConcatProperties
  <2>5. frames' = next \/ frames' = Handler(i) \o next
    BY <1>3 DEF KidsStep, next, i
  <2>6. frames' \in Seq(Frames)
    BY <2>3, <2>4, <2>5
  <2> QED
    BY <2>6 DEF KidsStep, TypeOK, table, waits, marks, cpu, pool, queued
<1> QED
  BY <1>2, <1>3

\* One turn of scheduler_tick.
LEMMA TickTypes == TypeOK /\ TickStep => TypeOK'
<1> SUFFICES ASSUME TypeOK, TickStep PROVE TypeOK'
  OBVIOUS
<1> USE DEF table, marks, pool, queued
<1> DEFINE i == Head(frames).i
<1>1. Tail(frames) \in Seq(Frames) /\ i \in 0 .. ProcMax
  BY FrameProperties DEF TickStep, InFrame
<1>2. UNCHANGED <<table, waitpid, wait_queue, marks, current, sched_mode, pool>>
  BY DEF TickStep
<1>3. CASE i = ProcMax
  <2>1. ~(i < ProcMax)
    BY <1>3, ConstantsAssumption
  <2>2. frames' = Tail(frames) /\ UNCHANGED <<state, sleeptime, queued>>
    BY <1>3, <2>1 DEF TickStep
  <2> QED
    BY <1>1, <1>2, <2>2 DEF TypeOK
<1>4. CASE i < ProcMax
  <2>1. i + 1 \in 0 .. ProcMax /\ i \in Slots
    BY <1>1, <1>4, ConstantsAssumption
  <2>2. <<Frame("tick", 0, i + 1)>> \in Seq(Frames)
    BY <2>1 DEF Frame, Frames, Ops
  <2>3. frames' \in Seq(Frames)
    <3>1. frames' = <<Frame("tick", 0, i + 1)>> \o Tail(frames)
      BY <1>4, ConstantsAssumption DEF TickStep
    <3> QED
      BY <1>1, <2>2, <3>1, ConcatProperties
  <2> HIDE DEF i
  <2>4. \/ /\ Sleeping(i)
           /\ sleeptime' = [sleeptime EXCEPT ![i] = @ - 1]
           /\ \/ state' = [state EXCEPT ![i] = "ready"] /\ SchedEnqueue(i)
              \/ UNCHANGED <<state, queued>>
        \/ UNCHANGED <<state, sleeptime, queued>>
    <3>1. i # ProcMax
      BY <1>4, ConstantsAssumption DEF i
    <3> QED
      BY <3>1, Zenon DEF TickStep, i
  <2>5. /\ ready_queue' \in Seq(Slots) /\ queues' \in [Levels -> Seq(Slots)]
        /\ UNCHANGED uncounted
    BY <2>1, <2>4, EnqueueTypes, SMTT(20) DEF SchedEnqueue, TypeOK
  <2>6. sleeptime' \in [Slots -> Nat]
    <3>1. CASE Sleeping(i) /\ sleeptime' = [sleeptime EXCEPT ![i] = @ - 1]
      <4>1. sleeptime \in [Slots -> Nat] /\ sleeptime[i] > 0
        BY <3>1, Zenon DEF Sleeping, TypeOK
      <4> QED
        BY <2>1, <3>1, <4>1
    <3>2. CASE UNCHANGED <<state, sleeptime, queued>>
      BY <3>2 DEF TypeOK
    <3> QED
      BY <2>4, <3>1, <3>2
  <2>7. state' \in [Slots -> States]
    <3>1. state' = [state EXCEPT ![i] = "ready"] \/ state' = state
      BY <2>4
    <3> QED
      BY <3>1 DEF TypeOK, States
  <2> QED
    BY <1>2, <2>3, <2>5, <2>6, <2>7 DEF TypeOK
<1> QED
  BY <1>1, <1>3, <1>4, ConstantsAssumption

\* One turn of unlock_contexts.
LEMMA UnlockTypes == TypeOK /\ UnlockStep => TypeOK'
<1> SUFFICES ASSUME TypeOK, UnlockStep PROVE TypeOK'
  OBVIOUS
<1> USE DEF table, waits, marks, queued
<1>1. Tail(frames) \in Seq(Frames) /\ Arg \in Ttys
  BY FrameProperties DEF UnlockStep, InFrame, Arg, Frames
<1>2. UNCHANGED <<table, state, waits, marks, current, sched_mode, available, pid_seed>>
  BY DEF UnlockStep
<1>3. CASE frames' = Tail(frames) /\ UNCHANGED <<read_pblocks, queued>>
  BY <1>1, <1>2, <1>3 DEF TypeOK
<1>4. CASE /\ read_pblocks[Arg] # <<>>
           /\ SchedEnqueue(Head(read_pblocks[Arg]))
           /\ read_pblocks' = [read_pblocks EXCEPT ![Arg] = Tail(@)]
           /\ UNCHANGED frames
  <2>1. read_pblocks[Arg] \in Seq(Slots)
    BY <1>1 DEF TypeOK
  <2>2. Head(read_pblocks[Arg]) \in Slots /\ Tail(read_pblocks[Arg]) \in Seq(Slots)
    BY <1>4, <2>1, DequeueProperties
  <2>3. /\ ready_queue' \in Seq(Slots) /\ queues' \in [Levels -> Seq(Slots)]
        /\ UNCHANGED uncounted
    BY <1>4, <2>2, EnqueueTypes DEF SchedEnqueue
  <2>4. read_pblocks' \in [Ttys -> Seq(Slots)]
    BY <1>4, <2>2 DEF TypeOK
  <2> QED
    BY <1>2, <1>4, <2>3, <2>4 DEF TypeOK
<1> QED
  BY <1>3, <1>4 DEF UnlockStep

\* The steps in which scheduler_think runs.
LEMMA SwitchTypes == TypeOK /\ (Timer \/ Yield \/ ThinkAgain) => TypeOK'
<1> SUFFICES ASSUME TypeOK, Timer \/ Yield \/ ThinkAgain PROVE TypeOK'
  OBVIOUS
<1> USE DEF table, waits, marks, pool
<1>1. Think
  BY DEF Timer, Yield, ThinkAgain
<1>2. /\ current' \in Slots /\ state' \in [Slots -> States]
      /\ ready_queue' \in Seq(Slots) /\ queues' \in [Levels -> Seq(Slots)]
      /\ uncounted' \in [Queues -> PidSets] /\ target' \in [Slots -> Queues]
      /\ frames' \in Seq(Frames)
  BY <1>1, ThinkTypes
<1>3. UNCHANGED <<table, waits, held, started, sched_mode, pool>>
  BY <1>1 DEF Think
<1>4. pc' \in [Slots -> PCs]
  BY DEF Timer, Yield, ThinkAgain, TypeOK, PCs
<1> QED
  BY <1>2, <1>3, <1>4 DEF TypeOK

\* The RTC and the keyboard.
LEMMA InterruptTypes ==
  TypeOK /\ (Tick \/ \E t \in Ttys : KeyPress(t) \/ CtrlC(t)) => TypeOK'
<1> SUFFICES ASSUME TypeOK, Tick \/ \E t \in Ttys : KeyPress(t) \/ CtrlC(t)
             PROVE  TypeOK'
  OBVIOUS
<1> USE DEF table, waits, marks, queued, cpu, pool
<1>1. CASE Tick
  <2>1. <<Frame("tick", 0, 0)>> \in Seq(Frames)
    BY ConstantsAssumption DEF Frame, Frames, Ops
  <2> QED
    BY <1>1, <2>1 DEF Tick, Interrupt, TypeOK
<1>2. ASSUME NEW t \in Ttys, KeyPress(t) PROVE TypeOK'
  <2>1. <<Frame("unlock", t, 0)>> \in Seq(Frames)
    BY ConstantsAssumption DEF Frame, Frames, Ops
  <2> QED
    BY <1>2, <2>1 DEF KeyPress, Interrupt, TypeOK
<1>3. ASSUME NEW t \in Ttys, CtrlC(t) PROVE TypeOK'
  <2>1. t \in Slots
    BY ConstantsAssumption
  <2>2. Handler(t) \in Seq(Frames)
    BY <2>1, HandlerType
  <2> QED
    BY <1>3, <2>2 DEF CtrlC, Signal, TypeOK
<1> QED
  BY <1>1, <1>2, <1>3

\* Every step of the kernel keeps the types.
LEMMA NextTypes == TypeOK /\ [Next]_vars => TypeOK'
<1> SUFFICES ASSUME TypeOK, [Next]_vars PROVE TypeOK'
  OBVIOUS
<1>1. CASE ForgetStep
  <2>1. Tail(frames) \in Seq(Frames)
    BY <1>1, FrameProperties DEF ForgetStep, InFrame
  <2>2. waitpid' \in [Slots -> Nat]
    BY <1>1 DEF ForgetStep, TypeOK
  <2> QED
    BY <1>1, <2>1, <2>2
    DEF ForgetStep, TypeOK, table, marks, cpu, queued, pool
<1>2. CASE UNCHANGED vars
  BY <1>2 DEF vars, TypeOK, table, waits, marks, cpu, queued, pool
<1>3. CASE KernelLoop
  BY <1>1, <1>3, SwitchTypes, MoveTypes, CleanTypes, KidsTypes, TickTypes,
     UnlockTypes DEF KernelLoop
<1>4. CASE Halted
  BY <1>2, <1>4 DEF Halted
<1>5. CASE Faults
  <2>1. <<Frame("fault", 0, 0)>> \in Seq(Frames)
    BY ConstantsAssumption DEF Frame, Frames, Ops
  <2> QED
    BY <1>5, <2>1 DEF Faults, Stuck, TypeOK, table, waits, marks, cpu, queued, pool
<1> QED
  BY <1>2, <1>3, <1>4, <1>5, CallTypes, CleanerTypes, SwitchTypes, InterruptTypes DEF Next

\* The scheduler keeps its types, in every instance.
THEOREM TypeCorrect == Spec => []TypeOK
<1> QED
  BY InitTypes, NextTypes, PTL DEF Spec

-----------------------------------------------------------------------------
(* Signals, exits and switches of context *)

Residents == 0 .. NTty

\* A frame of process_cleanpid is never aimed at a resident.
SafeFrames == {f \in Frames : f.op = "clean" => f.arg > NTty}

TableInv ==
  /\ pid_seed > NTty
  /\ \A s \in Residents : pid[s] = s /\ ppid[s] = 0 /\ started[s]
  /\ \A s \in Slots : is_tty[s] <=> s \in Ttys
  /\ \A s \in Slots \ Residents : pid[s] > NTty \/ (pid[s] = 0 /\ ppid[s] = 0)

LifeInv ==
  /\ state[Idle] = "ready"
  /\ \A s \in Ttys : ~Dead(s) /\ pc[s] \in {"user", "yield"}
  /\ \A s \in Ttys : waitpid[s] = 0 \/ waitpid[s] > NTty

\* Idle is not in the ready structure, whose counts are natural numbers.
Awake(rq, qs) == Idle \notin Range(rq) /\ \A l \in Levels : Idle \notin Range(qs[l])
Behind(rq, qs) == Lag(Ready) <= Len(rq) /\ \A l \in Levels : Lag(l) <= Len(qs[l])
ReadyOK == Awake(ready_queue, queues) /\ Behind(ready_queue, queues)

QueueInv ==
  /\ ReadyOK
  /\ \A s \in Slots : Good(wait_queue[s])
  /\ \A t \in Ttys : Good(read_pblocks[t])
  /\ \A s \in Slots : pc[s] \in {"wake", "push", "store"} => held[s] # Idle

KInv == TypeOK /\ TableInv /\ LifeInv /\ frames \in Seq(SafeFrames) /\ QueueInv

\* The empty queue is good.
LEMMA GoodEmpty == Good(<<>>)
BY DEF Good, IsInjective, Range

\* The state idle_main leaves satisfies the invariant.
LEMMA InitKInv == Init => KInv
<1> SUFFICES ASSUME Init PROVE KInv
  OBVIOUS
<1>1. TypeOK
  BY InitTypes
<1>2. TableInv
  <2>1. /\ pid = [s \in Slots |-> IF s <= NTty THEN s ELSE 0]
        /\ ppid = [s \in Slots |-> 0]
        /\ started = [s \in Slots |-> s <= NTty]
        /\ is_tty = [s \in Slots |-> s \in Ttys]
        /\ pid_seed = NTty + 1
    BY DEF Init
  <2>2. pid_seed > NTty /\ \A s \in Residents : s \in Slots /\ s <= NTty
    BY <2>1, ConstantsAssumption DEF Residents
  <2>3. \A s \in Slots \ Residents : ~(s <= NTty)
    BY ConstantsAssumption DEF Residents
  <2> HIDE DEF Slots, Ttys
  <2> QED
    BY <2>1, <2>2, <2>3 DEF TableInv
<1>3. LifeInv
  <2>1. Ttys \subseteq Slots /\ 0 \in Slots
    BY ConstantsAssumption
  <2> QED
    BY <2>1, ConstantsAssumption DEF Init, LifeInv, Dead
<1>4. frames \in Seq(SafeFrames)
  BY DEF Init
<1>5. QueueInv
  <2> DEFINE first == [k \in Ttys |-> k]
  <2>1. Idle \notin Range(first)
    <3>1. DOMAIN first = 1 .. NTty /\ \A k \in 1 .. NTty : first[k] = k
      OBVIOUS
    <3> QED
      BY <3>1, ConstantsAssumption DEF Range
  <2> HIDE DEF first
  <2>2. queues = [l \in Levels |-> IF l = PQSize THEN first ELSE <<>>]
        /\ ready_queue = <<>>
    BY DEF Init, first
  <2>3. Idle \notin Range(<<>>)
    BY DEF Range
  <2>4. Awake(ready_queue, queues)
    BY <2>1, <2>2, <2>3 DEF Awake
  <2>5. \A l \in Queues : Lag(l) = 0
    BY FS_EmptySet DEF Init, Lag
  <2>6. Behind(ready_queue, queues)
    <3>1. \A l \in Levels : Len(queues[l]) \in Nat
      BY <1>1 DEF TypeOK
    <3>2. Len(ready_queue) \in Nat
      BY <2>2
    <3> QED
      BY <1>1, <2>5, <3>1, <3>2, ReadyProperties DEF Behind
  <2> QED
    BY <2>4, <2>6, GoodEmpty DEF Init, QueueInv, ReadyOK
<1> QED
  BY <1>1, <1>2, <1>3, <1>4, <1>5 DEF KInv

-----------------------------------------------------------------------------
(* scheduler_think *)

\* queue_enqueue keeps a ready queue so, for a process that is not idle, and
\* leaves something to dequeue.
LEMMA EnqueueInOK ==
  ASSUME TypeOK, NEW s \in Slots, s # Idle, NEW q \in Seq(Slots), NEW l \in Queues,
         Idle \notin Range(q), Lag(l) <= Len(q)
  PROVE  /\ Idle \notin Range(EnqueueIn(q, l, s))
         /\ Lag(l) < Len(EnqueueIn(q, l, s))
         /\ Lag(l) <= Len(EnqueueIn(q, l, s))
<1>1. /\ EnqueueIn(q, l, s) \in {q, Append(q, s)} /\ EnqueueIn(q, l, s) \in Seq(Slots)
      /\ Lag(l) < Len(EnqueueIn(q, l, s))
  BY EnqueueInProperties
<1>2. Lag(l) \in Nat
  BY LagType
<1>3. Len(EnqueueIn(q, l, s)) \in Nat
  BY <1>1, LenProperties
<1>4. Lag(l) <= Len(EnqueueIn(q, l, s))
  BY <1>1, <1>2, <1>3
<1>5. Idle \notin Range(Append(q, s))
  BY NoIdle
<1> QED
  BY <1>1, <1>4, <1>5

\* So does sched_enqueue.
LEMMA EnqueueOK ==
  ASSUME TypeOK, ReadyOK, NEW s \in Slots, s # Idle
  PROVE  /\ Awake(ReadyWith(s), QueuesWith(s)) /\ Behind(ReadyWith(s), QueuesWith(s))
         /\ IF sched_mode = "rr" THEN SomeReady(ReadyWith(s)) ELSE NonEmpty(QueuesWith(s)) # {}
<1>1. ready_queue \in Seq(Slots) /\ queues \in [Levels -> Seq(Slots)]
  BY DEF TypeOK
<1>2. LevelOf(s) \in Levels /\ Levels \subseteq Queues /\ Ready \in Queues
  BY EnqueueTypes, ReadyProperties
<1> DEFINE l0 == LevelOf(s)
           rq == EnqueueIn(ready_queue, Ready, s)
           q == EnqueueIn(queues[l0], l0, s)
<1>4. l0 \in Levels /\ queues[l0] \in Seq(Slots)
  BY <1>1, <1>2
<1>5. /\ Idle \notin Range(ready_queue) /\ \A l \in Levels : Idle \notin Range(queues[l])
      /\ Lag(Ready) <= Len(ready_queue) /\ \A l \in Levels : Lag(l) <= Len(queues[l])
  BY DEF ReadyOK, Awake, Behind
<1>6. Idle \notin Range(rq) /\ Lag(Ready) < Len(rq) /\ Lag(Ready) <= Len(rq)
  BY <1>1, <1>2, <1>5, EnqueueInOK
<1>7. Idle \notin Range(q) /\ Lag(l0) < Len(q) /\ Lag(l0) <= Len(q)
  BY <1>2, <1>4, <1>5, EnqueueInOK
<1>8. ReadyWith(s) = IF sched_mode = "rr" THEN rq ELSE ready_queue
  BY DEF ReadyWith
<1>9. QueuesWith(s) = IF sched_mode = "rr" THEN queues ELSE [queues EXCEPT ![l0] = q]
  BY DEF QueuesWith
<1> HIDE DEF rq, q, l0
<1>10. CASE sched_mode = "rr"
  BY <1>5, <1>6, <1>8, <1>9, <1>10 DEF Awake, Behind, SomeReady
<1>11. CASE sched_mode # "rr"
  <2>1. ReadyWith(s) = ready_queue /\ QueuesWith(s) = [queues EXCEPT ![l0] = q]
    BY <1>8, <1>9, <1>11
  <2>2. \A l \in Levels : QueuesWith(s)[l] = IF l = l0 THEN q ELSE queues[l]
    BY <1>1, <2>1
  <2>3. l0 \in NonEmpty(QueuesWith(s))
    BY <1>4, <1>7, <2>2 DEF NonEmpty
  <2>4. Awake(ReadyWith(s), QueuesWith(s))
    BY <1>5, <1>7, <2>1, <2>2 DEF Awake
  <2>5. Behind(ReadyWith(s), QueuesWith(s))
    BY <1>5, <1>7, <2>1, <2>2 DEF Behind
  <2> QED
    BY <1>11, <2>3, <2>4, <2>5
<1> QED
  BY <1>10, <1>11

\* So do the two ways to dequeue.
LEMMA TailOK ==
  ASSUME TypeOK, NEW rq \in Seq(Slots), NEW qs, Awake(rq, qs), Behind(rq, qs),
         SomeReady(rq)
  PROVE  Awake(Tail(rq), qs) /\ Behind(Tail(rq), qs) /\ Head(rq) # Idle
<1>1. rq # <<>> /\ Lag(Ready) \in Nat
  BY ReadyProperties, LagType
<1>2. Idle \notin Range(Tail(rq)) /\ Head(rq) # Idle
  BY <1>1, NoIdle DEF Awake
<1>3. Lag(Ready) <= Len(Tail(rq))
  <2>1. Len(Tail(rq)) = Len(rq) - 1 /\ Len(rq) \in Nat /\ Lag(Ready) < Len(rq)
    BY <1>1 DEF SomeReady
  <2> QED
    BY <1>1, <2>1
<1> QED
  BY <1>2, <1>3 DEF Awake, Behind

LEMMA RotationOK ==
  ASSUME TypeOK, NEW rq, NEW qs \in [Levels -> Seq(Slots)], Awake(rq, qs), Behind(rq, qs),
         NonEmpty(qs) # {}, Renamed(qs)
  PROVE  /\ Awake(rq, RotatedTail(qs)) /\ Head(qs[FirstLevel(qs)]) # Idle
         /\ Lag(Ready)' = Lag(Ready)
         /\ \A l \in Levels : Lag(l)' <= Len(RotatedTail(qs)[l])
<1>1. Awake(rq, RotatedTail(qs)) /\ Head(qs[FirstLevel(qs)]) # Idle
  BY NoIdleRotation DEF Awake
<1> DEFINE k == FirstLevel(qs)
<1>2. k \in Levels /\ Len(qs[k]) > Lag(k) /\ qs[k] # <<>> /\ qs[k] \in Seq(Slots)
  BY RotateProperties DEF NonEmpty
<1> HIDE DEF k
<1>3. Levels \subseteq Queues /\ Ready \in Queues /\ Ready \notin Levels
      /\ \A l \in Queues : Lag(l) \in Nat
  BY ReadyProperties, LagType, ConstantsAssumption DEF Ready
<1>4. /\ uncounted' = [l \in Queues |-> IF l = Ready THEN uncounted[l] ELSE uncounted[(l + k) % (PQSize + 1)]]
      /\ RotatedTail(qs) = [l \in Levels |-> IF l = 0 THEN Tail(qs[k]) ELSE qs[(l + k) % (PQSize + 1)]]
  BY DEF Renamed, RotatedTail, k
<1>5. \A l \in Levels : (l + k) % (PQSize + 1) \in Levels
  BY <1>2, ConstantsAssumption, SMT
<1>6. (0 + k) % (PQSize + 1) = k /\ 0 \in Levels
  BY <1>2, Rotation
<1>7. Lag(Ready)' = Lag(Ready)
  BY <1>3, <1>4 DEF Lag
<1>8. ASSUME NEW l \in Levels PROVE Lag(l)' <= Len(RotatedTail(qs)[l])
  <2>1. l \in Queues /\ l # Ready
    BY <1>3
  <2> HIDE DEF Levels
  <2>2. Lag(l)' = Lag((l + k) % (PQSize + 1))
    BY <1>4, <2>1 DEF Lag
  <2>3. CASE l = 0
    <3>1. Len(Tail(qs[k])) = Len(qs[k]) - 1 /\ Len(qs[k]) \in Nat /\ Lag(k) \in Nat
      BY <1>2, <1>3
    <3>2. RotatedTail(qs)[l] = Tail(qs[k]) /\ Lag(l)' = Lag(k)
      BY <1>4, <1>6, <2>2, <2>3
    <3> QED
      BY <1>2, <3>1, <3>2
  <2>4. CASE l # 0
    <3>1. RotatedTail(qs)[l] = qs[(l + k) % (PQSize + 1)]
      BY <1>4, <2>4
    <3> QED
      BY <1>5, <2>2, <3>1 DEF Behind
  <2> QED
    BY <2>3, <2>4
<1> QED
  BY <1>1, <1>7, <1>8 DEF k

\* It kills nobody and frees no slot, leaves idle READY, and hands the CPU over.
LEMMA ThinkSafe ==
  ASSUME KInv, Think
  PROVE  /\ state'[Idle] = "ready"
         /\ \A s \in Slots : ~Dead(s) => state'[s] \notin {"zombie", "free"}
         /\ ReadyOK'
         /\ frames' \in Seq(SafeFrames)
         /\ RunningIsCurrent => RunningIsCurrent'
<1> DEFINE rq == IF Requeues THEN ReadyWith(current) ELSE ready_queue
           qs == IF Requeues THEN QueuesWith(current) ELSE queues
           st == IF Requeues THEN [state EXCEPT ![current] = "ready"] ELSE state
<1>1. TypeOK /\ current \in Slots /\ state \in [Slots -> States] /\ 0 \in Slots
      /\ state[Idle] = "ready"
  <2>1. TypeOK /\ LifeInv
    BY DEF KInv
  <2>2. 0 \in Slots
    BY ConstantsAssumption
  <2>3. current \in Slots /\ state \in [Slots -> States]
    BY <2>1 DEF TypeOK
  <2> QED
    BY <2>1, <2>2, <2>3, Zenon DEF LifeInv
<1>2. rq \in Seq(Slots) /\ qs \in [Levels -> Seq(Slots)]
  BY <1>1, EnqueueTypes DEF TypeOK
<1>3. /\ Awake(rq, qs) /\ Behind(rq, qs)
      /\ Requeues => IF sched_mode = "rr" THEN SomeReady(rq) ELSE NonEmpty(qs) # {}
  <2>1. ReadyOK /\ (Requeues => current # Idle)
    BY DEF Requeues, KInv, QueueInv
  <2>2. CASE Requeues
    BY <1>1, <2>1, <2>2, EnqueueOK
  <2>3. CASE ~Requeues
    BY <2>1, <2>3 DEF ReadyOK
  <2> QED
    BY <2>2, <2>3
<1>4. /\ st \in [Slots -> States] /\ st[Idle] = "ready"
      /\ \A s \in Slots : \/ st[s] = state[s]
                          \/ st[s] = "ready" /\ state[s] = "running"
      /\ RunningIsCurrent => \A s \in Slots : st[s] # "running"
  <2>1. CASE Requeues
    BY <1>1, <2>1 DEF Requeues, States, RunningIsCurrent
  <2>2. CASE ~Requeues
    BY <1>1, <2>2 DEF Requeues, RunningIsCurrent
  <2> QED
    BY <2>1, <2>2
<1> HIDE DEF st
<1>5. ASSUME NEW s \in Slots, s # Idle, Dispatch(s)
      PROVE  /\ state'[Idle] = "ready"
             /\ \A x \in Slots : ~Dead(x) => state'[x] \notin {"zombie", "free"}
             /\ frames' \in Seq(SafeFrames)
             /\ RunningIsCurrent => RunningIsCurrent'
  <2>1. /\ current' = s
        /\ \/ state' = st
           \/ state' = [st EXCEPT ![s] = "running"] /\ state[s] # "zombie"
        /\ frames' = <<Frame("think", 0, 0)>> \/ frames' = <<>>
    BY <1>5 DEF Dispatch, TookZombie, st
  <2> QED
    <3>1. state' \in [Slots -> States] /\ state'[Idle] = "ready"
      BY <1>1, <1>4, <1>5, <2>1 DEF States
    <3>2. \A x \in Slots : ~Dead(x) => state'[x] \notin {"zombie", "free"}
      BY <1>4, <2>1 DEF Dead
    <3>3. frames' \in Seq(SafeFrames)
      <4>1. Frame("think", 0, 0) \in SafeFrames
        BY ConstantsAssumption DEF Frame, Frames, SafeFrames, Ops
      <4>2. <<Frame("think", 0, 0)>> \in Seq(SafeFrames) /\ <<>> \in Seq(SafeFrames)
        BY <4>1
      <4> QED
        BY <2>1, <4>2, Zenon
    <3>4. RunningIsCurrent => RunningIsCurrent'
      BY <1>4, <2>1 DEF RunningIsCurrent
    <3> QED
      BY <3>1, <3>2, <3>3, <3>4
<1> HIDE DEF rq, qs
<1>6. CASE /\ SomeReady(rq) /\ Dispatch(Head(rq))
           /\ ready_queue' = Tail(rq) /\ queues' = qs
           /\ UNCHANGED <<uncounted, target>>
  <2>1. Awake(Tail(rq), qs) /\ Behind(Tail(rq), qs) /\ Head(rq) # Idle
    BY <1>1, <1>2, <1>3, <1>6, TailOK
  <2>2. Head(rq) \in Slots
    BY <1>1, <1>2, <1>6, DequeueProperties, ReadyProperties
  <2>3. ReadyOK'
    BY <1>6, <2>1 DEF ReadyOK, Awake, Behind, Lag
  <2> QED
    BY <1>5, <1>6, <2>1, <2>2, <2>3
<1>7. CASE /\ NonEmpty(qs) # {} /\ Dispatch(Head(qs[FirstLevel(qs)]))
           /\ ready_queue' = rq /\ queues' = RotatedTail(qs) /\ Renamed(qs)
  <2>1. /\ Awake(rq, RotatedTail(qs)) /\ Head(qs[FirstLevel(qs)]) # Idle
        /\ Lag(Ready)' = Lag(Ready)
        /\ \A l \in Levels : Lag(l)' <= Len(RotatedTail(qs)[l])
    BY <1>1, <1>2, <1>3, <1>7, RotationOK
  <2>2. Head(qs[FirstLevel(qs)]) \in Slots
    BY <1>1, <1>2, <1>7, RotateProperties
  <2>3. Awake(ready_queue, queues)'
    BY <1>7, <2>1 DEF Awake
  <2>4. Behind(ready_queue, queues)'
    BY <1>3, <1>7, <2>1 DEF Behind
  <2> QED
    BY <1>5, <1>7, <2>1, <2>2, <2>3, <2>4 DEF ReadyOK
<1>8. CASE /\ current' = Idle /\ frames' = <<>> /\ UNCHANGED <<state, queued, target>>
           /\ ~Requeues
  <2>1. RunningIsCurrent => RunningIsCurrent'
    BY <1>1, <1>8 DEF RunningIsCurrent, Requeues
  <2>2. ReadyOK'
    BY <1>8 DEF KInv, QueueInv, queued, ReadyOK, Awake, Behind, Lag
  <2> QED
    BY <1>1, <1>8, <2>1, <2>2 DEF Dead
<1>9. \/ /\ SomeReady(rq) /\ Dispatch(Head(rq))
         /\ ready_queue' = Tail(rq) /\ queues' = qs
         /\ UNCHANGED <<uncounted, target>>
      \/ /\ NonEmpty(qs) # {} /\ Dispatch(Head(qs[FirstLevel(qs)]))
         /\ ready_queue' = rq /\ queues' = RotatedTail(qs) /\ Renamed(qs)
      \/ /\ current' = Idle /\ frames' = <<>> /\ UNCHANGED <<state, queued, target>>
         /\ IF sched_mode = "rr" THEN ~SomeReady(rq) ELSE NonEmpty(qs) = {}
  BY Zenon DEF Think, rq, qs
<1> QED
  BY <1>3, <1>6, <1>7, <1>8, <1>9

-----------------------------------------------------------------------------
(* The process table *)

\* Only pcreate writes the fields that say who a process is, and started is
\* never taken back but for a new process.
LEMMA OtherSteps ==
  ASSUME TypeOK, [Next]_vars, ~PCreate
  PROVE  /\ UNCHANGED <<pid, ppid, is_tty, pid_seed>>
         /\ \A s \in Slots : started[s] => started'[s]
<1> USE DEF table, waits, marks, pool, cpu
<1>1. CASE UNCHANGED vars
  BY <1>1 DEF vars
<1>2. CASE SysCall
  <2>1. ASSUME NEW c \in Slots, PRun(c)
        PROVE  /\ UNCHANGED <<pid, ppid, is_tty, pid_seed>>
               /\ \A s \in Slots : started[s] => started'[s]
    BY <2>1 DEF PRun, TypeOK
  <2> QED
    BY <1>2, <2>1
    DEF SysCall, PCreateSpins, Stuck, WaitPid, Sleep, ReadBlock,
        SetPriority, Kill, Signal, SetSched
<1>3. CASE Cleaner
  BY <1>3
  DEF Cleaner, Exit, ExitDrain, ExitTake, ExitWake, ExitPush, ExitStore, ExitBump,
      ExitZombify, ExitCount, ExitTo
<1>4. CASE KernelLoop
  BY <1>4
  DEF KernelLoop, ThinkAgain, Think, MoveStep, CleanStep, KidsStep, ForgetStep,
      TickStep, UnlockStep
<1>5. CASE Timer \/ Yield
  BY <1>5 DEF Timer, Yield, Think
<1>6. CASE Tick \/ \E t \in Ttys : KeyPress(t) \/ CtrlC(t)
  BY <1>6 DEF Tick, KeyPress, CtrlC, Signal, Interrupt
<1> QED
  BY <1>1, <1>2, <1>3, <1>4, <1>5, <1>6 DEF Next, Halted, Faults, Stuck

\* The slot of a new process is not that of a resident.
LEMMA GetFreeProperties ==
  ASSUME KInv, FreeSlots # {}
  PROVE  GetFree \in Slots \ Residents /\ Dead(GetFree)
<1>1. \A S \in SUBSET Slots : S # {} => Min(S) \in S
  <2>1. Slots \in SUBSET Nat
    OBVIOUS
  <2> QED
    BY <2>1, MinProperties
<1>2. GetFree \in FreeSlots
  BY <1>1 DEF GetFree, FreeSlots
<1>3. \A s \in Residents : ~Dead(s)
  <2>1. \A s \in Residents : s = Idle \/ s \in Ttys
    BY ConstantsAssumption DEF Residents
  <2> QED
    BY <2>1 DEF KInv, LifeInv, Dead
<1> QED
  BY <1>2, <1>3 DEF FreeSlots

\* The pids of the residents stay below the others.
LEMMA TableStep == KInv /\ [Next]_vars => TableInv'
<1> SUFFICES ASSUME KInv, [Next]_vars PROVE TableInv'
  OBVIOUS
<1>1. TypeOK /\ TableInv
  BY DEF KInv
<1>2. CASE PCreate
  <2> DEFINE c == GetFree
  <2>1. c \in Slots \ Residents
    BY <1>2, GetFreeProperties DEF PCreate
  <2> HIDE DEF c
  <2>2. /\ pid' = [pid EXCEPT ![c] = pid_seed]
        /\ ppid' = [ppid EXCEPT ![c] = pid'[current]]
        /\ is_tty' = [is_tty EXCEPT ![c] = FALSE]
        /\ started' = [started EXCEPT ![c] = FALSE]
        /\ pid_seed' = pid_seed + 1
    BY <1>2 DEF PCreate, c
  <2>3. pid_seed \in Nat /\ NTty \in Nat /\ c \notin Ttys
    BY <1>1, <2>1, ConstantsAssumption DEF TypeOK, Residents
  <2>4. Residents \subseteq Slots
    BY ConstantsAssumption DEF Residents
  <2>5. pid \in [Slots -> Nat] /\ ppid \in [Slots -> Nat] /\ is_tty \in [Slots -> BOOLEAN]
        /\ started \in [Slots -> BOOLEAN]
    BY <1>1 DEF TypeOK
  <2>6. pid_seed' > NTty /\ pid_seed > NTty
    BY <1>1, <2>2, <2>3 DEF TableInv
  <2> HIDE DEF Slots, Ttys
  <2>7. \A s \in Residents : pid'[s] = s /\ ppid'[s] = 0 /\ started'[s]
    BY <1>1, <2>1, <2>2, <2>4, <2>5 DEF TableInv
  <2>8. \A s \in Slots : is_tty'[s] <=> s \in Ttys
    BY <1>1, <2>1, <2>2, <2>3, <2>5 DEF TableInv
  <2>9. \A s \in Slots \ Residents : pid'[s] > NTty \/ (pid'[s] = 0 /\ ppid'[s] = 0)
    BY <1>1, <2>1, <2>2, <2>5, <2>6 DEF TableInv
  <2> QED
    BY <2>6, <2>7, <2>8, <2>9 DEF TableInv
<1>3. CASE ~PCreate
  <2>1. Residents \subseteq Slots
    BY ConstantsAssumption DEF Residents
  <2> HIDE DEF Slots, Ttys
  <2> QED
    BY <1>1, <1>3, <2>1, OtherSteps DEF TableInv
<1> QED
  BY <1>2, <1>3

-----------------------------------------------------------------------------
(* Signals *)

\* A frame of any other loop is safe, and one of process_cleanpid that is aimed
\* at no resident.
LEMMA SafeFrame ==
  ASSUME NEW op \in Ops \ {"unlock"}, NEW a \in Nat, NEW i \in 0 .. ProcMax,
         op = "clean" => a > NTty
  PROVE  Frame(op, a, i) \in SafeFrames
BY DEF Frame, Frames, SafeFrames

\* A handler that is called for a shell, or for a process that is not a
\* resident, aims at no resident.
LEMMA HandlerSafe ==
  ASSUME KInv, NEW s \in Slots, is_tty[s] \/ pid[s] > NTty
  PROVE  Handler(s) \in Seq(SafeFrames)
<1>1. pid[s] \in Nat /\ waitpid[s] \in Nat /\ s \in Nat /\ 0 \in 0 .. ProcMax
  <2>1. pid \in [Slots -> Nat] /\ waitpid \in [Slots -> Nat]
    BY Zenon DEF KInv, TypeOK
  <2> QED
    BY <2>1, ConstantsAssumption
<1>2. {"clean", "kids", "forget"} \subseteq Ops \ {"unlock"}
  BY DEF Ops
<1>3. CASE ~is_tty[s]
  <2>1. Frame("clean", pid[s], 0) \in SafeFrames /\ Frame("kids", pid[s], 0) \in SafeFrames
    BY <1>1, <1>2, <1>3, SafeFrame
  <2>2. <<Frame("clean", pid[s], 0), Frame("kids", pid[s], 0)>> \in Seq(SafeFrames)
    BY <2>1
  <2> QED
    BY <1>3, <2>2 DEF Handler
<1>4. CASE is_tty[s] /\ waitpid[s] = 0
  <2>1. <<>> \in Seq(SafeFrames)
    OBVIOUS
  <2> QED
    BY <1>4, <2>1 DEF Handler
<1>5. CASE is_tty[s] /\ waitpid[s] # 0
  <2>1. waitpid[s] > NTty
    BY <1>5 DEF KInv, TableInv, LifeInv
  <2>2. Frame("clean", waitpid[s], 0) \in SafeFrames /\ Frame("forget", s, 0) \in SafeFrames
    BY <1>1, <1>2, <2>1, SafeFrame
  <2>3. <<Frame("clean", waitpid[s], 0), Frame("forget", s, 0)>> \in Seq(SafeFrames)
    BY <2>2
  <2> QED
    BY <1>5, <2>3 DEF Handler
<1> QED
  BY <1>3, <1>4, <1>5

\* The frames in progress never come to aim at a resident.
LEMMA FramesStep == KInv /\ [Next]_vars => frames' \in Seq(SafeFrames)
<1> SUFFICES ASSUME KInv, [Next]_vars PROVE frames' \in Seq(SafeFrames)
  OBVIOUS
<1>1. TypeOK /\ TableInv /\ frames \in Seq(SafeFrames) /\ 0 \in 0 .. ProcMax
  <2>1. 0 \in 0 .. ProcMax
    BY ConstantsAssumption
  <2> QED
    BY <2>1, Zenon DEF KInv
<1>2. frames # <<>> => Tail(frames) \in Seq(SafeFrames)
  BY <1>1, HeadTailProperties
<1>3. \A op \in Ops \ {"unlock", "clean"} : <<Frame(op, 0, 0)>> \in Seq(SafeFrames)
  BY <1>1, SafeFrame
<1>4. CASE UNCHANGED frames
  BY <1>1, <1>4
<1>5. CASE frames # <<>> /\ frames' = Tail(frames)
  BY <1>2, <1>5
<1>6. CASE PCreateSpins \/ Faults
  BY <1>3, <1>6 DEF PCreateSpins, Faults, Stuck, Ops
<1>7. ASSUME NEW m \in Modes, SetSched(m) PROVE frames' \in Seq(SafeFrames)
  BY <1>3, <1>7 DEF SetSched, Ops
<1>8. ASSUME NEW s \in Slots, Kill(s) PROVE frames' \in Seq(SafeFrames)
  <2>1. is_tty[s] \/ pid[s] > NTty
    <3>1. pid[s] # 0 /\ (s \in Residents \/ s \notin Residents)
      BY <1>8 DEF Kill
    <3>2. s \in Residents => s = 0 \/ s \in Ttys
      BY ConstantsAssumption DEF Residents
    <3> QED
      BY <1>1, <3>1, <3>2 DEF TableInv
  <2> QED
    BY <1>8, <2>1, HandlerSafe DEF Kill, Signal
<1>9. ASSUME NEW s \in Ttys, CtrlC(s) PROVE frames' \in Seq(SafeFrames)
  <2>1. s \in Slots
    BY ConstantsAssumption
  <2> QED
    BY <1>9, <2>1, HandlerSafe DEF CtrlC, Signal
<1>10. CASE KidsStep
  <2> DEFINE i == Head(frames).i
             next == <<Frame("kids", Arg, i + 1)>> \o Tail(frames)
  <2>1. frames # <<>> /\ Arg \in Nat /\ i \in 0 .. ProcMax
    BY <1>1, <1>10, FrameProperties DEF KidsStep, InFrame
  <2>2. CASE i = ProcMax
    BY <1>2, <1>10, <2>1, <2>2 DEF KidsStep
  <2>3. CASE i # ProcMax
    <3>1. i + 1 \in 0 .. ProcMax /\ i \in Slots
      BY <2>1, <2>3, ConstantsAssumption
    <3>2. Frame("kids", Arg, i + 1) \in SafeFrames
      <4>1. "kids" \in Ops \ {"unlock"}
        BY DEF Ops
      <4> QED
        BY <2>1, <3>1, <4>1, SafeFrame
    <3> HIDE DEF i
    <3>3. next \in Seq(SafeFrames)
      <4>1. <<Frame("kids", Arg, i + 1)>> \in Seq(SafeFrames)
        BY <3>2
      <4> QED
        BY <1>2, <2>1, <4>1, ConcatProperties
    <3> HIDE DEF next
    <3>4. ppid[i] # 0 => pid[i] > NTty
      BY <1>1, <3>1 DEF TableInv
    <3>5. ppid[i] # 0 => Handler(i) \o next \in Seq(SafeFrames)
      BY <3>1, <3>3, <3>4, HandlerSafe, ConcatProperties
    <3>6. frames' = next \/ (ppid[i] # 0 /\ frames' = Handler(i) \o next)
      BY <1>10, <2>3 DEF KidsStep, next, i
    <3> QED
      BY <3>3, <3>5, <3>6
  <2> QED
    BY <2>2, <2>3
<1>11. CASE TickStep
  <2> DEFINE i == Head(frames).i
  <2>1. frames # <<>> /\ i \in 0 .. ProcMax
    BY <1>1, <1>11, FrameProperties DEF TickStep, InFrame
  <2>2. CASE frames' = Tail(frames)
    BY <1>2, <2>1, <2>2
  <2>3. CASE i < ProcMax /\ frames' = <<Frame("tick", 0, i + 1)>> \o Tail(frames)
    <3>1. i + 1 \in 0 .. ProcMax /\ "tick" \in Ops \ {"unlock"}
      BY <2>1, <2>3, ConstantsAssumption DEF Ops
    <3>2. <<Frame("tick", 0, i + 1)>> \in Seq(SafeFrames)
      BY <3>1, SafeFrame
    <3> QED
      BY <1>2, <2>1, <2>3, <3>2, ConcatProperties
  <2> QED
    BY <1>11, <2>2, <2>3 DEF TickStep
<1>12. CASE Tick
  BY <1>3, <1>12 DEF Tick, Interrupt, Ops
<1>13. ASSUME NEW t \in Ttys, KeyPress(t) PROVE frames' \in Seq(SafeFrames)
  <2>1. Frame("unlock", t, 0) \in SafeFrames
    BY <1>1, <1>13, ConstantsAssumption DEF Frame, Frames, SafeFrames, Ops
  <2> QED
    BY <1>13, <2>1 DEF KeyPress, Interrupt
<1>14. CASE Timer \/ Yield \/ ThinkAgain
  BY <1>14, ThinkSafe DEF Timer, Yield, ThinkAgain
<1>15. CASE SysCall
  BY <1>4, <1>6, <1>7, <1>8, <1>15
  DEF SysCall, PCreate, PRun, WaitPid, Sleep, ReadBlock, SetPriority
<1>16. CASE Cleaner
  BY <1>4, <1>16
  DEF Cleaner, Exit, ExitDrain, ExitTake, ExitWake, ExitPush, ExitStore, ExitBump,
      ExitZombify, ExitCount, ExitTo
<1>17. CASE MoveStep \/ CleanStep \/ ForgetStep \/ UnlockStep
  BY <1>4, <1>5, <1>17 DEF MoveStep, CleanStep, ForgetStep, UnlockStep, InFrame
<1> QED
  BY <1>4, <1>6, <1>9, <1>10, <1>11, <1>12, <1>13, <1>14, <1>15, <1>16, <1>17
  DEF Next, KernelLoop, Halted, vars

-----------------------------------------------------------------------------
(* Lives *)

\* What a step that is neither pcreate nor a turn of process_cleanpid does to
\* the state of a slot: it ends nobody but a process that ends itself.
LEMMA StateStep ==
  ASSUME KInv, [Next]_vars, ~PCreate, ~CleanStep
  PROVE  /\ state'[Idle] = "ready"
         /\ \A s \in Slots : ~Dead(s) /\ pc[s] # "zombify"
                             => state'[s] \notin {"zombie", "free"}
<1> DEFINE Kept == /\ state'[Idle] = "ready"
                   /\ \A s \in Slots : ~Dead(s) /\ pc[s] # "zombify"
                                       => state'[s] \notin {"zombie", "free"}
<1>1. /\ state \in [Slots -> States] /\ current \in Slots /\ held \in [Slots -> Slots]
      /\ state[Idle] = "ready" /\ 0 \in Slots
  <2>1. 0 \in Slots
    BY ConstantsAssumption
  <2>2. TypeOK /\ LifeInv
    BY DEF KInv
  <2> QED
    BY <2>1, <2>2, Zenon DEF TypeOK, LifeInv
<1>2. CASE UNCHANGED state
  BY <1>1, <1>2 DEF Dead
<1>3. ASSUME NEW s \in Slots, state' = [state EXCEPT ![s] = "ready"] PROVE Kept
  BY <1>1, <1>3 DEF Dead
<1>4. CASE current # Idle /\ state' = [state EXCEPT ![current] = "blocked"]
  BY <1>1, <1>4 DEF Dead
<1>5. CASE current # Idle /\ pc[current] = "zombify" /\ state' = [state EXCEPT ![current] = "zombie"]
  BY <1>1, <1>5 DEF Dead
<1>6. CASE Timer \/ Yield \/ ThinkAgain
  BY <1>6, ThinkSafe DEF Timer, Yield, ThinkAgain
<1>7. CASE SysCall
  BY <1>2, <1>4, <1>7
  DEF SysCall, PCreateSpins, Stuck, PRun, WaitPid, Sleep, ReadBlock,
      SetPriority, Kill, Signal, SetSched, Call, InProgram
<1>8. CASE Cleaner
  <2>1. CASE ExitWake
    BY <1>1, <1>3, <2>1 DEF ExitWake
  <2> QED
    BY <1>2, <1>5, <1>8, <2>1
    DEF Cleaner, Exit, ExitDrain, ExitTake, ExitPush, ExitStore, ExitBump,
        ExitZombify, ExitCount, ExitTo
<1>9. CASE TickStep
  <2>1. Head(frames).i \in 0 .. ProcMax
    BY <1>9, FrameProperties DEF TickStep, InFrame, KInv
  <2>2. Head(frames).i < ProcMax => Head(frames).i \in Slots
    BY <2>1, ConstantsAssumption
  <2>3. \/ UNCHANGED state
        \/ /\ Head(frames).i < ProcMax
           /\ state' = [state EXCEPT ![Head(frames).i] = "ready"]
    BY <1>9 DEF TickStep
  <2> QED
    BY <1>2, <1>3, <2>2, <2>3
<1>10. CASE MoveStep \/ KidsStep \/ ForgetStep \/ UnlockStep
  BY <1>2, <1>10 DEF MoveStep, KidsStep, ForgetStep, UnlockStep
<1>11. CASE Tick \/ \E t \in Ttys : KeyPress(t) \/ CtrlC(t)
  BY <1>2, <1>11 DEF Tick, KeyPress, CtrlC, Signal, Interrupt
<1> QED
  BY <1>2, <1>6, <1>7, <1>8, <1>9, <1>10, <1>11
  DEF Next, KernelLoop, Halted, Faults, Stuck, vars

\* Shells do not enter process_cleaner, and their waitpid is 0 or the pid of a
\* process that is not a resident.
LEMMA ShellStep ==
  ASSUME KInv, [Next]_vars
  PROVE  \A s \in Ttys : /\ pc'[s] \in {"user", "yield"}
                         /\ waitpid'[s] = 0 \/ waitpid'[s] > NTty
<1>1. /\ pc \in [Slots -> PCs] /\ waitpid \in [Slots -> Nat] /\ current \in Slots
  BY DEF KInv, TypeOK
<1>2. Ttys \subseteq Slots
  BY ConstantsAssumption
<1>3. \A s \in Ttys : /\ pc[s] \in {"user", "yield"}
                      /\ waitpid[s] = 0 \/ waitpid[s] > NTty
  BY DEF KInv, LifeInv
<1> DEFINE P(s) == /\ pc'[s] \in {"user", "yield"}
                   /\ waitpid'[s] = 0 \/ waitpid'[s] > NTty
<1> USE DEF waits, marks
<1>4. CASE UNCHANGED <<pc, waitpid>>
  BY <1>3, <1>4
<1>5. CASE PCreate
  <2>1. GetFree \notin Ttys
    BY <1>5, GetFreeProperties, ConstantsAssumption DEF PCreate, Residents
  <2>2. pc' = [pc EXCEPT ![GetFree] = "user"] /\ UNCHANGED waitpid
    BY <1>5 DEF PCreate
  <2> HIDE DEF Slots, Ttys
  <2> QED
    BY <1>1, <1>2, <1>3, <2>1, <2>2
<1>6. ASSUME NEW c \in Slots, WaitPid(c) PROVE \A s \in Ttys : P(s)
  <2>1. /\ pc' = [pc EXCEPT ![current] = "yield"]
        /\ waitpid' = [waitpid EXCEPT ![current] = pid[c]]
        /\ is_tty[current] => ppid[c] = pid[current]
    BY <1>6 DEF WaitPid
  <2>2. current \in Ttys => pid[c] > NTty
    <3>1. SUFFICES ASSUME current \in Ttys PROVE pid[c] > NTty
      OBVIOUS
    <3>2. TableInv
      BY DEF KInv
    <3>3. current \in Residents /\ current # 0
      BY <3>1, ConstantsAssumption DEF Residents
    <3>4. ppid[c] = current
      BY <1>1, <2>1, <3>1, <3>2, <3>3 DEF TableInv
    <3>5. c \notin Residents
      BY <3>2, <3>3, <3>4 DEF TableInv
    <3> QED
      BY <3>2, <3>3, <3>4, <3>5 DEF TableInv
  <2> HIDE DEF Slots, Ttys
  <2> QED
    BY <1>1, <1>2, <1>3, <2>1, <2>2
<1>7. CASE UNCHANGED waitpid /\ pc' = [pc EXCEPT ![current] = "yield"]
  <2> HIDE DEF Slots, Ttys
  <2> QED
    BY <1>1, <1>2, <1>3, <1>7
<1>8. CASE SysCall
  BY <1>4, <1>5, <1>6, <1>7, <1>8
  DEF SysCall, PCreateSpins, Stuck, PRun, Sleep, ReadBlock,
      SetPriority, Kill, Signal, SetSched
<1>9. CASE Cleaner
  <2>1. UNCHANGED waitpid /\ current \notin Ttys
    <3>1. \A s \in Slots : is_tty[s] <=> s \in Ttys
      BY DEF KInv, TableInv
    <3>2. CASE Exit
      BY <1>1, <3>1, <3>2 DEF Exit, ExitTo
    <3>3. CASE ~Exit
      BY <1>3, <1>9, <3>3
      DEF Cleaner, ExitDrain, ExitTake, ExitWake, ExitPush, ExitStore, ExitBump,
          ExitZombify, ExitCount, ExitTo
    <3> QED
      BY <3>2, <3>3
  <2>2. \E b : pc' = [pc EXCEPT ![current] = b]
    BY <1>9
    DEF Cleaner, Exit, ExitDrain, ExitTake, ExitWake, ExitPush, ExitStore, ExitBump,
        ExitZombify, ExitCount, ExitTo
  <2> HIDE DEF Slots, Ttys
  <2> QED
    BY <1>1, <1>2, <1>3, <2>1, <2>2
<1>10. CASE Yield
  <2>1. UNCHANGED waitpid
    BY <1>10 DEF Yield, Think
  <2>2. pc' = [pc EXCEPT ![current] = IF pc[current] = "yield" THEN "user" ELSE "gone"]
        /\ pc[current] \in {"yield", "last"}
    BY <1>10 DEF Yield
  <2> HIDE DEF Slots, Ttys
  <2> QED
    BY <1>1, <1>2, <1>3, <2>1, <2>2
<1>11. CASE ForgetStep
  <2>1. UNCHANGED pc /\ waitpid' = [waitpid EXCEPT ![Arg] = 0]
    BY <1>11 DEF ForgetStep
  <2> HIDE DEF Slots, Ttys
  <2> QED
    BY <1>1, <1>2, <1>3, <2>1
<1> QED
  BY <1>4, <1>8, <1>9, <1>10, <1>11
  DEF Next, KernelLoop, Halted, Faults, Stuck, vars, Timer, ThinkAgain, Think, MoveStep, CleanStep,
      KidsStep, TickStep, UnlockStep, Tick, KeyPress, CtrlC, Signal, Interrupt

\* No step takes a resident away.
LEMMA LifeStep == KInv /\ [Next]_vars => LifeInv'
<1> SUFFICES ASSUME KInv, [Next]_vars PROVE LifeInv'
  OBVIOUS
<1>1. LifeInv /\ TypeOK /\ TableInv /\ QueueInv
  BY DEF KInv
<1>2. Ttys \subseteq Slots /\ 0 \in Slots /\ Residents \subseteq Slots
      /\ Ttys \subseteq Residents /\ 0 \in Residents
      /\ \A s \in Residents : s = 0 \/ s \in Ttys
  BY ConstantsAssumption DEF Residents
<1>3. state \in [Slots -> States]
  BY <1>1 DEF TypeOK
<1>4. state'[Idle] = "ready" /\ \A s \in Ttys : state'[s] \notin {"zombie", "free"}
  <2> HIDE DEF Slots, Ttys
  <2>1. CASE PCreate
    <3>1. GetFree \notin Residents /\ state' = [state EXCEPT ![GetFree] = "ready"]
      BY <2>1, GetFreeProperties DEF PCreate
    <3> QED
      BY <1>1, <1>2, <1>3, <3>1 DEF LifeInv, Dead
  <2>2. CASE CleanStep
    <3> DEFINE x == SlotOf(Arg)
               p == Head(wait_queue[x])
    <3>1. \/ UNCHANGED state
          \/ SlotsOf(Arg) # {} /\ state' = [state EXCEPT ![p] = "ready"]
          \/ SlotsOf(Arg) # {} /\ state' = [state EXCEPT ![x] = "zombie"]
      BY <2>2 DEF CleanStep
    <3>2. Arg > NTty
      <4>1. Head(frames) \in SafeFrames
        BY <2>2, HeadTailProperties DEF CleanStep, InFrame, KInv
      <4> QED
        BY <2>2, <4>1 DEF SafeFrames, CleanStep, InFrame, Arg
    <3>3. ASSUME SlotsOf(Arg) # {} PROVE x \notin Residents
      <4>1. pid[x] = Arg
        BY <3>3, SlotOfType
      <4>2. \A s \in Residents : ~(s > NTty)
        BY ConstantsAssumption DEF Residents
      <4> QED
        BY <1>1, <3>2, <4>1, <4>2 DEF TableInv
    <3> HIDE DEF x, p
    <3>4. /\ state[0] = "ready"
          /\ \A s \in Ttys : s \in Slots /\ state[s] \notin {"zombie", "free"}
      BY <1>1, <1>2 DEF LifeInv, Dead
    <3>5. CASE UNCHANGED state
      BY <3>4, <3>5
    <3>6. CASE state' = [state EXCEPT ![p] = "ready"]
      BY <1>2, <1>3, <3>4, <3>6
    <3>7. CASE x \notin Residents /\ state' = [state EXCEPT ![x] = "zombie"]
      <4>1. x # 0 /\ \A s \in Ttys : s # x
        BY <1>2, <3>7
      <4>2. \A s \in Slots : s # x => state'[s] = state[s]
        BY <1>3, <3>7
      <4>3. 0 \in Slots
        BY <1>2
      <4> QED
        BY <3>4, <4>1, <4>2, <4>3
    <3> QED
      BY <3>1, <3>3, <3>5, <3>6, <3>7
  <2>3. CASE ~PCreate /\ ~CleanStep
    <3>1. \A s \in Ttys : ~Dead(s) /\ pc[s] # "zombify"
      BY <1>1 DEF LifeInv
    <3> QED
      BY <1>2, <2>3, <3>1, StateStep
  <2> QED
    BY <2>1, <2>2, <2>3
<1> QED
  BY <1>4, ShellStep DEF LifeInv, Dead

-----------------------------------------------------------------------------
(* Queues *)

\* data[write_ptr++] = p keeps a ready queue, and its count, in order.
LEMMA StoredOK ==
  ASSUME TypeOK, ReadyOK, NEW l \in Queues, NEW p \in Slots, p # Idle, NEW m \in Nat,
         ready_queue' = IF l = Ready THEN Append(ready_queue, p) ELSE ready_queue,
         queues' = IF l = Ready THEN queues
                   ELSE [queues EXCEPT ![l] = Append(queues[l], p)],
         uncounted' = [uncounted EXCEPT ![l] = uncounted[l] \cup {m}]
  PROVE  ReadyOK'
<1>1. /\ ready_queue \in Seq(Slots) /\ queues \in [Levels -> Seq(Slots)]
      /\ uncounted \in [Queues -> PidSets]
  BY DEF TypeOK
<1>2. /\ l # Ready => l \in Levels
      /\ Levels \subseteq Queues /\ Ready \in Queues /\ Ready \notin Levels
  BY ConstantsAssumption DEF Queues, Ready
<1>3. /\ Idle \notin Range(ready_queue) /\ \A k \in Levels : Idle \notin Range(queues[k])
      /\ Lag(Ready) <= Len(ready_queue) /\ \A k \in Levels : Lag(k) <= Len(queues[k])
  BY DEF ReadyOK, Awake, Behind
<1>4. uncounted[l] \in PidSets /\ IsFiniteSet(uncounted[l]) /\ \A k \in Queues : Lag(k) \in Nat
  BY <1>1, LagType DEF PidSets
<1>5. Lag(l)' <= Lag(l) + 1 /\ Lag(l)' \in Nat
  <2>1. Lag(l)' = Cardinality(uncounted[l] \cup {m})
    BY <1>1 DEF Lag
  <2>2. Cardinality(uncounted[l] \cup {m})
          = IF m \in uncounted[l] THEN Lag(l) ELSE Lag(l) + 1
    BY <1>4, FS_AddElement DEF Lag
  <2> QED
    BY <1>4, <2>1, <2>2
<1>6. \A k \in Queues : k # l => Lag(k)' = Lag(k)
  BY <1>1 DEF Lag
<1>7. \A q \in Seq(Slots) : Len(Append(q, p)) = Len(q) + 1 /\ Len(q) \in Nat
  OBVIOUS
<1>8. CASE l = Ready
  <2>1. ready_queue' = Append(ready_queue, p) /\ UNCHANGED queues
    BY <1>8
  <2>2. Idle \notin Range(ready_queue') /\ Lag(Ready)' <= Len(ready_queue')
    BY <1>1, <1>3, <1>4, <1>5, <1>7, <1>8, <2>1, NoIdle
  <2>3. \A k \in Levels : Lag(k)' = Lag(k)
    BY <1>2, <1>6, <1>8
  <2> QED
    BY <1>3, <2>1, <2>2, <2>3 DEF ReadyOK, Awake, Behind
<1>9. CASE l # Ready
  <2>1. l \in Levels /\ queues' = [queues EXCEPT ![l] = Append(queues[l], p)]
        /\ UNCHANGED ready_queue
    BY <1>2, <1>9
  <2> HIDE DEF Levels
  <2>2. \A k \in Levels : queues'[k] = IF k = l THEN Append(queues[l], p) ELSE queues[k]
    BY <1>1, <2>1
  <2>3. Idle \notin Range(Append(queues[l], p)) /\ Lag(l)' <= Len(Append(queues[l], p))
    BY <1>1, <1>3, <1>4, <1>5, <1>7, <2>1, NoIdle
  <2>4. Lag(Ready)' = Lag(Ready)
    BY <1>2, <1>6, <1>9
  <2>5. \A k \in Levels : Lag(k)' <= Len(queues'[k]) /\ Idle \notin Range(queues'[k])
    BY <1>2, <1>3, <1>6, <2>2, <2>3
  <2> QED
    BY <1>3, <2>1, <2>4, <2>5 DEF ReadyOK, Awake, Behind
<1> QED
  BY <1>8, <1>9

\* So does count++.
LEMMA CountedOK ==
  ASSUME TypeOK, ReadyOK, NEW l \in Queues, NEW m \in Nat,
         UNCHANGED <<ready_queue, queues>>,
         uncounted' = [uncounted EXCEPT ![l] = uncounted[l] \ {m}]
  PROVE  ReadyOK'
<1>1. /\ uncounted \in [Queues -> PidSets] /\ Levels \subseteq Queues /\ Ready \in Queues
      /\ ready_queue \in Seq(Slots) /\ queues \in [Levels -> Seq(Slots)]
  BY ReadyProperties DEF TypeOK
<1>2. uncounted[l] \in PidSets /\ IsFiniteSet(uncounted[l]) /\ \A k \in Queues : Lag(k) \in Nat
  BY <1>1, LagType DEF PidSets
<1>3. Lag(l)' <= Lag(l) /\ Lag(l)' \in Nat
  <2>1. Lag(l)' = Cardinality(uncounted[l] \ {m})
    BY <1>1 DEF Lag
  <2>2. /\ IsFiniteSet(uncounted[l] \ {m})
        /\ Cardinality(uncounted[l] \ {m})
            = IF m \in uncounted[l] THEN Lag(l) - 1 ELSE Lag(l)
    BY <1>2, FS_RemoveElement DEF Lag
  <2>3. Cardinality(uncounted[l] \ {m}) \in Nat
    BY <2>2, FS_CardinalityType
  <2> QED
    BY <1>2, <2>1, <2>2, <2>3
<1>4. \A k \in Queues : k # l => Lag(k)' = Lag(k)
  BY <1>1 DEF Lag
<1>5. \A k \in Queues : Lag(k)' <= Lag(k) /\ Lag(k)' \in Nat
  BY <1>2, <1>3, <1>4
<1>6. /\ Lag(Ready) <= Len(ready_queue) /\ Len(ready_queue) \in Nat
      /\ \A k \in Levels : Lag(k) <= Len(queues[k]) /\ Len(queues[k]) \in Nat
  BY <1>1 DEF ReadyOK, Behind
<1> HIDE DEF Levels
<1>7. Lag(Ready)' <= Len(ready_queue) /\ \A k \in Levels : Lag(k)' <= Len(queues[k])
  BY <1>1, <1>2, <1>5, <1>6
<1> QED
  BY <1>7 DEF ReadyOK, Awake, Behind

\* The two steps of an exit that finish a sched_enqueue.
LEMMA StoreOK ==
  ASSUME TypeOK, QueueInv, ExitStore \/ ExitBump
  PROVE  ReadyOK'
<1>1. /\ target[current] \in Queues /\ held[current] \in Slots /\ pid[current] \in Nat
      /\ current \in Slots /\ ReadyOK
  BY DEF TypeOK, QueueInv
<1>2. CASE UNCHANGED queued
  BY <1>1, <1>2 DEF queued, ReadyOK, Awake, Behind, Lag
<1>3. ASSUME ExitStore, ~UNCHANGED queued PROVE ReadyOK'
  <2>1. /\ ExitTo("store", "bump")
        /\ ready_queue' = IF target[current] = Ready
                          THEN Append(ready_queue, held[current]) ELSE ready_queue
        /\ queues' = IF target[current] = Ready THEN queues
                     ELSE [queues EXCEPT ![target[current]] =
                             Append(queues[target[current]], held[current])]
        /\ uncounted' = [uncounted EXCEPT ![target[current]] =
                            uncounted[target[current]] \cup {pid[current]}]
    BY <1>3 DEF ExitStore
  <2>2. held[current] # Idle
    BY <1>1, <2>1 DEF ExitTo, QueueInv
  <2> QED
    BY <1>1, <2>1, <2>2, StoredOK
<1>4. CASE ExitBump
  <2>1. /\ UNCHANGED <<ready_queue, queues>>
        /\ uncounted' = [uncounted EXCEPT ![target[current]] =
                            uncounted[target[current]] \ {pid[current]}]
    BY <1>4 DEF ExitBump
  <2> QED
    BY <1>1, <2>1, CountedOK
<1> QED
  BY <1>2, <1>3, <1>4

\* So does one turn of a loop of sched_set_mode.
LEMMA MoveOK ==
  ASSUME TypeOK, ReadyOK, MoveStep
  PROVE  ReadyOK'
<1>1. ready_queue \in Seq(Slots) /\ queues \in [Levels -> Seq(Slots)]
      /\ Levels \subseteq Queues /\ Ready \in Queues
  BY ReadyProperties DEF TypeOK
<1>2. Awake(ready_queue, queues) /\ Behind(ready_queue, queues)
  BY DEF ReadyOK
<1>3. ASSUME SomeReady(ready_queue), ready_queue' = Tail(ready_queue),
             queues' = [queues EXCEPT ![PQSize] =
                         EnqueueIn(queues[PQSize], PQSize, Head(ready_queue))],
             UNCHANGED uncounted
      PROVE  ReadyOK'
  <2> DEFINE q == EnqueueIn(queues[PQSize], PQSize, Head(ready_queue))
  <2>1. /\ Awake(Tail(ready_queue), queues) /\ Behind(Tail(ready_queue), queues)
        /\ Head(ready_queue) # Idle
    BY <1>1, <1>2, <1>3, TailOK
  <2>2. Head(ready_queue) \in Slots
    BY <1>1, <1>3, DequeueProperties, ReadyProperties
  <2>3. PQSize \in Levels
    BY ConstantsAssumption
  <2>4. Idle \notin Range(q) /\ Lag(PQSize) <= Len(q)
    BY <1>1, <2>1, <2>2, <2>3, EnqueueInOK DEF Awake, Behind
  <2> HIDE DEF q
  <2>5. \A l \in Levels : queues'[l] = IF l = PQSize THEN q ELSE queues[l]
    BY <1>1, <1>3 DEF q
  <2> HIDE DEF Levels
  <2>6. Awake(ready_queue, queues)'
    BY <1>3, <2>1, <2>4, <2>5 DEF Awake
  <2>7. Behind(ready_queue, queues)'
    BY <1>3, <2>1, <2>4, <2>5 DEF Behind, Lag
  <2> QED
    BY <2>6, <2>7 DEF ReadyOK
<1>4. ASSUME NonEmpty(queues) # {},
             ready_queue' = EnqueueIn(ready_queue, Ready, Head(queues[FirstLevel(queues)])),
             queues' = RotatedTail(queues), Renamed(queues)
      PROVE  ReadyOK'
  <2>1. /\ Awake(ready_queue, RotatedTail(queues))
        /\ Head(queues[FirstLevel(queues)]) # Idle
        /\ Lag(Ready)' = Lag(Ready)
        /\ \A l \in Levels : Lag(l)' <= Len(RotatedTail(queues)[l])
    BY <1>1, <1>2, <1>4, RotationOK
  <2>2. Head(queues[FirstLevel(queues)]) \in Slots
    BY <1>1, <1>4, RotateProperties
  <2>3. Idle \notin Range(ready_queue') /\ Lag(Ready) <= Len(ready_queue')
    BY <1>1, <1>2, <1>4, <2>1, <2>2, EnqueueInOK DEF Awake, Behind
  <2> QED
    BY <1>4, <2>1, <2>3 DEF ReadyOK, Awake, Behind
<1>5. CASE UNCHANGED <<queued, target>>
  BY <1>2, <1>5 DEF queued, ReadyOK, Awake, Behind, Lag
<1> QED
  BY <1>3, <1>4, <1>5, Zenon DEF MoveStep

\* No step puts idle in a queue, or a process twice in one of waiters.
LEMMA QueueStep == KInv /\ [Next]_vars => QueueInv'
<1> SUFFICES ASSUME KInv, [Next]_vars PROVE QueueInv'
  OBVIOUS
<1> DEFINE Runs == ReadyOK'
           Waits == \A s \in Slots : Good(wait_queue'[s])
           Reads == \A t \in Ttys : Good(read_pblocks'[t])
           Holds == \A s \in Slots : pc'[s] \in {"wake", "push", "store"} => held'[s] # Idle
<1>1. TypeOK /\ QueueInv /\ LifeInv /\ TableInv
  BY DEF KInv
<1>2. /\ current \in Slots /\ wait_queue \in [Slots -> Seq(Slots)]
      /\ read_pblocks \in [Ttys -> Seq(Slots)] /\ ready_queue \in Seq(Slots)
      /\ queues \in [Levels -> Seq(Slots)] /\ held \in [Slots -> Slots]
      /\ pc \in [Slots -> PCs]
  BY <1>1 DEF TypeOK
<1>3. UNCHANGED queued => Runs
  BY <1>1 DEF QueueInv, queued, ReadyOK, Awake, Behind, Lag
<1>4. ASSUME NEW s \in Slots, s # Idle, SchedEnqueue(s) PROVE Runs
  <2>1. Awake(ReadyWith(s), QueuesWith(s)) /\ Behind(ReadyWith(s), QueuesWith(s))
    BY <1>1, <1>4, EnqueueOK DEF QueueInv
  <2> QED
    BY <1>4, <2>1 DEF SchedEnqueue, ReadyOK, Awake, Behind, Lag
<1>5. UNCHANGED wait_queue => Waits
  BY <1>1 DEF QueueInv
<1>6. UNCHANGED read_pblocks => Reads
  BY <1>1 DEF QueueInv
<1>7. UNCHANGED marks => Holds
  BY <1>1 DEF QueueInv, marks
<1>8. ASSUME NEW s \in Slots, NEW b \in PCs \ {"wake", "push", "store"}, UNCHANGED held,
             pc' = [pc EXCEPT ![s] = b]
      PROVE  Holds
  BY <1>1, <1>2, <1>8 DEF QueueInv
<1>9. Runs /\ Waits /\ Reads /\ Holds => QueueInv'
  BY DEF QueueInv
<1> HIDE DEF Runs, Waits, Reads, Holds
<1>10. CASE PCreate
  <2>1. Waits
    <3>1. wait_queue' = [wait_queue EXCEPT ![GetFree] = <<>>]
      BY <1>10 DEF PCreate
    <3> HIDE DEF Slots
    <3> QED
      BY <1>1, <1>2, <3>1, GoodEmpty DEF Waits, QueueInv
  <2>2. GetFree \in Slots /\ pc' = [pc EXCEPT ![GetFree] = "user"] /\ UNCHANGED held
    BY <1>10, GetFreeProperties DEF PCreate
  <2>3. Holds
    BY <1>8, <2>2 DEF PCs
  <2> QED
    BY <1>3, <1>6, <1>9, <1>10, <2>1, <2>3 DEF PCreate, cpu
<1>11. ASSUME NEW c \in Slots, PRun(c) PROVE QueueInv'
  <2>1. c # Idle
    <3>1. 0 \in Residents
      BY ConstantsAssumption DEF Residents
    <3> QED
      BY <1>1, <1>11, <3>1 DEF PRun, TableInv
  <2>2. /\ SchedEnqueue(c)
        /\ UNCHANGED <<wait_queue, pc, held, read_pblocks>>
    BY <1>11 DEF PRun, waits, pool
  <2>3. Holds
    BY <1>1, <2>2 DEF Holds, QueueInv
  <2> QED
    BY <1>4, <1>5, <1>6, <1>9, <2>1, <2>2, <2>3
<1>12. ASSUME NEW c \in Slots, WaitPid(c) PROVE QueueInv'
  <2>1. /\ wait_queue' = [wait_queue EXCEPT ![c] = Enqueue(wait_queue[c], current)]
        /\ pc' = [pc EXCEPT ![current] = "yield"] /\ UNCHANGED held
        /\ UNCHANGED <<queued, read_pblocks>> /\ current # Idle
    BY <1>12 DEF WaitPid, Call, InProgram, cpu, pool
  <2>2. Good(Enqueue(wait_queue[c], current))
    BY <1>1, <1>2, <2>1, GoodQueue DEF QueueInv
  <2>3. Waits
    BY <1>1, <1>2, <2>1, <2>2 DEF Waits, QueueInv
  <2>4. Holds
    BY <1>2, <1>8, <2>1 DEF PCs
  <2> QED
    BY <1>3, <1>6, <1>9, <2>1, <2>3, <2>4
<1>13. ASSUME NEW t \in Ttys, ReadBlock(t) PROVE QueueInv'
  <2>1. /\ read_pblocks' = [read_pblocks EXCEPT ![t] = Enqueue(read_pblocks[t], current)]
        /\ pc' = [pc EXCEPT ![current] = "yield"] /\ UNCHANGED held
        /\ UNCHANGED <<queued, wait_queue>> /\ current # Idle
    BY <1>13 DEF ReadBlock, Call, InProgram, cpu, waits
  <2>2. Good(Enqueue(read_pblocks[t], current))
    BY <1>1, <1>2, <2>1, GoodQueue DEF QueueInv
  <2>3. Reads
    BY <1>1, <1>2, <2>1, <2>2 DEF Reads, QueueInv
  <2>4. Holds
    BY <1>2, <1>8, <2>1 DEF PCs
  <2> QED
    BY <1>3, <1>5, <1>9, <2>1, <2>3, <2>4
<1>14. ASSUME NEW t \in SleepTimes, Sleep(t) PROVE QueueInv'
  <2>1. /\ pc' = [pc EXCEPT ![current] = "yield"] /\ UNCHANGED held
        /\ UNCHANGED <<queued, wait_queue, read_pblocks>>
    BY <1>14 DEF Sleep, cpu, pool
  <2>2. Holds
    BY <1>2, <1>8, <2>1 DEF PCs
  <2> QED
    BY <1>3, <1>5, <1>6, <1>9, <2>1, <2>2
<1>15. CASE SysCall
  <2>1. CASE UNCHANGED <<waits, marks, queued, read_pblocks>>
    BY <1>3, <1>5, <1>6, <1>7, <1>9, <2>1 DEF waits
  <2> QED
    BY <1>10, <1>11, <1>12, <1>13, <1>14, <1>15, <2>1
    DEF SysCall, PCreateSpins, Stuck, SetPriority, Kill, Signal,
        SetSched, cpu, pool
<1>16. CASE Cleaner
  <2>1. ASSUME NEW a \in PCs, NEW b \in PCs, ExitTo(a, b)
        PROVE  /\ pc[current] = a /\ pc' = [pc EXCEPT ![current] = b]
               /\ UNCHANGED read_pblocks
    BY <2>1 DEF ExitTo
  <2>2. {"user", "drain", "take", "wake", "push", "store", "bump", "zombify", "count",
         "last"} \subseteq PCs
    BY DEF PCs
  <2>3. CASE Exit \/ ExitDrain \/ ExitZombify \/ ExitCount
    <3>1. \E a \in PCs, b \in PCs \ {"wake", "push", "store"} : ExitTo(a, b)
      <4>1. CASE ExitDrain
        <5>1. ExitTo("drain", "zombify") \/ ExitTo("drain", "take")
          BY <4>1 DEF ExitDrain
        <5> QED
          BY <2>2, <5>1
      <4> QED
        BY <2>2, <2>3, <4>1 DEF Exit, ExitZombify, ExitCount
    <3>2. UNCHANGED <<wait_queue, held, queued>>
      BY <2>3 DEF Exit, ExitDrain, ExitZombify, ExitCount
    <3> QED
      BY <1>2, <1>3, <1>5, <1>6, <1>8, <1>9, <2>1, <3>1, <3>2
  <2>4. CASE ExitTake
    <3>1. /\ ExitTo("take", "wake") /\ UNCHANGED queued
          /\ wait_queue[current] # <<>>
          /\ held' = [held EXCEPT ![current] = Head(wait_queue[current])]
          /\ wait_queue' = [wait_queue EXCEPT ![current] = Tail(wait_queue[current])]
      BY <2>4 DEF ExitTake
    <3>2. wait_queue[current] \in Seq(Slots) /\ Good(wait_queue[current])
      BY <1>1, <1>2 DEF QueueInv
    <3>3. Good(Tail(wait_queue[current])) /\ Head(wait_queue[current]) # Idle
      BY <3>1, <3>2, GoodQueue
    <3>4. Waits
      BY <1>1, <1>2, <3>1, <3>3 DEF Waits, QueueInv
    <3>5. Holds
      BY <1>1, <1>2, <2>1, <2>2, <3>1, <3>3 DEF Holds, QueueInv
    <3> QED
      BY <1>3, <1>6, <1>9, <2>1, <2>2, <3>1, <3>4, <3>5
  <2>5. CASE ExitWake \/ ExitPush
    <3>1. /\ ExitTo("wake", "push") \/ ExitTo("push", "store")
          /\ UNCHANGED <<wait_queue, held, queued>>
      BY <2>5 DEF ExitWake, ExitPush
    <3>2. held[current] # Idle
      BY <1>1, <1>2, <2>1, <2>2, <3>1 DEF QueueInv
    <3>3. \E b : pc' = [pc EXCEPT ![current] = b]
      BY <2>1, <2>2, <3>1
    <3>4. Holds
      BY <1>1, <1>2, <3>1, <3>2, <3>3 DEF Holds, QueueInv
    <3> QED
      BY <1>3, <1>5, <1>6, <1>9, <2>1, <2>2, <3>1, <3>4
  <2>6. CASE ExitStore \/ ExitBump
    <3>1. /\ \/ ExitTo("store", "drain") /\ held' = [held EXCEPT ![current] = Idle]
             \/ ExitTo("store", "bump") /\ UNCHANGED held
             \/ ExitTo("bump", "drain") /\ held' = [held EXCEPT ![current] = Idle]
          /\ UNCHANGED wait_queue
      BY <2>6 DEF ExitStore, ExitBump
    <3>2. Holds
      <4>1. CASE ExitTo("store", "bump") /\ UNCHANGED held
        BY <1>2, <1>8, <2>1, <2>2, <4>1
      <4>2. CASE /\ ExitTo("store", "drain") \/ ExitTo("bump", "drain")
                 /\ held' = [held EXCEPT ![current] = Idle]
        <5>1. pc' = [pc EXCEPT ![current] = "drain"]
          BY <2>1, <2>2, <4>2
        <5>2. \A s \in Slots \ {current} : pc'[s] = pc[s] /\ held'[s] = held[s]
          BY <1>2, <4>2, <5>1
        <5>3. pc'[current] = "drain"
          BY <1>2, <5>1
        <5> QED
          BY <1>1, <5>2, <5>3 DEF Holds, QueueInv
      <4> QED
        BY <3>1, <4>1, <4>2
    <3>3. UNCHANGED read_pblocks
      BY <2>1, <2>2, <3>1
    <3>4. Runs
      BY <1>1, <2>6, StoreOK DEF Runs, QueueInv
    <3> QED
      BY <1>5, <1>6, <1>9, <3>1, <3>2, <3>3, <3>4
  <2> QED
    BY <1>16, <2>3, <2>4, <2>5, <2>6 DEF Cleaner
<1>17. CASE Timer \/ Yield \/ ThinkAgain
  <2>1. Think
    BY <1>17 DEF Timer, Yield, ThinkAgain
  <2>2. Runs /\ UNCHANGED <<wait_queue, held, read_pblocks>>
    BY <2>1, ThinkSafe DEF Think, Runs, waits, pool
  <2>3. Holds
    BY <1>1, <1>2, <1>17, <2>2 DEF Timer, Yield, ThinkAgain, Holds, QueueInv
  <2> QED
    BY <1>5, <1>6, <1>9, <2>2, <2>3
<1>18. CASE MoveStep
  <2>1. UNCHANGED <<waits, pc, held, read_pblocks>>
    BY <1>18 DEF MoveStep, pool
  <2>2. Runs
    BY <1>1, <1>18, MoveOK DEF Runs, QueueInv
  <2>3. Holds
    BY <1>1, <2>1 DEF Holds, QueueInv
  <2> QED
    BY <1>5, <1>6, <1>9, <2>1, <2>2, <2>3 DEF waits
<1>19. CASE CleanStep
  <2>1. UNCHANGED <<marks, read_pblocks>>
    BY <1>19 DEF CleanStep
  <2>2. CASE UNCHANGED <<wait_queue, queued>>
    BY <1>3, <1>5, <1>6, <1>7, <1>9, <2>1, <2>2
  <2> DEFINE x == SlotOf(Arg)
             p == Head(wait_queue[x])
  <2>3. CASE /\ SlotsOf(Arg) # {} /\ wait_queue[x] # <<>>
             /\ wait_queue' = [wait_queue EXCEPT ![x] = Tail(wait_queue[x])]
             /\ SchedEnqueue(p)
    <3>1. x \in Slots
      BY <2>3, SlotOfType
    <3>2. wait_queue[x] \in Seq(Slots) /\ Good(wait_queue[x])
      BY <1>1, <1>2, <3>1 DEF QueueInv
    <3>3. Good(Tail(wait_queue[x])) /\ p # Idle /\ p \in Slots
      BY <2>3, <3>2, GoodQueue, DequeueProperties
    <3> HIDE DEF p, x
    <3>4. Waits
      BY <1>1, <1>2, <2>3, <3>3 DEF Waits, QueueInv
    <3> QED
      BY <1>4, <1>6, <1>7, <1>9, <2>1, <2>3, <3>3, <3>4
  <2> QED
    BY <1>19, <2>2, <2>3 DEF CleanStep
<1>20. CASE TickStep
  <2>1. UNCHANGED <<wait_queue, marks, read_pblocks>>
    BY <1>20 DEF TickStep, pool
  <2> DEFINE i == Head(frames).i
  <2>2. i \in 0 .. ProcMax
    BY <1>1, <1>20, FrameProperties DEF TickStep, InFrame
  <2>3. UNCHANGED queued \/ (i < ProcMax /\ Sleeping(i) /\ SchedEnqueue(i))
    BY <1>20 DEF TickStep
  <2>4. i < ProcMax /\ Sleeping(i) => i \in Slots /\ i # Idle
    BY <1>1, <2>2, ConstantsAssumption DEF Sleeping, LifeInv
  <2> QED
    BY <1>3, <1>4, <1>5, <1>6, <1>7, <1>9, <2>1, <2>3, <2>4
<1>21. CASE UnlockStep
  <2>1. UNCHANGED <<wait_queue, marks>>
    BY <1>21 DEF UnlockStep, waits
  <2>2. Arg \in Ttys
    BY <1>1, <1>21, FrameProperties DEF UnlockStep, InFrame, Arg, Frames
  <2>3. CASE UNCHANGED <<read_pblocks, queued>>
    BY <1>3, <1>5, <1>6, <1>7, <1>9, <2>1, <2>3
  <2>4. CASE /\ read_pblocks[Arg] # <<>>
             /\ SchedEnqueue(Head(read_pblocks[Arg]))
             /\ read_pblocks' = [read_pblocks EXCEPT ![Arg] = Tail(read_pblocks[Arg])]
    <3>1. read_pblocks[Arg] \in Seq(Slots) /\ Good(read_pblocks[Arg])
      BY <1>1, <1>2, <2>2 DEF QueueInv
    <3>2. /\ Good(Tail(read_pblocks[Arg])) /\ Head(read_pblocks[Arg]) # Idle
          /\ Head(read_pblocks[Arg]) \in Slots
      BY <2>4, <3>1, GoodQueue, DequeueProperties
    <3>3. Reads
      BY <1>1, <1>2, <2>4, <3>2 DEF Reads, QueueInv
    <3> QED
      BY <1>4, <1>5, <1>7, <1>9, <2>1, <2>4, <3>2, <3>3
  <2> QED
    BY <1>21, <2>3, <2>4 DEF UnlockStep
<1>22. CASE UNCHANGED <<wait_queue, marks, queued, read_pblocks>>
  BY <1>3, <1>5, <1>6, <1>7, <1>9, <1>22
<1> QED
  BY <1>15, <1>16, <1>17, <1>18, <1>19, <1>20, <1>21, <1>22
  DEF Next, KernelLoop, Halted, Faults, Stuck, vars, waits, cpu, pool, KidsStep, ForgetStep, Tick,
      KeyPress, CtrlC, Signal, Interrupt

-----------------------------------------------------------------------------
(* Theorems *)

\* Only scheduler_think makes a process RUNNING, the one it gives the CPU to.
LEMMA RunningStep == KInv /\ RunningIsCurrent /\ [Next]_vars => RunningIsCurrent'
<1> SUFFICES ASSUME KInv, RunningIsCurrent, [Next]_vars PROVE RunningIsCurrent'
  OBVIOUS
<1>1. state \in [Slots -> States]
  BY DEF KInv, TypeOK
<1>2. ASSUME UNCHANGED current,
             \/ UNCHANGED state
             \/ \E s, st : st # "running" /\ state' = [state EXCEPT ![s] = st]
      PROVE  RunningIsCurrent'
  BY <1>1, <1>2 DEF RunningIsCurrent
<1>3. CASE Timer \/ Yield \/ ThinkAgain
  BY <1>3, ThinkSafe DEF Timer, Yield, ThinkAgain
<1>4. CASE SysCall
  <2>1. CASE PCreate
    <3>1. state' = [state EXCEPT ![GetFree] = "ready"] /\ UNCHANGED current
      BY <2>1 DEF PCreate, cpu
    <3> QED
      BY <1>2, <3>1
  <2>2. CASE state' = [state EXCEPT ![current] = "blocked"] /\ UNCHANGED current
    BY <1>2, <2>2
  <2>3. CASE UNCHANGED <<state, current>>
    BY <1>2, <2>3
  <2> QED
    BY <1>4, <2>1, <2>2, <2>3
    DEF SysCall, PCreateSpins, Stuck, PRun, WaitPid, Sleep,
        ReadBlock, SetPriority, Kill, Signal, SetSched, cpu
<1>5. CASE Cleaner
  BY <1>2, <1>5
  DEF Cleaner, Exit, ExitDrain, ExitTake, ExitWake, ExitPush, ExitStore, ExitBump,
      ExitZombify, ExitCount, ExitTo
<1>6. CASE MoveStep \/ CleanStep \/ KidsStep \/ ForgetStep \/ TickStep \/ UnlockStep
  BY <1>2, <1>6
  DEF MoveStep, CleanStep, KidsStep, ForgetStep, TickStep, UnlockStep, cpu
<1>7. CASE \/ Tick \/ (\E t \in Ttys : KeyPress(t) \/ CtrlC(t)) \/ Faults
           \/ UNCHANGED vars
  BY <1>2, <1>7 DEF Tick, KeyPress, CtrlC, Signal, Interrupt, Faults, Stuck, vars, cpu
<1> QED
  BY <1>3, <1>4, <1>5, <1>6, <1>7 DEF Next, KernelLoop, Halted

\* The invariant that the theorems below come from, signals or none: idle and
\* the shells keep their pids and live, no cleaning aims at one of them, idle is
\* in no queue, and no count of a ready queue is below 0.
THEOREM KInvCorrect == Spec => []KInv
<1>1. KInv /\ [Next]_vars => KInv'
  BY NextTypes, TableStep, LifeStep, FramesStep, QueueStep DEF KInv
<1> QED
  BY <1>1, InitKInv, PTL DEF Spec

\* No signal and no exit ever takes a shell, or idle, away.
THEOREM ShellsSurviveCorrect == Spec => []ShellsSurvive
<1>1. KInv => ShellsSurvive
  BY DEF KInv, TableInv, LifeInv, QueueInv, ReadyOK, Awake, ShellsSurvive, InAQueue
<1> QED
  BY <1>1, KInvCorrect, PTL

\* Only the process that has the CPU is ever RUNNING.
THEOREM RunningIsCurrentCorrect == Spec => []RunningIsCurrent
<1>1. Init => RunningIsCurrent
  BY DEF Init, RunningIsCurrent
<1> QED
  BY <1>1, KInvCorrect, RunningStep, PTL DEF Spec

-----------------------------------------------------------------------------
(* Queues that hold no process twice, and never idle, are never full *)

LEMMA NeverFull ==
  ASSUME NEW q \in Seq(Slots), Good(q)
  PROVE  Len(q) < ProcMax
<1> DEFINE n == Len(q)
           A == 1 .. n
           B == 1 .. ProcMax - 1
<1>0. n \in Nat /\ DOMAIN q = A /\ ProcMax \in Nat \ {0}
  BY LenProperties, ConstantsAssumption
<1>1. q \in [A -> B]
  <2>1. q \in [A -> Slots]
    BY LenProperties
  <2>2. \A i \in A : q[i] # 0
    BY <1>0 DEF Good, Range
  <2> QED
    BY <2>1, <2>2, ConstantsAssumption
<1>2. \A i, j \in A : q[i] = q[j] => i = j
  BY <1>0 DEF Good, IsInjective
<1> HIDE DEF n
<1> SUFFICES ASSUME ProcMax <= n PROVE FALSE
  BY <1>0 DEF n
<1>3. IsFiniteSet(A) /\ Cardinality(A) = n
  BY <1>0, FS_Interval
<1>4. IsFiniteSet(B) /\ Cardinality(B) = ProcMax - 1
  BY <1>0, FS_Interval
<1>5. Cardinality(B) < Cardinality(A)
  BY <1>0, <1>3, <1>4
<1> HIDE DEF A, B
<1>6. \E x, y \in A : x # y /\ q[x] = q[y]
  BY <1>1, <1>3, <1>4, <1>5, FS_PigeonHole
<1> QED
  BY <1>2, <1>6

\* What queue_enqueue adds and queue_dequeue takes.
LEMMA QueueRange ==
  ASSUME NEW q \in Seq(Slots), Good(q)
  PROVE  /\ \A s \in Slots : Range(Enqueue(q, s)) = Range(q) \union {s}
         /\ q # <<>> => /\ Head(q) \in Range(q)
                        /\ Range(Tail(q)) = Range(q) \ {Head(q)}
<1>1. ASSUME NEW s \in Slots PROVE Range(Enqueue(q, s)) = Range(q) \union {s}
  <2>1. CASE s \in Range(q)
    BY <2>1 DEF Enqueue, Refuses
  <2>2. CASE s \notin Range(q)
    <3>1. Enqueue(q, s) = Append(q, s)
      BY <2>2, NeverFull, LenProperties, ConstantsAssumption DEF Enqueue, Refuses
    <3>2. /\ DOMAIN Append(q, s) = 1 .. Len(q) + 1 /\ Append(q, s)[Len(q) + 1] = s
          /\ \A i \in 1 .. Len(q) : Append(q, s)[i] = q[i]
          /\ Len(q) \in Nat /\ DOMAIN q = 1 .. Len(q)
      OBVIOUS
    <3>3. \A i \in 1 .. Len(q) + 1 : i \in 1 .. Len(q) \/ i = Len(q) + 1
      BY <3>2
    <3> HIDE DEF Slots
    <3> QED
      BY <3>1, <3>2, <3>3 DEF Range
  <2> QED
    BY <2>1, <2>2
<1>2. ASSUME q # <<>>
      PROVE  Head(q) \in Range(q) /\ Range(Tail(q)) = Range(q) \ {Head(q)}
  <2>1. /\ Len(q) \in Nat /\ Len(q) # 0 /\ DOMAIN q = 1 .. Len(q) /\ Head(q) = q[1]
        /\ DOMAIN Tail(q) = 1 .. Len(q) - 1 /\ \A i \in 1 .. Len(q) - 1 : Tail(q)[i] = q[i + 1]
    BY <1>2
  <2>2. \A i, j \in DOMAIN q : q[i] = q[j] => i = j
    BY DEF Good, IsInjective
  <2>3. Head(q) \in Range(q)
    BY <2>1 DEF Range
  <2>4. ASSUME NEW x \in Range(Tail(q)) PROVE x \in Range(q) \ {Head(q)}
    <3>1. PICK i \in 1 .. Len(q) - 1 : x = q[i + 1]
      BY <2>1, <2>4 DEF Range
    <3>2. i + 1 \in DOMAIN q /\ 1 \in DOMAIN q /\ i + 1 # 1
      BY <2>1
    <3> QED
      BY <2>1, <2>2, <3>1, <3>2 DEF Range
  <2>5. ASSUME NEW x \in Range(q) \ {Head(q)} PROVE x \in Range(Tail(q))
    <3>1. PICK i \in 1 .. Len(q) : x = q[i]
      BY <2>1, <2>5 DEF Range
    <3>2. i # 1
      BY <2>1, <2>5, <3>1
    <3>3. i - 1 \in 1 .. Len(q) - 1 /\ (i - 1) + 1 = i
      BY <2>1, <3>2
    <3> QED
      BY <2>1, <3>1, <3>3 DEF Range
  <2> QED
    BY <2>3, <2>4, <2>5
<1> QED
  BY <1>1, <1>2

-----------------------------------------------------------------------------
(* The ready structure holds a process once *)

Member(rq, qs, s) == s \in Range(rq) \/ \E l \in Levels : s \in Range(qs[l])
Once(rq, qs) ==
  /\ Good(rq)
  /\ \A l \in Levels :
       /\ Good(qs[l])
       /\ Range(qs[l]) \cap Range(rq) = {}
       /\ \A m \in Levels : l # m => Range(qs[l]) \cap Range(qs[m]) = {}

\* A process put in the ready queue, or at level v of the array.
LEMMA AddOnce ==
  ASSUME NEW rq \in Seq(Slots), NEW qs \in [Levels -> Seq(Slots)],
         Once(rq, qs), NEW s \in Slots, s # Idle, ~Member(rq, qs, s), NEW v \in Levels
  PROVE  LET eq == Enqueue(rq, s)
             es == [qs EXCEPT ![v] = Enqueue(qs[v], s)]
         IN /\ Once(eq, qs) /\ \A x \in Slots : Member(eq, qs, x) <=> Member(rq, qs, x) \/ x = s
            /\ Once(rq, es) /\ \A x \in Slots : Member(rq, es, x) <=> Member(rq, qs, x) \/ x = s
<1> DEFINE eq == Enqueue(rq, s)
           es == [qs EXCEPT ![v] = Enqueue(qs[v], s)]
<1>0. Good(rq) /\ Good(qs[v]) /\ Good(eq) /\ Good(Enqueue(qs[v], s))
  BY GoodQueue DEF Once
<1>1. /\ Range(eq) = Range(rq) \union {s}
      /\ Range(Enqueue(qs[v], s)) = Range(qs[v]) \union {s}
  BY <1>0, QueueRange
<1>2. \A l \in Levels :
        /\ Range(es[l]) = IF l = v THEN Range(qs[l]) \union {s} ELSE Range(qs[l])
        /\ Good(es[l])
  BY <1>0, <1>1 DEF Once
<1> HIDE DEF Levels, Slots, eq, es
<1>3. s \notin Range(rq) /\ \A l \in Levels : s \notin Range(qs[l])
  BY DEF Member
<1>4. Once(eq, qs) /\ \A x \in Slots : Member(eq, qs, x) <=> Member(rq, qs, x) \/ x = s
  BY <1>0, <1>1, <1>3 DEF Once, Member
<1>5. Once(rq, es)
  BY <1>2, <1>3, ZenonT(30) DEF Once
<1>6. ASSUME NEW x \in Slots
      PROVE  Member(rq, es, x) <=> Member(rq, qs, x) \/ x = s
  <2>1. CASE x = s
    BY <1>2, <2>1 DEF Member
  <2>2. CASE x # s
    <3>1. \A l \in Levels : x \in Range(es[l]) <=> x \in Range(qs[l])
      BY <1>2, <2>2
    <3> QED
      BY <2>2, <3>1 DEF Member
  <2> QED
    BY <2>1, <2>2
<1> QED
  BY <1>4, <1>5, <1>6 DEF eq, es

\* The lag of the count makes no difference to who is not in the queue at all.
LEMMA EnqueueIsIn ==
  ASSUME TypeOK, NEW q \in Seq(Slots), Good(q), NEW s \in Slots, s \notin Range(q)
  PROVE  \A l \in Queues : EnqueueIn(q, l, s) = Enqueue(q, s)
<1>1. Len(q) < ProcMax /\ Len(q) \in Nat
  BY NeverFull, LenProperties
<1>2. Enqueue(q, s) = Append(q, s)
  BY <1>1, ConstantsAssumption DEF Enqueue, Refuses
<1> QED
  BY <1>1, <1>2, EnqueueInProperties

LEMMA EnqueueOnce ==
  ASSUME KInv, Once(ready_queue, queues), NEW s \in Slots, s # Idle, ~InAQueue(s)
  PROVE  /\ Once(ReadyWith(s), QueuesWith(s))
         /\ \A x \in Slots : Member(ReadyWith(s), QueuesWith(s), x) <=> InAQueue(x) \/ x = s
<1>1. /\ ready_queue \in Seq(Slots) /\ queues \in [Levels -> Seq(Slots)] /\ TypeOK
  BY DEF KInv, TypeOK
<1> DEFINE v == LevelOf(s)
<1>2. v \in Levels /\ v \in Queues /\ Ready \in Queues
  BY <1>1, EnqueueTypes, ReadyProperties
<1>3. \A x \in Slots : Member(ready_queue, queues, x) <=> InAQueue(x)
  BY DEF Member, InAQueue
<1>4. \/ ReadyWith(s) = Enqueue(ready_queue, s) /\ QueuesWith(s) = queues
      \/ ReadyWith(s) = ready_queue /\ QueuesWith(s) = [queues EXCEPT ![v] = Enqueue(queues[v], s)]
  <2>2. /\ Good(ready_queue) /\ s \notin Range(ready_queue)
        /\ Good(queues[v]) /\ s \notin Range(queues[v])
    BY <1>2 DEF Once, InAQueue
  <2>3. queues[v] \in Seq(Slots)
    BY <1>1, <1>2
  <2>4. /\ EnqueueIn(ready_queue, Ready, s) = Enqueue(ready_queue, s)
        /\ EnqueueIn(queues[v], v, s) = Enqueue(queues[v], s)
    BY <1>1, <1>2, <2>2, <2>3, EnqueueIsIn
  <2> QED
    BY <2>4 DEF ReadyWith, QueuesWith
<1> HIDE DEF v
<1>5. ~Member(ready_queue, queues, s)
  BY <1>3
<1> DEFINE eq == Enqueue(ready_queue, s)
           es == [queues EXCEPT ![v] = Enqueue(queues[v], s)]
<1>6. /\ Once(eq, queues) /\ \A x \in Slots : Member(eq, queues, x) <=> InAQueue(x) \/ x = s
      /\ Once(ready_queue, es) /\ \A x \in Slots : Member(ready_queue, es, x) <=> InAQueue(x) \/ x = s
  BY <1>1, <1>2, <1>3, <1>5, AddOnce
<1> HIDE DEF eq, es
<1>7. \/ ReadyWith(s) = eq /\ QueuesWith(s) = queues
      \/ ReadyWith(s) = ready_queue /\ QueuesWith(s) = es
  BY <1>4 DEF eq, es
<1> QED
  BY <1>6, <1>7

LEMMA TakeReady ==
  ASSUME NEW rq \in Seq(Slots), NEW qs \in [Levels -> Seq(Slots)], Once(rq, qs), rq # <<>>
  PROVE  /\ Member(rq, qs, Head(rq)) /\ Once(Tail(rq), qs)
         /\ \A x \in Slots : Member(Tail(rq), qs, x) <=> Member(rq, qs, x) /\ x # Head(rq)
<1>1. /\ Head(rq) \in Range(rq) /\ Range(Tail(rq)) = Range(rq) \ {Head(rq)}
      /\ Good(Tail(rq))
  BY QueueRange, GoodQueue DEF Once
<1> HIDE DEF Levels, Slots
<1> QED
  BY <1>1 DEF Once, Member

LEMMA TakeLevel ==
  ASSUME TypeOK, NEW rq \in Seq(Slots), NEW qs \in [Levels -> Seq(Slots)], Once(rq, qs),
         NonEmpty(qs) # {}
  PROVE  LET h == Head(qs[FirstLevel(qs)])
         IN /\ Member(rq, qs, h) /\ Once(rq, RotatedTail(qs)) /\ h \in Slots
            /\ \A x \in Slots : Member(rq, RotatedTail(qs), x) <=> Member(rq, qs, x) /\ x # h
<1> DEFINE k == FirstLevel(qs)
           h == Head(qs[k])
           rot(l) == (l + k) % (PQSize + 1)
<1>1. k \in Levels /\ qs[k] # <<>> /\ qs[k] \in Seq(Slots) /\ h \in Slots
  BY RotateProperties DEF NonEmpty
<1>2. /\ h \in Range(qs[k]) /\ Range(Tail(qs[k])) = Range(qs[k]) \ {h}
      /\ Good(Tail(qs[k]))
  BY <1>1, QueueRange, GoodQueue DEF Once
<1>3. RotatedTail(qs) = [l \in Levels |-> IF l = 0 THEN Tail(qs[k]) ELSE qs[rot(l)]]
  BY DEF RotatedTail
<1> HIDE DEF k, h
<1>4. /\ \A l \in Levels : rot(l) \in Levels
      /\ rot(0) = k /\ 0 \in Levels
      /\ \A l, m \in Levels : rot(l) = rot(m) => l = m
      /\ \A m \in Levels : \E l \in Levels : rot(l) = m
  BY <1>1, Rotation
<1> HIDE DEF rot
<1>5. \A l \in Levels : l # k => h \notin Range(qs[l])
  BY <1>1, <1>2 DEF Once
<1>6. h \notin Range(rq)
  BY <1>1, <1>2 DEF Once
<1>7. \A l \in Levels : /\ Range(RotatedTail(qs)[l]) = Range(qs[rot(l)]) \ {h}
                         /\ Good(RotatedTail(qs)[l])
  <2> SUFFICES ASSUME NEW l \in Levels
               PROVE  /\ Range(RotatedTail(qs)[l]) = Range(qs[rot(l)]) \ {h}
                      /\ Good(RotatedTail(qs)[l])
    OBVIOUS
  <2>1. CASE l = 0
    BY <1>2, <1>3, <1>4, <2>1
  <2>2. CASE l # 0
    <3>1. rot(l) # k /\ rot(l) \in Levels
      BY <1>4, <2>2
    <3>2. RotatedTail(qs)[l] = qs[rot(l)]
      BY <1>3, <2>2
    <3> QED
      BY <1>5, <3>1, <3>2 DEF Once
  <2> QED
    BY <2>1, <2>2
<1> HIDE DEF Levels, Slots
<1>8. Member(rq, qs, h)
  BY <1>1, <1>2 DEF Member
<1>9. Once(rq, RotatedTail(qs))
  BY <1>4, <1>7 DEF Once
<1>10. \A x \in Slots : Member(rq, RotatedTail(qs), x) <=> Member(rq, qs, x) /\ x # h
  <2> SUFFICES ASSUME NEW x \in Slots
               PROVE  Member(rq, RotatedTail(qs), x) <=> Member(rq, qs, x) /\ x # h
    OBVIOUS
  <2>1. ASSUME NEW l \in Levels, x \in Range(RotatedTail(qs)[l])
        PROVE  rot(l) \in Levels /\ x \in Range(qs[rot(l)]) /\ x # h
    <3>1. rot(l) \in Levels
      BY <1>4
    <3>2. Range(RotatedTail(qs)[l]) = Range(qs[rot(l)]) \ {h}
      BY <1>7
    <3> QED
      BY <2>1, <3>1, <3>2
  <2>2. ASSUME NEW m \in Levels, x \in Range(qs[m]), x # h
        PROVE  \E l \in Levels : x \in Range(RotatedTail(qs)[l])
    <3>1. PICK l \in Levels : rot(l) = m
      BY <1>4
    <3> QED
      BY <1>7, <2>2, <3>1
  <2> QED
    BY <1>6, <2>1, <2>2 DEF Member
<1> QED
  BY <1>1, <1>8, <1>9, <1>10 DEF h, k

-----------------------------------------------------------------------------
(* Where a process waits *)

NoSignals == Calls \cap {"kill", "ctrl-c"} = {}

Reading(s) == \E t \in Ttys : s \in Range(read_pblocks[t])
Waiting(s) == \E x \in Slots : s \in Range(wait_queue[x])
\* An exiting process holds s, to make it ready or to enqueue it.
Waking(s)  == \E x \in Slots : pc[x] = "wake" /\ held[x] = s
Pushing(s) == \E x \in Slots : pc[x] \in {"push", "store"} /\ held[x] = s
Asleep(s)  == sleeptime[s] > 0

\* Each kind of place holds a process once.
ReadsOnce == \A t, u \in Ttys : t # u => Range(read_pblocks[t]) \cap Range(read_pblocks[u]) = {}
WaitsOnce == \A x, y \in Slots : x # y => Range(wait_queue[x]) \cap Range(wait_queue[y]) = {}
HeldOnce  ==
  \A x, y \in Slots :
    pc[x] \in {"wake", "push", "store"} /\ pc[y] \in {"wake", "push", "store"} /\ held[x] = held[y] => x = y

Nowhere(s) ==
  ~InAQueue(s) /\ ~Reading(s) /\ ~Waiting(s) /\ ~Waking(s) /\ ~Pushing(s) /\ ~Asleep(s)

\* A process that runs or is dead waits nowhere; one that is ready is in the
\* ready structure or about to be enqueued, once prun was called, and nowhere
\* else; one that is blocked is at one place at most.
Place(s) ==
  /\ state[s] \in {"free", "zombie", "running"} => Nowhere(s)
  /\ state[s] = "ready" =>
       /\ ~Reading(s) /\ ~Waiting(s) /\ ~Waking(s) /\ ~Asleep(s)
       /\ ~(InAQueue(s) /\ Pushing(s))
       /\ started[s] <=> InAQueue(s) \/ Pushing(s)
  /\ state[s] = "blocked" =>
       /\ ~Pushing(s)
       /\ InAQueue(s) => ~Reading(s) /\ ~Waiting(s) /\ ~Waking(s) /\ ~Asleep(s)
       /\ Reading(s) => ~Waiting(s) /\ ~Waking(s) /\ ~Asleep(s)
       /\ Waiting(s) => ~Waking(s) /\ ~Asleep(s)
       /\ Waking(s) => ~Asleep(s)
  /\ state[s] \in {"zombie", "running", "blocked"} => started[s]
  /\ pc[s] \in {"drain", "take", "wake", "push", "store", "bump", "zombify"} => state[s] \in {"ready", "running"}

\* In its program, or in its exit and not yet a zombie.
Busy == {"user", "drain", "take", "wake", "push", "store", "bump", "zombify"}
USE DEF Busy

\* The process that has the CPU is RUNNING while it is in its program or exits.
CurrentRuns ==
  current # Idle /\ pc[current] \in Busy
    => state[current] = "running"

Quiet == {"move", "tick", "unlock", "spin", "fault"}
QuietFrames == frames = <<>> \/ \E f \in Frames : frames = <<f>> /\ f.op \in Quiet

ReadyOnce == Once(ready_queue, queues)
Others == Slots \ {Idle}

PlaceInv ==
  /\ ReadyOnce /\ ReadsOnce /\ WaitsOnce /\ HeldOnce
  /\ CurrentRuns /\ QuietFrames
  /\ \A s \in Others : Place(s)

\* What a step leaves as it was.
SameReady == ReadyOnce' /\ \A x \in Slots : InAQueue(x)' <=> InAQueue(x)
SameReads == ReadsOnce' /\ \A x \in Slots : Reading(x)' <=> Reading(x)
SameWaits == WaitsOnce' /\ \A x \in Slots : Waiting(x)' <=> Waiting(x)
SameHeld  == HeldOnce' /\ \A x \in Slots : (Waking(x)' <=> Waking(x)) /\ (Pushing(x)' <=> Pushing(x))

LEMMA Unmoved ==
  ASSUME PlaceInv
  PROVE  /\ UNCHANGED queued => SameReady
         /\ UNCHANGED <<ready_queue, queues>> => SameReady
         /\ UNCHANGED read_pblocks => SameReads
         /\ UNCHANGED wait_queue => SameWaits
         /\ UNCHANGED <<pc, held>> => SameHeld
<1>1. UNCHANGED <<ready_queue, queues>> => SameReady
  BY DEF PlaceInv, SameReady, ReadyOnce, Once, InAQueue
<1>2. UNCHANGED read_pblocks => SameReads
  BY DEF PlaceInv, SameReads, ReadsOnce, Reading
<1>3. UNCHANGED wait_queue => SameWaits
  BY DEF PlaceInv, SameWaits, WaitsOnce, Waiting
<1>4. UNCHANGED <<pc, held>> => SameHeld
  BY DEF PlaceInv, SameHeld, HeldOnce, Waking, Pushing
<1> QED
  BY <1>1, <1>2, <1>3, <1>4 DEF queued

\* A step of s that neither enters nor leaves the wake-up of a waiter.
LEMMA UnmovedHeld ==
  ASSUME PlaceInv, pc \in [Slots -> PCs], NEW s \in Slots, NEW b,
         pc[s] \notin {"wake", "push", "store"}, b \notin {"wake", "push", "store"},
         pc' = [pc EXCEPT ![s] = b], UNCHANGED held
  PROVE  SameHeld
<1>1. \A x \in Slots : pc'[x] = IF x = s THEN b ELSE pc[x]
  OBVIOUS
<1> HIDE DEF Slots
<1>2. \A x \in Slots :
        /\ pc'[x] = "wake" <=> pc[x] = "wake"
        /\ pc'[x] \in {"push", "store"} <=> pc[x] \in {"push", "store"}
  BY <1>1
<1>3. HeldOnce'
  BY <1>2 DEF PlaceInv, HeldOnce
<1>4. \A x \in Slots : (Waking(x)' <=> Waking(x)) /\ (Pushing(x)' <=> Pushing(x))
  BY <1>2 DEF Waking, Pushing
<1> QED
  BY <1>3, <1>4 DEF SameHeld

\* sched_enqueue of a process that is not in the ready structure.
LEMMA EnqueuedPlace ==
  ASSUME KInv, PlaceInv, NEW s \in Others, ~InAQueue(s), SchedEnqueue(s)
  PROVE  ReadyOnce' /\ \A x \in Slots : InAQueue(x)' <=> InAQueue(x) \/ x = s
<1>1. /\ Once(ReadyWith(s), QueuesWith(s))
      /\ \A x \in Slots : Member(ReadyWith(s), QueuesWith(s), x) <=> InAQueue(x) \/ x = s
  BY EnqueueOnce DEF PlaceInv, ReadyOnce, Others
<1>2. ready_queue' = ReadyWith(s) /\ queues' = QueuesWith(s)
  BY DEF SchedEnqueue
<1>3. Once(ready_queue', queues') /\ \A x \in Slots : Member(ready_queue', queues', x) <=> InAQueue(x) \/ x = s
  BY <1>1, <1>2
<1>4. ReadyOnce' <=> Once(ready_queue', queues')
  BY DEF ReadyOnce, Once
<1>5. \A x \in Slots : InAQueue(x)' <=> Member(ready_queue', queues', x)
  BY DEF InAQueue, Member
<1> QED
  BY <1>3, <1>4, <1>5

\* A process a step does nothing to.
SamePlace(x) ==
  /\ state'[x] = state[x] /\ started'[x] = started[x] /\ pc'[x] = pc[x]
  /\ sleeptime'[x] = sleeptime[x]

LEMMA PlaceKept ==
  ASSUME NEW x \in Others, Place(x), SamePlace(x),
         InAQueue(x)' <=> InAQueue(x), Reading(x)' <=> Reading(x),
         Waiting(x)' => Waiting(x), Waking(x)' <=> Waking(x), Pushing(x)' <=> Pushing(x)
  PROVE  Place(x)'
<1> DEFINE st == state[x]
           pp == pc[x]
           go == started[x]
<1>1. state'[x] = st /\ started'[x] = go /\ pc'[x] = pp /\ (Asleep(x)' <=> Asleep(x))
  BY DEF SamePlace, Asleep
<1> HIDE DEF st, pp, go
<1>2. Nowhere(x) => Nowhere(x)'
  BY <1>1 DEF Nowhere
<1> QED
  BY <1>1, <1>2, Zenon DEF Place, st, pp, go

-----------------------------------------------------------------------------
(* One lemma for each kind of step *)

LEMMA Typing ==
  ASSUME KInv
  PROVE  /\ state \in [Slots -> States] /\ started \in [Slots -> BOOLEAN]
         /\ pc \in [Slots -> PCs] /\ held \in [Slots -> Slots] /\ current \in Slots
         /\ sleeptime \in [Slots -> Nat]
         /\ wait_queue \in [Slots -> Seq(Slots)] /\ read_pblocks \in [Ttys -> Seq(Slots)]
         /\ ready_queue \in Seq(Slots) /\ queues \in [Levels -> Seq(Slots)]
         /\ frames \in Seq(Frames)
         /\ 0 \in Slots /\ Others \subseteq Slots /\ Ttys \subseteq Slots
         /\ state[Idle] = "ready"
<1>1. 0 \in Slots /\ Others \subseteq Slots /\ Ttys \subseteq Slots
  BY ConstantsAssumption DEF Others
<1>2. TypeOK /\ state[Idle] = "ready"
  BY DEF KInv, LifeInv
<1> HIDE DEF Slots, Levels, Ttys
<1> QED
  BY <1>1, <1>2 DEF TypeOK

\* No step but scheduler_think gives the CPU away.
LEMMA StillRuns ==
  ASSUME KInv, PlaceInv, UNCHANGED current,
         \/ UNCHANGED <<state, pc>>
         \/ /\ pc'[current] = pc[current] \/ pc[current] \in Busy
            /\ state'[current] = state[current]
         \/ pc'[current] \notin Busy
  PROVE  CurrentRuns'
BY DEF PlaceInv, CurrentRuns

LEMMA PCreatePlaces == KInv /\ PlaceInv /\ PCreate => PlaceInv'
<1> SUFFICES ASSUME KInv, PlaceInv, PCreate PROVE PlaceInv'
  OBVIOUS
<1>1. /\ state \in [Slots -> States] /\ started \in [Slots -> BOOLEAN] /\ current \in Slots
      /\ pc \in [Slots -> PCs] /\ wait_queue \in [Slots -> Seq(Slots)] /\ 0 \in Slots
      /\ Others \subseteq Slots
  BY Typing
<1>2. PICK c \in Others : c = GetFree /\ Dead(c)
  <2>1. 0 \in Residents
    BY ConstantsAssumption DEF Residents
  <2> QED
    BY <2>1, GetFreeProperties DEF PCreate, Others
<1>3. /\ state' = [state EXCEPT ![c] = "ready"] /\ started' = [started EXCEPT ![c] = FALSE]
      /\ pc' = [pc EXCEPT ![c] = "user"] /\ wait_queue' = [wait_queue EXCEPT ![c] = <<>>]
      /\ UNCHANGED <<sleeptime, held, queued, current, read_pblocks, frames>>
      /\ current # Idle /\ pc[current] = "user"
  BY <1>2 DEF PCreate, cpu, Call, InProgram
<1> HIDE DEF Slots, Levels, Ttys
<1>4. Place(c) /\ Nowhere(c)
  BY <1>2 DEF PlaceInv, Place, Dead
<1>5. pc[c] \notin {"wake", "push", "store"}
  BY <1>2, <1>4 DEF Place, Dead
<1>6. SameReady /\ SameReads
  BY <1>3, Unmoved
<1>7. SameHeld
  BY <1>1, <1>2, <1>3, <1>5, UnmovedHeld
<1>8. WaitsOnce' /\ \A x \in Slots : Waiting(x)' => Waiting(x)
  <2>1. \A x \in Slots : Range(wait_queue'[x]) = IF x = c THEN {} ELSE Range(wait_queue[x])
    <3>1. Range(<<>>) = {}
      BY DEF Range
    <3> QED
      BY <1>1, <1>3, <3>1
  <2> QED
    BY <2>1 DEF PlaceInv, WaitsOnce, Waiting
<1>9. CurrentRuns'
  <2>1. state[current] = "running"
    BY <1>3 DEF PlaceInv, CurrentRuns
  <2>2. current # c
    BY <1>2, <2>1 DEF Dead
  <2> QED
    BY <1>1, <1>2, <1>3, <2>1, <2>2 DEF CurrentRuns
<1>10. ASSUME NEW x \in Others PROVE Place(x)'
  <2>0. x \in Slots
    BY <1>1
  <2>1. CASE x = c
    <3>1. state'[c] = "ready" /\ started'[c] = FALSE /\ pc'[c] = "user" /\ sleeptime' = sleeptime
      BY <1>1, <1>2, <1>3
    <3>2. Nowhere(c)'
      BY <1>4, <1>6, <1>7, <1>8, <2>0, <2>1, <3>1
      DEF Nowhere, SameReady, SameReads, SameHeld, Asleep
    <3> QED
      BY <2>1, <3>1, <3>2 DEF Place, Nowhere
  <2>2. CASE x # c
    <3>1. SamePlace(x)
      BY <1>1, <1>3, <2>0, <2>2 DEF SamePlace
    <3>2. Place(x)
      BY DEF PlaceInv
    <3> QED
      BY <1>6, <1>7, <1>8, <2>0, <3>1, <3>2, PlaceKept DEF SameReady, SameReads, SameHeld
  <2> QED
    BY <2>1, <2>2
<1>11. QuietFrames'
  BY <1>3 DEF PlaceInv, QuietFrames
<1> QED
  BY <1>6, <1>7, <1>8, <1>9, <1>10, <1>11 DEF PlaceInv, SameReady, SameReads, SameHeld

\* prun enqueues a process that waits nowhere.
LEMMA PRunPlaces ==
  ASSUME KInv, PlaceInv, NEW c \in Slots, PRun(c)
  PROVE  PlaceInv'
<1>1. /\ state \in [Slots -> States] /\ started \in [Slots -> BOOLEAN]
      /\ Others \subseteq Slots /\ 0 \in Slots
  BY Typing
<1>2. /\ ~started[c] /\ state[c] # "free"
      /\ started' = [started EXCEPT ![c] = TRUE] /\ SchedEnqueue(c)
      /\ UNCHANGED <<state, sleeptime, wait_queue, pc, held, current, read_pblocks, frames>>
  BY DEF PRun, waits, pool
<1>3. c \in Others
  <2>1. 0 \in Residents
    BY ConstantsAssumption DEF Residents
  <2> QED
    BY <1>2, <2>1 DEF KInv, TableInv, Others
<1>4. Place(c)
  BY <1>3 DEF PlaceInv
<1> HIDE DEF Slots, Levels, Ttys
<1>5. state[c] = "ready" /\ Nowhere(c)
  <2>1. state[c] \in {"zombie", "blocked", "ready", "running"}
    BY <1>1, <1>2 DEF States
  <2> QED
    BY <1>2, <1>4, <2>1 DEF Place, Nowhere
<1>6. ReadyOnce' /\ \A x \in Slots : InAQueue(x)' <=> InAQueue(x) \/ x = c
  BY <1>2, <1>3, <1>5, EnqueuedPlace DEF Nowhere
<1>7. SameReads /\ SameWaits /\ SameHeld
  BY <1>2, Unmoved
<1>8. ASSUME NEW x \in Others PROVE Place(x)'
  <2>0. x \in Slots
    BY <1>1
  <2>1. CASE x = c
    <3>1. state'[c] = "ready" /\ started'[c] = TRUE /\ pc'[c] = pc[c] /\ InAQueue(c)'
      BY <1>1, <1>2, <1>5, <1>6
    <3>2. ~Reading(c)' /\ ~Waiting(c)' /\ ~Waking(c)' /\ ~Pushing(c)' /\ ~Asleep(c)'
      BY <1>2, <1>5, <1>7, <2>0, <2>1 DEF Nowhere, SameReads, SameWaits, SameHeld, Asleep
    <3> QED
      BY <1>4, <2>1, <3>1, <3>2 DEF Place
  <2>2. CASE x # c
    <3>1. SamePlace(x)
      BY <1>1, <1>2, <2>0, <2>2 DEF SamePlace
    <3>2. Place(x)
      BY DEF PlaceInv
    <3> QED
      BY <1>6, <1>7, <2>0, <2>2, <3>1, <3>2, PlaceKept DEF SameReads, SameWaits, SameHeld
  <2> QED
    BY <2>1, <2>2
<1>9. CurrentRuns' /\ QuietFrames'
  BY <1>2 DEF PlaceInv, CurrentRuns, QuietFrames
<1> QED
  BY <1>6, <1>7, <1>8, <1>9 DEF PlaceInv, SameReads, SameWaits, SameHeld

\* The running process blocks, at one place or at none.
LEMMA BlockPlaces ==
  ASSUME KInv, PlaceInv, InProgram,
         state' = [state EXCEPT ![current] = "blocked"], pc' = [pc EXCEPT ![current] = "yield"],
         UNCHANGED <<current, started, held, queued, frames>>,
         ReadsOnce', WaitsOnce',
         \A x \in Others \ {current} :
           (Reading(x)' <=> Reading(x)) /\ (Waiting(x)' <=> Waiting(x)) /\ sleeptime'[x] = sleeptime[x],
         \/ ~Waiting(current)' /\ ~Asleep(current)'
         \/ ~Reading(current)' /\ ~Asleep(current)'
         \/ ~Reading(current)' /\ ~Waiting(current)'
  PROVE  PlaceInv'
<1> DEFINE c == current
<1>1. /\ state \in [Slots -> States] /\ pc \in [Slots -> PCs] /\ held \in [Slots -> Slots]
      /\ Others \subseteq Slots /\ c \in Others
  BY Typing DEF InProgram, Others
<1>2. pc[c] = "user"
  BY DEF InProgram
<1>3. Place(c) /\ Nowhere(c) /\ state[c] = "running"
  BY <1>1, <1>2 DEF PlaceInv, CurrentRuns, Place, Others
<1> HIDE DEF Slots, Levels, Ttys
<1>4. SameReady
  BY Unmoved
<1>5. SameHeld
  BY <1>1, <1>2, UnmovedHeld
<1>6. ASSUME NEW x \in Others PROVE Place(x)'
  <2>0. x \in Slots
    BY <1>1
  <2>1. CASE x = c
    <3>1. state'[c] = "blocked" /\ pc'[c] = "yield" /\ started'[c] /\ ~InAQueue(c)' /\ ~Waking(c)' /\ ~Pushing(c)'
      BY <1>1, <1>3, <1>4, <1>5, <2>0, <2>1 DEF Place, Nowhere, SameReady, SameHeld
    <3> QED
      BY <2>1, <3>1 DEF Place
  <2>2. CASE x # c
    <3>1. SamePlace(x)
      BY <1>1, <2>0, <2>2 DEF SamePlace
    <3>2. Place(x)
      BY DEF PlaceInv
    <3> QED
      BY <1>4, <1>5, <2>0, <2>2, <3>1, <3>2, PlaceKept DEF SameReady, SameHeld
  <2> QED
    BY <2>1, <2>2
<1>7. CurrentRuns' /\ QuietFrames'
  BY <1>1 DEF PlaceInv, CurrentRuns, QuietFrames
<1> QED
  BY <1>4, <1>5, <1>6, <1>7 DEF PlaceInv, SameReady, SameHeld

LEMMA QueueAdds ==
  ASSUME KInv, NEW D, NEW Q \in [D -> Seq(Slots)], NEW d \in D, NEW s \in Others,
         \A e \in D : Good(Q[e]) /\ s \notin Range(Q[e])
  PROVE  LET R == [Q EXCEPT ![d] = Enqueue(Q[d], s)]
         IN \A e \in D : Range(R[e]) = IF e = d THEN Range(Q[e]) \union {s} ELSE Range(Q[e])
<1>1. Range(Enqueue(Q[d], s)) = Range(Q[d]) \union {s}
  BY QueueRange DEF Others
<1> HIDE DEF Slots
<1> QED
  BY <1>1

\* A step that moves nobody.
LEMMA StillPlaces ==
  ASSUME KInv, PlaceInv, QuietFrames',
         UNCHANGED <<state, started, pc, held, sleeptime, wait_queue, read_pblocks, queued, current>>
  PROVE  PlaceInv'
<1>1. SameReady /\ SameReads /\ SameWaits /\ SameHeld
  BY Unmoved
<1>2. ASSUME NEW x \in Others PROVE Place(x)'
  <2>1. SamePlace(x)
    BY DEF SamePlace
  <2>2. Place(x) /\ x \in Slots
    BY Typing DEF PlaceInv
  <2> QED
    BY <1>1, <2>1, <2>2, PlaceKept DEF SameReady, SameReads, SameWaits, SameHeld
<1>3. CurrentRuns'
  BY StillRuns
<1> QED
  BY <1>1, <1>2, <1>3 DEF PlaceInv, SameReady, SameReads, SameWaits, SameHeld

\* An interrupt or a call that starts a loop of the kernel.
LEMMA QuietStart ==
  ASSUME NEW op \in Quiet, NEW a \in Nat, op = "unlock" => a \in Ttys, frames' = <<Frame(op, a, 0)>>
  PROVE  QuietFrames'
<1>1. Frame(op, a, 0) \in Frames /\ Frame(op, a, 0).op = op
  BY ConstantsAssumption DEF Quiet, Frames, Frame, Ops
<1> QED
  BY <1>1 DEF QuietFrames

\* waitpid adds the caller to one wait queue.
LEMMA WaitAdds ==
  ASSUME KInv, PlaceInv, NEW c \in Slots, WaitPid(c)
  PROVE  /\ \A x \in Slots : current \notin Range(wait_queue[x])
         /\ \A x \in Slots : Range(wait_queue'[x]) = IF x = c THEN Range(wait_queue[x]) \union {current}
                                                     ELSE Range(wait_queue[x])
<1>1. /\ wait_queue \in [Slots -> Seq(Slots)] /\ current \in Slots /\ Others \subseteq Slots
      /\ \A s \in Slots : Good(wait_queue[s])
  BY Typing DEF KInv, QueueInv
<1>2. /\ InProgram /\ wait_queue' = [wait_queue EXCEPT ![c] = Enqueue(wait_queue[c], current)]
  BY DEF WaitPid, Call
<1>3. current \in Others /\ Nowhere(current)
  BY <1>1, <1>2 DEF InProgram, PlaceInv, CurrentRuns, Place, Others
<1>4. \A x \in Slots : current \notin Range(wait_queue[x])
  BY <1>3 DEF Nowhere, Waiting
<1> DEFINE s == current
<1> HIDE DEF Slots, s
<1>5. \A x \in Slots : Good(wait_queue[x]) /\ s \notin Range(wait_queue[x])
  BY <1>1, <1>4 DEF s
<1>6. \A x \in Slots : Range([wait_queue EXCEPT ![c] = Enqueue(wait_queue[c], s)][x])
                         = IF x = c THEN Range(wait_queue[x]) \union {s} ELSE Range(wait_queue[x])
  BY <1>1, <1>3, <1>5, QueueAdds, ZenonT(30) DEF s
<1> QED
  BY <1>2, <1>4, <1>6 DEF s

\* tty_read adds it to the queue of a context.
LEMMA ReadAdds ==
  ASSUME KInv, PlaceInv, NEW t \in Ttys, ReadBlock(t)
  PROVE  /\ \A u \in Ttys : current \notin Range(read_pblocks[u])
         /\ \A u \in Ttys : Range(read_pblocks'[u]) = IF u = t THEN Range(read_pblocks[u]) \union {current}
                                                      ELSE Range(read_pblocks[u])
<1>1. /\ read_pblocks \in [Ttys -> Seq(Slots)] /\ current \in Slots /\ Others \subseteq Slots
      /\ \A u \in Ttys : Good(read_pblocks[u])
  BY Typing DEF KInv, QueueInv
<1>2. InProgram /\ read_pblocks' = [read_pblocks EXCEPT ![t] = Enqueue(read_pblocks[t], current)]
  BY DEF ReadBlock, Call
<1>3. current \in Others /\ Nowhere(current)
  BY <1>1, <1>2 DEF InProgram, PlaceInv, CurrentRuns, Place, Others
<1>4. \A u \in Ttys : current \notin Range(read_pblocks[u])
  BY <1>3 DEF Nowhere, Reading
<1> QED
  BY <1>1, <1>2, <1>3, <1>4, QueueAdds

LEMMA SysCallPlaces == NoSignals /\ KInv /\ PlaceInv /\ SysCall => PlaceInv'
<1> SUFFICES ASSUME NoSignals, KInv, PlaceInv, SysCall PROVE PlaceInv'
  OBVIOUS
<1>1. /\ state \in [Slots -> States] /\ pc \in [Slots -> PCs] /\ held \in [Slots -> Slots]
      /\ wait_queue \in [Slots -> Seq(Slots)] /\ read_pblocks \in [Ttys -> Seq(Slots)]
      /\ current \in Slots /\ Others \subseteq Slots /\ sleeptime \in [Slots -> Nat]
      /\ \A s \in Slots : Good(wait_queue[s])
      /\ \A t \in Ttys : Good(read_pblocks[t])
  BY Typing DEF KInv, QueueInv
<1>2. InProgram => current \in Others /\ Nowhere(current)
  BY <1>1 DEF InProgram, PlaceInv, CurrentRuns, Place, Others
<1>3. ASSUME NEW c \in Slots, WaitPid(c) PROVE PlaceInv'
  <2>1. /\ InProgram /\ wait_queue' = [wait_queue EXCEPT ![c] = Enqueue(wait_queue[c], current)]
        /\ state' = [state EXCEPT ![current] = "blocked"] /\ pc' = [pc EXCEPT ![current] = "yield"]
        /\ UNCHANGED <<sleeptime, started, held, current, queued, read_pblocks, frames>>
    BY <1>3 DEF WaitPid, Call, cpu, pool
  <2>2. \A x \in Slots : current \notin Range(wait_queue[x])
    BY <1>3, WaitAdds
  <2>3. \A x \in Slots : Range(wait_queue'[x]) = IF x = c THEN Range(wait_queue[x]) \union {current}
                                                 ELSE Range(wait_queue[x])
    BY <1>3, WaitAdds
  <2> HIDE DEF Slots, Ttys, Levels
  <2>4. WaitsOnce'
    BY <2>2, <2>3, ZenonT(30) DEF PlaceInv, WaitsOnce
  <2>5. \A x \in Others \ {current} : Waiting(x)' <=> Waiting(x)
    BY <2>3 DEF Waiting
  <2>6. SameReads
    BY <2>1, Unmoved
  <2>7. \A x \in Others : Reading(x)' <=> Reading(x)
    BY <1>1, <2>6 DEF SameReads
  <2>8. ~Reading(current)' /\ ~Asleep(current)'
    BY <1>2, <2>1 DEF Nowhere, Reading, Asleep
  <2> QED
    BY <2>1, <2>4, <2>5, <2>6, <2>7, <2>8, BlockPlaces DEF SameReads
<1>4. ASSUME NEW t \in Ttys, ReadBlock(t) PROVE PlaceInv'
  <2>1. /\ InProgram /\ read_pblocks' = [read_pblocks EXCEPT ![t] = Enqueue(read_pblocks[t], current)]
        /\ state' = [state EXCEPT ![current] = "blocked"] /\ pc' = [pc EXCEPT ![current] = "yield"]
        /\ UNCHANGED <<sleeptime, started, held, current, queued, wait_queue, frames>>
    BY <1>4 DEF ReadBlock, Call, cpu, waits
  <2>2. \A u \in Ttys : current \notin Range(read_pblocks[u])
    BY <1>4, ReadAdds
  <2>3. \A u \in Ttys : Range(read_pblocks'[u]) = IF u = t THEN Range(read_pblocks[u]) \union {current}
                                                  ELSE Range(read_pblocks[u])
    BY <1>4, ReadAdds
  <2> HIDE DEF Slots, Ttys, Levels
  <2>4. ReadsOnce'
    BY <2>2, <2>3 DEF PlaceInv, ReadsOnce
  <2>5. \A x \in Others \ {current} : Reading(x)' <=> Reading(x)
    BY <2>3 DEF Reading
  <2>6. SameWaits
    BY <2>1, Unmoved
  <2>7. \A x \in Others : Waiting(x)' <=> Waiting(x)
    BY <1>1, <2>6 DEF SameWaits
  <2>8. ~Waiting(current)' /\ ~Asleep(current)'
    BY <1>2, <2>1 DEF Nowhere, Waiting, Asleep
  <2> QED
    BY <2>1, <2>4, <2>5, <2>6, <2>7, <2>8, BlockPlaces DEF SameWaits
<1>5. ASSUME NEW t \in SleepTimes, Sleep(t) PROVE PlaceInv'
  <2>1. /\ InProgram /\ sleeptime' = [sleeptime EXCEPT ![current] = t]
        /\ state' = [state EXCEPT ![current] = "blocked"] /\ pc' = [pc EXCEPT ![current] = "yield"]
        /\ UNCHANGED <<read_pblocks, started, held, current, queued, wait_queue, frames>>
    BY <1>5 DEF Sleep, Call, cpu, pool
  <2>2. SameReads /\ SameWaits
    BY <2>1, Unmoved
  <2>3. \A x \in Others : (Reading(x)' <=> Reading(x)) /\ (Waiting(x)' <=> Waiting(x))
    BY <1>1, <2>2 DEF SameReads, SameWaits
  <2>4. \A x \in Others \ {current} : sleeptime'[x] = sleeptime[x]
    BY <1>1, <2>1
  <2>5. ~Reading(current)' /\ ~Waiting(current)'
    BY <1>2, <2>1 DEF Nowhere, Reading, Waiting
  <2> QED
    BY <2>1, <2>2, <2>3, <2>4, <2>5, BlockPlaces DEF SameReads, SameWaits
<1>6. ASSUME UNCHANGED <<state, started, pc, held, sleeptime, wait_queue, read_pblocks, queued, current>>,
             QuietFrames'
      PROVE  PlaceInv'
  BY <1>6, StillPlaces
<1>7. ASSUME NEW op \in Quiet \ {"unlock"}, frames' = <<Frame(op, 0, 0)>> PROVE QuietFrames'
  BY <1>7, QuietStart
<1>8. CASE PCreateSpins
  <2>1. QuietFrames'
    BY <1>7, <1>8 DEF PCreateSpins, Stuck, Quiet
  <2> QED
    BY <1>6, <1>8, <2>1 DEF PCreateSpins, Stuck, waits, marks, cpu, pool
<1>9. ASSUME NEW s \in Slots, NEW p \in Prios, SetPriority(s, p) PROVE PlaceInv'
  <2>1. QuietFrames'
    BY <1>9 DEF SetPriority, PlaceInv, QuietFrames
  <2> QED
    BY <1>6, <1>9, <2>1 DEF SetPriority, waits, marks, cpu, pool
<1>10. ASSUME NEW m \in Modes, SetSched(m) PROVE PlaceInv'
  <2>1. QuietFrames'
    BY <1>7, <1>10 DEF SetSched, Quiet
  <2> QED
    BY <1>6, <1>10, <2>1 DEF SetSched, waits, marks, pool
<1>11. \A s \in Slots : ~Kill(s)
  BY DEF NoSignals, Kill, Call
<1>12. CASE PCreate
  BY <1>12, PCreatePlaces
<1>13. ASSUME NEW c \in Slots, PRun(c) PROVE PlaceInv'
  BY <1>13, PRunPlaces
<1> QED
  BY <1>3, <1>4, <1>5, <1>8, <1>9, <1>10, <1>11, <1>12, <1>13 DEF SysCall

\* A step of the exit of the current process that wakes nobody.
LEMMA ExitPlaces == KInv /\ PlaceInv /\ (Exit \/ ExitZombify \/ ExitCount) => PlaceInv'
<1> SUFFICES ASSUME KInv, PlaceInv, Exit \/ ExitZombify \/ ExitCount PROVE PlaceInv'
  OBVIOUS
<1> DEFINE c == current
<1>1. /\ state \in [Slots -> States] /\ pc \in [Slots -> PCs] /\ held \in [Slots -> Slots]
      /\ current \in Others /\ Others \subseteq Slots
  BY Typing DEF Exit, ExitZombify, ExitCount, ExitTo, Others
<1>2. /\ UNCHANGED <<sleeptime, started, current, read_pblocks, wait_queue, held, queued, frames>>
      /\ \/ pc[c] = "user" /\ pc' = [pc EXCEPT ![c] = "drain"] /\ state' = state
         \/ pc[c] = "zombify" /\ pc' = [pc EXCEPT ![c] = "count"] /\ state' = [state EXCEPT ![c] = "zombie"]
         \/ pc[c] = "count" /\ pc' = [pc EXCEPT ![c] = "last"] /\ state' = state
  <2>1. CASE Exit
    BY <2>1 DEF Exit, ExitTo
  <2>2. CASE ExitZombify
    BY <2>2 DEF ExitZombify, ExitTo
  <2>3. CASE ExitCount
    BY <2>3 DEF ExitCount, ExitTo
  <2> QED
    BY <2>1, <2>2, <2>3
<1> HIDE DEF Slots, Levels, Ttys
<1>3. Place(c)
  BY <1>1 DEF PlaceInv
<1>4. pc[c] # "count" => state[c] = "running" /\ Nowhere(c) /\ started[c]
  BY <1>1, <1>2, <1>3 DEF PlaceInv, CurrentRuns, Others, Place
<1>5. SameReady /\ SameReads /\ SameWaits
  BY <1>2, Unmoved
<1>6. SameHeld
  <2>1. PICK b \in {"drain", "count", "last"} : pc' = [pc EXCEPT ![c] = b]
    BY <1>2
  <2>2. pc[c] \notin {"wake", "push", "store"}
    BY <1>2
  <2> QED
    BY <1>1, <1>2, <2>1, <2>2, UnmovedHeld
<1>7. ASSUME NEW x \in Others PROVE Place(x)'
  <2>0. x \in Slots
    BY <1>1
  <2>1. CASE x = c /\ pc[c] # "count"
    <3>1. Nowhere(c)' /\ started'[c]
      BY <1>2, <1>4, <1>5, <1>6, <2>0, <2>1 DEF Nowhere, SameReady, SameReads, SameWaits, SameHeld, Asleep
    <3>2. \/ state'[c] = "running" /\ pc'[c] = "drain"
          \/ state'[c] = "zombie" /\ pc'[c] = "count"
      BY <1>1, <1>2, <1>4, <2>0, <2>1
    <3> QED
      BY <1>2, <2>1, <3>1, <3>2 DEF Place
  <2>2. CASE x = c /\ pc[c] = "count"
    <3>1. /\ state'[c] = state[c] /\ started'[c] = started[c] /\ pc'[c] = "last"
          /\ InAQueue(c)' <=> InAQueue(c)
          /\ Reading(c)' <=> Reading(c)
          /\ Waiting(c)' <=> Waiting(c)
          /\ Waking(c)' <=> Waking(c)
          /\ Pushing(c)' <=> Pushing(c)
          /\ Asleep(c)' <=> Asleep(c)
      BY <1>1, <1>2, <1>5, <1>6, <2>0, <2>2 DEF SameReady, SameReads, SameWaits, SameHeld, Asleep
    <3>2. Nowhere(c) => Nowhere(c)'
      BY <3>1 DEF Nowhere
    <3> QED
      BY <1>2, <1>3, <2>2, <3>1, <3>2, Zenon DEF Place
  <2>3. CASE x # c
    <3>1. SamePlace(x)
      BY <1>1, <1>2, <2>0, <2>3 DEF SamePlace
    <3>2. Place(x)
      BY DEF PlaceInv
    <3> QED
      BY <1>5, <1>6, <2>0, <3>1, <3>2, PlaceKept DEF SameReady, SameReads, SameWaits, SameHeld
  <2> QED
    BY <2>1, <2>2, <2>3
<1>8. CurrentRuns'
  BY <1>1, <1>2, <1>4 DEF CurrentRuns
<1>9. QuietFrames'
  BY <1>2 DEF PlaceInv, QuietFrames
<1> QED
  BY <1>5, <1>6, <1>7, <1>8, <1>9 DEF PlaceInv, SameReady, SameReads, SameWaits, SameHeld

\* A turn of the loop of process_cleaner begins, or the loop is left; and the
\* count of the queue catches up with the entry stored.
LEMMA TurnPlaces ==
  ASSUME KInv, PlaceInv, Preemptible, current # Idle, pc[current] \in {"drain", "bump"},
         NEW b \in {"drain", "take", "zombify"}, pc' = [pc EXCEPT ![current] = b],
         NEW h \in [Slots -> Slots], held' = h, \A x \in Slots \ {current} : h[x] = held[x],
         UNCHANGED <<state, sleeptime, started, current, read_pblocks, wait_queue, ready_queue, queues, frames>>
  PROVE  PlaceInv'
<1>1. /\ state \in [Slots -> States] /\ pc \in [Slots -> PCs] /\ held \in [Slots -> Slots]
      /\ current \in Others /\ Others \subseteq Slots
  BY Typing DEF Others
<1>2. PICK c \in Others : c = current
  BY <1>1
<1>3. pc[c] \in {"drain", "bump"} /\ pc' = [pc EXCEPT ![c] = b] /\ \A x \in Slots : x # c => held'[x] = held[x]
  BY <1>2
<1>4. state[c] = "running" /\ Place(c) /\ Nowhere(c) /\ started[c] /\ c \in Slots
  BY <1>1, <1>2, <1>3 DEF PlaceInv, CurrentRuns, Place
<1>5. SameReady /\ SameReads /\ SameWaits
  BY Unmoved
<1>6. QuietFrames'
  BY DEF PlaceInv, QuietFrames
<1>7. CurrentRuns'
  BY <1>2, <1>3, <1>4 DEF CurrentRuns
<1> HIDE DEF Slots, Ttys, Levels
<1>8. \A x \in Slots : pc'[x] = IF x = c THEN b ELSE pc[x]
  BY <1>1, <1>3
<1>9. SameHeld
  <2>1. \A x \in Slots :
          /\ pc'[x] = "wake" <=> pc[x] = "wake"
          /\ pc'[x] \in {"push", "store"} <=> pc[x] \in {"push", "store"}
          /\ pc[x] \in {"wake", "push", "store"} => held'[x] = held[x]
    BY <1>3, <1>8
  <2>2. HeldOnce'
    BY <2>1 DEF PlaceInv, HeldOnce
  <2>3. \A x \in Slots : (Waking(x)' <=> Waking(x)) /\ (Pushing(x)' <=> Pushing(x))
    BY <2>1 DEF Waking, Pushing
  <2> QED
    BY <2>2, <2>3 DEF SameHeld
<1>10. ASSUME NEW x \in Others PROVE Place(x)'
  <2>0. x \in Slots
    BY <1>1
  <2>1. CASE x = c
    <3>1. Nowhere(c)' /\ started'[c] /\ state'[c] = "running" /\ pc'[c] = b
      BY <1>4, <1>5, <1>8, <1>9 DEF Nowhere, SameReady, SameReads, SameWaits, SameHeld, Asleep
    <3> QED
      BY <2>1, <3>1 DEF Place
  <2>2. CASE x # c
    <3>1. SamePlace(x)
      BY <1>8, <2>0, <2>2 DEF SamePlace
    <3>2. Place(x)
      BY DEF PlaceInv
    <3> QED
      BY <1>5, <1>9, <2>0, <3>1, <3>2, PlaceKept DEF SameReady, SameReads, SameWaits, SameHeld
  <2> QED
    BY <2>1, <2>2
<1> QED
  BY <1>5, <1>6, <1>7, <1>9, <1>10 DEF PlaceInv, SameReady, SameReads, SameWaits, SameHeld

LEMMA DrainPlaces == KInv /\ PlaceInv /\ (ExitDrain \/ ExitBump) => PlaceInv'
<1> SUFFICES ASSUME KInv, PlaceInv, ExitDrain \/ ExitBump PROVE PlaceInv'
  OBVIOUS
<1>1. held \in [Slots -> Slots] /\ 0 \in Slots /\ current \in Slots
  BY Typing
<1>2. PICK b \in {"drain", "take", "zombify"} :
        pc' = [pc EXCEPT ![current] = b] /\ pc[current] \in {"drain", "bump"}
  BY DEF ExitDrain, ExitBump, ExitTo
<1>3. PICK h \in [Slots -> Slots] : held' = h /\ \A x \in Slots \ {current} : h[x] = held[x]
  <2>1. CASE ExitDrain
    BY <1>1, <2>1 DEF ExitDrain
  <2>2. CASE ExitBump
    <3>1. held' = [held EXCEPT ![current] = 0]
      BY <2>2 DEF ExitBump
    <3> HIDE DEF Slots
    <3> QED
      BY <1>1, <3>1
  <2> QED
    BY <2>1, <2>2
<1>4. /\ Preemptible /\ current # Idle
      /\ UNCHANGED <<state, sleeptime, started, current, read_pblocks, wait_queue, ready_queue, queues, frames>>
  BY DEF ExitDrain, ExitBump, ExitTo, queued
<1> QED
  BY <1>2, <1>3, <1>4, TurnPlaces

\* A waiter is taken from the wait queue of the exiting process.
LEMMA TakePlaces == KInv /\ PlaceInv /\ ExitTake => PlaceInv'
<1> SUFFICES ASSUME KInv, PlaceInv, ExitTake PROVE PlaceInv'
  OBVIOUS
<1>1. /\ state \in [Slots -> States] /\ pc \in [Slots -> PCs] /\ held \in [Slots -> Slots]
      /\ wait_queue \in [Slots -> Seq(Slots)]
      /\ current \in Others /\ Others \subseteq Slots
      /\ \A x \in Slots : Good(wait_queue[x])
  BY Typing DEF ExitTake, ExitTo, Others, KInv, QueueInv
<1>2. PICK c \in Others : c = current
  BY <1>1
<1>3. /\ pc[c] = "take" /\ current # Idle
      /\ UNCHANGED <<state, sleeptime, started, current, read_pblocks, queued, frames>>
  BY <1>2 DEF ExitTake, ExitTo
<1>4. state[c] = "running" /\ Place(c) /\ Nowhere(c) /\ started[c] /\ c \in Slots
  BY <1>1, <1>2, <1>3 DEF PlaceInv, CurrentRuns, Place
<1>5. SameReady /\ SameReads
  BY <1>3, Unmoved
<1>6. QuietFrames'
  BY <1>3 DEF PlaceInv, QuietFrames
<1>7. CurrentRuns'
  BY <1>2, <1>3, <1>4 DEF CurrentRuns
<1>8. wait_queue[c] # <<>>
  BY <1>2 DEF ExitTake
<1>9. PlaceInv'
  <2>1. PICK s \in Slots : s = Head(wait_queue[c])
    <3>1. wait_queue[c] \in Seq(Slots)
      BY <1>1, <1>4
    <3>2. Head(wait_queue[c]) \in Slots
      BY <1>8, <3>1, DequeueProperties
    <3> QED
      BY <3>2
  <2>2. /\ pc' = [pc EXCEPT ![c] = "wake"] /\ held' = [held EXCEPT ![c] = s]
        /\ wait_queue' = [wait_queue EXCEPT ![c] = Tail(wait_queue[c])]
    BY <1>2, <1>8, <2>1 DEF ExitTake, ExitTo
  <2>3. s \in Range(wait_queue[c]) /\ Range(Tail(wait_queue[c])) = Range(wait_queue[c]) \ {s}
    BY <1>1, <1>4, <1>8, <2>1, QueueRange
  <2>4. s \in Others
    BY <1>1, <1>4, <1>8, <2>1, GoodQueue DEF Others
  <2> HIDE DEF Slots, Ttys, Levels
  <2>5. \A x \in Slots : Range(wait_queue'[x]) = IF x = c THEN Range(wait_queue[x]) \ {s} ELSE Range(wait_queue[x])
    BY <1>1, <1>4, <2>2, <2>3
  <2>6. Waiting(s)
    BY <1>4, <2>3 DEF Waiting
  <2>7. WaitsOnce'
    BY <2>5 DEF PlaceInv, WaitsOnce
  <2>8. ~Waiting(s)'
    <3>1. \A x \in Slots : x # c => s \notin Range(wait_queue[x])
      BY <1>4, <2>3 DEF PlaceInv, WaitsOnce
    <3> QED
      BY <2>5, <3>1 DEF Waiting
  <2>9. \A x \in Slots : x # s => (Waiting(x)' <=> Waiting(x))
    BY <2>5 DEF Waiting
  <2>10. Place(s) /\ state[s] = "blocked" /\ s # c
    <3>1. Place(s) /\ state[s] \in States
      BY <1>1, <2>4 DEF PlaceInv
    <3> QED
      BY <1>4, <2>6, <3>1 DEF Place, Nowhere, States
  <2>11. ~Waking(s) /\ ~Pushing(s) /\ ~InAQueue(s) /\ ~Reading(s) /\ ~Asleep(s) /\ started[s]
    BY <2>6, <2>10 DEF Place
  <2>12. \A x \in Slots : pc'[x] = (IF x = c THEN "wake" ELSE pc[x]) /\ held'[x] = IF x = c THEN s ELSE held[x]
    BY <1>1, <2>2
  <2>13. \A x \in Slots : pc[x] \in {"wake", "push", "store"} => held[x] # s
    BY <2>11 DEF Waking, Pushing
  <2>14. HeldOnce'
    BY <2>12, <2>13 DEF PlaceInv, HeldOnce
  <2>15. \A x \in Slots : (Pushing(x)' <=> Pushing(x)) /\ (x # s => (Waking(x)' <=> Waking(x)))
    BY <1>3, <2>12 DEF Pushing, Waking
  <2>16. ASSUME NEW x \in Others PROVE Place(x)'
    <3>0. x \in Slots
      BY <1>1
    <3>1. CASE x = c
      <4>1. Nowhere(c)' /\ started'[c] /\ state'[c] = "running"
        BY <1>3, <1>4, <1>5, <2>9, <2>10, <2>15 DEF Nowhere, SameReady, SameReads, Asleep
      <4> QED
        BY <3>1, <4>1 DEF Place
    <3>2. CASE x = s
      <4>1. /\ state'[s] = "blocked" /\ started'[s] /\ pc'[s] = pc[s]
            /\ ~Waiting(s)' /\ ~Pushing(s)' /\ ~InAQueue(s)' /\ ~Reading(s)' /\ ~Asleep(s)'
        BY <1>3, <1>5, <2>8, <2>10, <2>11, <2>12, <2>15, <3>0, <3>2 DEF SameReady, SameReads, Asleep
      <4> QED
        BY <2>10, <3>2, <4>1 DEF Place
    <3>3. CASE x # c /\ x # s
      <4>1. SamePlace(x)
        BY <1>3, <2>12, <3>0, <3>3 DEF SamePlace
      <4>2. Place(x)
        BY DEF PlaceInv
      <4> QED
        BY <1>5, <2>9, <2>15, <3>0, <3>3, <4>1, <4>2, PlaceKept DEF SameReady, SameReads
    <3> QED
      BY <3>1, <3>2, <3>3
  <2> QED
    BY <1>5, <1>6, <1>7, <2>7, <2>14, <2>16 DEF PlaceInv, SameReady, SameReads
<1> QED
  BY <1>9

\* It is made ready, in the hands of the exiting process,
LEMMA WakePlaces == KInv /\ PlaceInv /\ ExitWake => PlaceInv'
<1> SUFFICES ASSUME KInv, PlaceInv, ExitWake PROVE PlaceInv'
  OBVIOUS
<1>1. /\ state \in [Slots -> States] /\ pc \in [Slots -> PCs] /\ held \in [Slots -> Slots]
      /\ current \in Others /\ Others \subseteq Slots
  BY Typing DEF ExitWake, ExitTo, Others
<1>2. PICK c \in Others : c = current
  BY <1>1
<1>3. PICK s \in Slots : s = held[c]
  BY <1>1
<1>4. /\ pc[c] = "wake" /\ pc' = [pc EXCEPT ![c] = "push"] /\ current # Idle
      /\ state' = [state EXCEPT ![s] = "ready"]
      /\ UNCHANGED <<sleeptime, started, current, read_pblocks, wait_queue, held, queued, frames>>
  BY <1>2, <1>3 DEF ExitWake, ExitTo
<1>5. state[c] = "running" /\ Place(c) /\ Nowhere(c) /\ started[c] /\ c \in Slots
  BY <1>1, <1>2, <1>4 DEF PlaceInv, CurrentRuns, Place
<1>6. s \in Others /\ Waking(s)
  BY <1>3, <1>4, <1>5 DEF KInv, QueueInv, Others, Waking
<1>7. Place(s) /\ state[s] = "blocked" /\ s # c
  <2>1. Place(s) /\ state[s] \in States
    BY <1>1, <1>6 DEF PlaceInv
  <2> QED
    BY <1>5, <1>6, <2>1 DEF Place, Nowhere, States
<1>8. ~Waiting(s) /\ ~Pushing(s) /\ ~InAQueue(s) /\ ~Reading(s) /\ ~Asleep(s) /\ started[s]
  BY <1>6, <1>7 DEF Place
<1>9. SameReady /\ SameReads /\ SameWaits
  BY <1>4, Unmoved
<1> HIDE DEF Slots, Ttys, Levels
<1>10. \A x \in Slots : pc'[x] = IF x = c THEN "push" ELSE pc[x]
  BY <1>1, <1>4
<1>11. HeldOnce'
  BY <1>4, <1>10 DEF PlaceInv, HeldOnce
<1>12. /\ Pushing(s)' /\ ~Waking(s)'
       /\ \A x \in Slots : x # s => (Pushing(x)' <=> Pushing(x)) /\ (Waking(x)' <=> Waking(x))
  <2>1. Pushing(s)'
    BY <1>3, <1>4, <1>5, <1>10 DEF Pushing
  <2>2. \A y \in Slots : pc[y] = "wake" /\ held[y] = s => y = c
    BY <1>3, <1>4, <1>5 DEF PlaceInv, HeldOnce
  <2>3. ~Waking(s)'
    BY <1>4, <1>10, <2>2 DEF Waking
  <2>4. \A x \in Slots : x # s => (Pushing(x)' <=> Pushing(x)) /\ (Waking(x)' <=> Waking(x))
    BY <1>3, <1>4, <1>10 DEF Pushing, Waking
  <2> QED
    BY <2>1, <2>3, <2>4
<1>13. ASSUME NEW x \in Others PROVE Place(x)'
  <2>0. x \in Slots
    BY <1>1
  <2>1. CASE x = c
    <3>1. Nowhere(c)' /\ started'[c] /\ state'[c] = "running"
      BY <1>1, <1>4, <1>5, <1>7, <1>9, <1>12 DEF Nowhere, SameReady, SameReads, SameWaits, Asleep
    <3> QED
      BY <2>1, <3>1 DEF Place
  <2>2. CASE x = s
    <3>1. /\ state'[s] = "ready" /\ started'[s] = started[s] /\ pc'[s] = pc[s]
          /\ ~Waiting(s)' /\ ~InAQueue(s)' /\ ~Reading(s)' /\ ~Asleep(s)'
      BY <1>1, <1>4, <1>7, <1>8, <1>9, <1>10, <2>0, <2>2 DEF SameReady, SameReads, SameWaits, Asleep
    <3> QED
      BY <1>8, <1>12, <2>2, <3>1 DEF Place
  <2>3. CASE x # c /\ x # s
    <3>1. SamePlace(x)
      BY <1>1, <1>4, <1>10, <2>0, <2>3 DEF SamePlace
    <3>2. Place(x)
      BY DEF PlaceInv
    <3> QED
      BY <1>9, <1>12, <2>0, <2>3, <3>1, <3>2, PlaceKept DEF SameReady, SameReads, SameWaits
  <2> QED
    BY <2>1, <2>2, <2>3
<1>14. CurrentRuns' /\ QuietFrames'
  BY <1>1, <1>2, <1>4, <1>5, <1>7 DEF PlaceInv, QuietFrames, CurrentRuns
<1> QED
  BY <1>9, <1>11, <1>13, <1>14 DEF PlaceInv, SameReady, SameReads, SameWaits

\* and then enqueued: the queue is chosen,
LEMMA PushPlaces == KInv /\ PlaceInv /\ ExitPush => PlaceInv'
<1> SUFFICES ASSUME KInv, PlaceInv, ExitPush PROVE PlaceInv'
  OBVIOUS
<1>1. /\ pc \in [Slots -> PCs] /\ current \in Others /\ Others \subseteq Slots
  BY Typing DEF ExitPush, ExitTo, Others
<1>2. PICK c \in Others : c = current
  BY <1>1
<1>3. /\ pc[c] = "push" /\ pc' = [pc EXCEPT ![c] = "store"]
      /\ UNCHANGED <<state, sleeptime, started, current, read_pblocks, wait_queue, held, queued, frames>>
  BY <1>2 DEF ExitPush, ExitTo
<1>4. SameReady /\ SameReads /\ SameWaits
  BY <1>3, Unmoved
<1> HIDE DEF Slots, Ttys, Levels
<1>5. \A x \in Slots : pc'[x] = IF x = c THEN "store" ELSE pc[x]
  BY <1>1, <1>3
<1>6. SameHeld
  <2>1. \A x \in Slots :
          /\ pc'[x] = "wake" <=> pc[x] = "wake"
          /\ pc'[x] \in {"push", "store"} <=> pc[x] \in {"push", "store"}
    BY <1>3, <1>5
  <2>2. HeldOnce'
    BY <1>3, <2>1 DEF PlaceInv, HeldOnce
  <2>3. \A x \in Slots : (Waking(x)' <=> Waking(x)) /\ (Pushing(x)' <=> Pushing(x))
    BY <1>3, <2>1 DEF Waking, Pushing
  <2> QED
    BY <2>2, <2>3 DEF SameHeld
<1>7. ASSUME NEW x \in Others PROVE Place(x)'
  <2>0. x \in Slots /\ Place(x)
    BY <1>1 DEF PlaceInv
  <2>1. /\ state'[x] = state[x] /\ started'[x] = started[x]
        /\ pc'[x] \in {"drain", "take", "wake", "push", "store", "bump", "zombify"}
             => pc[x] \in {"drain", "take", "wake", "push", "store", "bump", "zombify"}
        /\ Asleep(x)' <=> Asleep(x)
    BY <1>3, <1>5, <2>0 DEF Asleep
  <2>2. /\ InAQueue(x)' <=> InAQueue(x)
        /\ Reading(x)' <=> Reading(x)
        /\ Waiting(x)' <=> Waiting(x)
        /\ Waking(x)' <=> Waking(x)
        /\ Pushing(x)' <=> Pushing(x)
    BY <1>4, <1>6, <2>0 DEF SameReady, SameReads, SameWaits, SameHeld
  <2>3. Nowhere(x) => Nowhere(x)'
    BY <2>1, <2>2 DEF Nowhere
  <2>4. started[x] <=> started'[x]
    BY <2>1, Zenon
  <2> QED
    BY <2>0, <2>1, <2>2, <2>3, <2>4, Zenon DEF Place
<1>8. CurrentRuns' /\ QuietFrames'
  BY <1>2, <1>3, <1>5 DEF PlaceInv, QuietFrames, CurrentRuns
<1> QED
  BY <1>4, <1>6, <1>7, <1>8 DEF PlaceInv, SameReady, SameReads, SameWaits, SameHeld

\* and the entry is stored: it is in none, so queue_enqueue does not refuse it.
LEMMA StoreEntry ==
  ASSUME KInv, PlaceInv, ExitStore, held[current] \in Others, ~InAQueue(held[current])
  PROVE  /\ pc' = [pc EXCEPT ![current] = "bump"] /\ UNCHANGED held
         /\ ReadyOnce' /\ \A x \in Slots : InAQueue(x)' <=> InAQueue(x) \/ x = held[current]
<1> DEFINE l == target[current]
           s == held[current]
           q == IF l = Ready THEN ready_queue ELSE queues[l]
<1>1. /\ TypeOK /\ ready_queue \in Seq(Slots) /\ queues \in [Levels -> Seq(Slots)]
      /\ target \in [Slots -> Queues] /\ current \in Slots /\ s \in Slots /\ s # Idle
  BY DEF KInv, TypeOK, Others
<1>2. l \in Queues /\ (l # Ready => l \in Levels) /\ (l \in Levels => l # Ready)
  BY <1>1, ConstantsAssumption DEF Queues, Ready
<1>3. q \in Seq(Slots) /\ Good(q) /\ s \notin Range(q)
  BY <1>1, <1>2 DEF PlaceInv, ReadyOnce, Once, InAQueue
<1>4. Len(q) < ProcMax /\ Len(q) \in Nat
  BY <1>3, NeverFull, LenProperties
<1>5. ~Refuses(Counted(q, l), s)
  BY <1>1, <1>2, <1>3, <1>4, EnqueueInProperties
<1>6. Append(q, s) = Enqueue(q, s)
  BY <1>3, <1>4, ConstantsAssumption DEF Enqueue, Refuses
<1>7. /\ pc' = [pc EXCEPT ![current] = "bump"] /\ UNCHANGED held
      /\ ready_queue' = IF l = Ready THEN Enqueue(q, s) ELSE ready_queue
      /\ queues' = IF l = Ready THEN queues ELSE [queues EXCEPT ![l] = Enqueue(q, s)]
  BY <1>5, <1>6 DEF ExitStore, ExitTo
<1> HIDE DEF s
<1>8. Once(ready_queue, queues) /\ ~Member(ready_queue, queues, s)
  BY DEF PlaceInv, ReadyOnce, Member, InAQueue, s
<1> SUFFICES /\ Once(ready_queue', queues')
             /\ \A x \in Slots : Member(ready_queue', queues', x) <=> Member(ready_queue, queues, x) \/ x = s
  BY <1>7 DEF ReadyOnce, Once, Member, InAQueue, s
<1>9. CASE l = Ready
  <2>1. 0 \in Levels
    BY ConstantsAssumption
  <2>2. q = ready_queue /\ ready_queue' = Enqueue(ready_queue, s) /\ queues' = queues
    BY <1>7, <1>9
  <2> HIDE DEF l, q
  <2> QED
    BY <1>1, <1>8, <2>1, <2>2, AddOnce
<1>10. CASE l # Ready
  <2>1. l \in Levels
    BY <1>2, <1>10
  <2>2. ready_queue' = ready_queue /\ queues' = [queues EXCEPT ![l] = Enqueue(queues[l], s)]
    BY <1>7, <1>10
  <2> HIDE DEF l, q
  <2> QED
    BY <1>1, <1>8, <2>1, <2>2, AddOnce
<1> QED
  BY <1>9, <1>10

LEMMA StorePlaces == KInv /\ PlaceInv /\ ExitStore => PlaceInv'
<1> SUFFICES ASSUME KInv, PlaceInv, ExitStore PROVE PlaceInv'
  OBVIOUS
<1>1. /\ state \in [Slots -> States] /\ pc \in [Slots -> PCs] /\ held \in [Slots -> Slots]
      /\ current \in Others /\ Others \subseteq Slots
  BY Typing DEF ExitStore, ExitTo, Others
<1>2. PICK c \in Others : c = current
  BY <1>1
<1>3. PICK s \in Slots : s = held[c]
  BY <1>1
<1>4. /\ pc[c] = "store" /\ current # Idle
      /\ UNCHANGED <<state, sleeptime, started, current, read_pblocks, wait_queue, frames>>
  BY <1>2, <1>3 DEF ExitStore, ExitTo
<1>5. state[c] = "running" /\ Place(c) /\ Nowhere(c) /\ started[c] /\ c \in Slots
  BY <1>1, <1>2, <1>4 DEF PlaceInv, CurrentRuns, Place
<1>6. s \in Others /\ Pushing(s)
  BY <1>3, <1>4, <1>5 DEF KInv, QueueInv, Others, Pushing
<1>7. Place(s) /\ state[s] = "ready" /\ s # c /\ ~InAQueue(s)
  <2>1. Place(s) /\ state[s] \in States
    BY <1>1, <1>6 DEF PlaceInv
  <2> QED
    BY <1>5, <1>6, <2>1 DEF Place, Nowhere, States
<1>8. /\ ReadyOnce' /\ \A x \in Slots : InAQueue(x)' <=> InAQueue(x) \/ x = s
      /\ pc' = [pc EXCEPT ![c] = "bump"] /\ UNCHANGED held
  BY <1>2, <1>3, <1>6, <1>7, StoreEntry
<1>9. SameReads /\ SameWaits
  BY <1>4, Unmoved
<1> HIDE DEF Slots, Ttys, Levels
<1>10. \A x \in Slots : pc'[x] = IF x = c THEN "bump" ELSE pc[x]
  BY <1>1, <1>8
<1>11. HeldOnce'
  BY <1>8, <1>10 DEF PlaceInv, HeldOnce
<1>12. /\ ~Pushing(s)' /\ \A x \in Slots : Waking(x)' <=> Waking(x)
       /\ \A x \in Slots : x # s => (Pushing(x)' <=> Pushing(x))
  <2>1. \A y \in Slots : pc[y] \in {"push", "store"} /\ held[y] = s => y = c
    BY <1>3, <1>4, <1>5 DEF PlaceInv, HeldOnce
  <2>2. ~Pushing(s)'
    BY <1>8, <1>10, <2>1 DEF Pushing
  <2>3. \A x \in Slots : Waking(x)' <=> Waking(x)
    BY <1>4, <1>8, <1>10 DEF Waking
  <2>4. \A x \in Slots : x # s => (Pushing(x)' <=> Pushing(x))
    BY <1>3, <1>4, <1>8, <1>10 DEF Pushing
  <2> QED
    BY <2>2, <2>3, <2>4
<1>13. ASSUME NEW x \in Others PROVE Place(x)'
  <2>0. x \in Slots
    BY <1>1
  <2>1. CASE x = c
    <3>1. Nowhere(c)' /\ started'[c] /\ state'[c] = "running"
      BY <1>4, <1>5, <1>7, <1>8, <1>9, <1>12 DEF Nowhere, SameReads, SameWaits, Asleep
    <3> QED
      BY <2>1, <3>1 DEF Place
  <2>2. CASE x = s
    <3>1. /\ state'[s] = "ready" /\ started'[s] = started[s] /\ pc'[s] = pc[s] /\ InAQueue(s)'
          /\ (Waiting(s)' <=> Waiting(s)) /\ (Reading(s)' <=> Reading(s)) /\ (Asleep(s)' <=> Asleep(s))
      BY <1>4, <1>7, <1>8, <1>9, <1>10, <2>0, <2>2 DEF SameReads, SameWaits, Asleep
    <3> QED
      BY <1>6, <1>7, <1>12, <2>0, <2>2, <3>1 DEF Place
  <2>3. CASE x # c /\ x # s
    <3>1. SamePlace(x)
      BY <1>4, <1>10, <2>0, <2>3 DEF SamePlace
    <3>2. Place(x)
      BY DEF PlaceInv
    <3> QED
      BY <1>8, <1>9, <1>12, <2>0, <2>3, <3>1, <3>2, PlaceKept DEF SameReads, SameWaits
  <2> QED
    BY <2>1, <2>2, <2>3
<1>14. CurrentRuns' /\ QuietFrames'
  BY <1>2, <1>4, <1>5 DEF PlaceInv, QuietFrames, CurrentRuns
<1> QED
  BY <1>8, <1>9, <1>11, <1>13, <1>14 DEF PlaceInv, SameReads, SameWaits

-----------------------------------------------------------------------------
(* scheduler_think *)

\* It gives the CPU to a process that it takes from the ready structure, where
\* the process that had the CPU is put back when it still runs.
LEMMA ThinkTakes ==
  ASSUME KInv, PlaceInv, Think
  PROVE  /\ ReadyOnce' /\ frames' = <<>>
         /\ \/ \E h \in Others :
                 /\ current' = h /\ state'[h] = "running"
                 /\ InAQueue(h) \/ (Requeues /\ h = current)
                 /\ \A x \in Slots : InAQueue(x)' <=> (InAQueue(x) \/ (Requeues /\ x = current)) /\ x # h
                 /\ \A x \in Slots : x # h =>
                      state'[x] = IF Requeues /\ x = current THEN "ready" ELSE state[x]
            \/ ~Requeues /\ current' = Idle /\ UNCHANGED <<state, ready_queue, queues>>
<1> DEFINE rq == IF Requeues THEN ReadyWith(current) ELSE ready_queue
           qs == IF Requeues THEN QueuesWith(current) ELSE queues
           st == IF Requeues THEN [state EXCEPT ![current] = "ready"] ELSE state
<1>1. /\ state \in [Slots -> States] /\ current \in Slots /\ Others \subseteq Slots
      /\ ready_queue \in Seq(Slots) /\ queues \in [Levels -> Seq(Slots)]
      /\ TypeOK /\ ReadyOK
  BY Typing DEF KInv, QueueInv
<1>2. Requeues => current \in Others /\ ~InAQueue(current) /\ state[current] = "running"
  BY <1>1 DEF Requeues, Others, PlaceInv, Place, Nowhere
<1>3. rq \in Seq(Slots) /\ qs \in [Levels -> Seq(Slots)]
  <2>1. CASE Requeues
    BY <1>1, <1>2, <2>1, EnqueueTypes
  <2>2. CASE ~Requeues
    BY <1>1, <2>2
  <2> QED
    BY <2>1, <2>2
<1>4. Once(rq, qs) /\ \A x \in Slots : Member(rq, qs, x) <=> InAQueue(x) \/ (Requeues /\ x = current)
  <2>1. CASE Requeues
    BY <1>2, <2>1, EnqueueOnce DEF PlaceInv, ReadyOnce, Others
  <2>2. CASE ~Requeues
    <3>1. \A x \in Slots : Member(ready_queue, queues, x) <=> InAQueue(x)
      BY DEF Member, InAQueue
    <3> QED
      BY <2>2, <3>1 DEF PlaceInv, ReadyOnce
  <2> QED
    BY <2>1, <2>2
<1>5. /\ st \in [Slots -> States]
      /\ \A x \in Slots : st[x] = IF Requeues /\ x = current THEN "ready" ELSE state[x]
  BY <1>1 DEF States
<1>6. \/ SomeReady(rq) /\ Dispatch(Head(rq)) /\ ready_queue' = Tail(rq) /\ queues' = qs
      \/ NonEmpty(qs) # {} /\ Dispatch(Head(qs[FirstLevel(qs)]))
           /\ ready_queue' = rq /\ queues' = RotatedTail(qs)
      \/ /\ current' = Idle /\ frames' = <<>> /\ UNCHANGED <<state, ready_queue, queues>>
         /\ IF sched_mode = "rr" THEN ~SomeReady(rq) ELSE NonEmpty(qs) = {}
  BY Zenon DEF Think, queued, rq, qs
<1>7. Requeues => IF sched_mode = "rr" THEN SomeReady(rq) ELSE NonEmpty(qs) # {}
  BY <1>1, <1>2, EnqueueOK DEF Others
<1>8. ASSUME NEW h \in Slots, Dispatch(h), Member(rq, qs, h), h # Idle,
             Once(ready_queue', queues'),
             \A x \in Slots : Member(ready_queue', queues', x) <=> Member(rq, qs, x) /\ x # h
      PROVE  /\ ReadyOnce' /\ frames' = <<>>
             /\ \E g \in Others :
                 /\ current' = g /\ state'[g] = "running"
                 /\ InAQueue(g) \/ (Requeues /\ g = current)
                 /\ \A x \in Slots : InAQueue(x)' <=> (InAQueue(x) \/ (Requeues /\ x = current)) /\ x # g
                 /\ \A x \in Slots : x # g =>
                      state'[x] = IF Requeues /\ x = current THEN "ready" ELSE state[x]
  <2>1. h \in Others /\ (InAQueue(h) \/ (Requeues /\ h = current))
    BY <1>4, <1>8 DEF Others
  <2>2. ~TookZombie(h)
    <3>1. CASE Requeues /\ h = current
      BY <1>2, <3>1 DEF TookZombie
    <3>2. CASE InAQueue(h)
      <4>1. Place(h)
        BY <2>1 DEF PlaceInv
      <4> QED
        BY <3>2, <4>1 DEF TookZombie, Place, Nowhere
    <3> QED
      BY <2>1, <3>1, <3>2
  <2>3. current' = h /\ state' = [st EXCEPT ![h] = "running"] /\ frames' = <<>>
    BY <1>8, <2>2 DEF Dispatch
  <2> HIDE DEF st, rq, qs
  <2>4. state'[h] = "running" /\ \A x \in Slots : x # h => state'[x] = st[x]
    BY <1>5, <1>8, <2>3
  <2>5. ReadyOnce'
    BY <1>8 DEF ReadyOnce, Once
  <2>6. \A x \in Slots : InAQueue(x)' <=> (InAQueue(x) \/ (Requeues /\ x = current)) /\ x # h
    <3>1. \A x \in Slots : InAQueue(x)' <=> Member(ready_queue', queues', x)
      BY DEF InAQueue, Member
    <3> QED
      BY <1>4, <1>8, <3>1
  <2>7. \A x \in Slots : x # h => state'[x] = IF Requeues /\ x = current THEN "ready" ELSE state[x]
    BY <1>5, <2>4
  <2> QED
    BY <2>1, <2>3, <2>4, <2>5, <2>6, <2>7
<1> HIDE DEF rq, qs, st
<1>9. CASE SomeReady(rq) /\ Dispatch(Head(rq)) /\ ready_queue' = Tail(rq) /\ queues' = qs
  <2>0. rq # <<>> /\ Good(rq)
    BY <1>1, <1>3, <1>4, <1>9, ReadyProperties DEF Once
  <2>1. Head(rq) \in Slots /\ Head(rq) # Idle
    BY <1>3, <2>0, DequeueProperties, GoodQueue
  <2>2. /\ Member(rq, qs, Head(rq)) /\ Once(Tail(rq), qs)
        /\ \A x \in Slots : Member(Tail(rq), qs, x) <=> Member(rq, qs, x) /\ x # Head(rq)
    BY <1>3, <1>4, <2>0, TakeReady
  <2> QED
    BY <1>8, <1>9, <2>1, <2>2
<1>10. CASE NonEmpty(qs) # {} /\ Dispatch(Head(qs[FirstLevel(qs)]))
            /\ ready_queue' = rq /\ queues' = RotatedTail(qs)
  <2> DEFINE h == Head(qs[FirstLevel(qs)])
  <2>1. h # Idle
    BY <1>1, <1>3, <1>4, <1>10, NoIdleRotation DEF Once, Good
  <2>2. /\ Member(rq, qs, h) /\ Once(rq, RotatedTail(qs)) /\ h \in Slots
        /\ \A x \in Slots : Member(rq, RotatedTail(qs), x) <=> Member(rq, qs, x) /\ x # h
    BY <1>1, <1>3, <1>4, <1>10, TakeLevel
  <2>3. Dispatch(h)
    BY <1>10
  <2> HIDE DEF h
  <2> QED
    BY <1>8, <1>10, <2>1, <2>2, <2>3
<1>11. CASE /\ current' = Idle /\ frames' = <<>> /\ UNCHANGED <<state, ready_queue, queues>>
            /\ IF sched_mode = "rr" THEN ~SomeReady(rq) ELSE NonEmpty(qs) = {}
  BY <1>7, <1>11, Unmoved DEF SameReady
<1> QED
  BY <1>6, <1>9, <1>10, <1>11

\* pc after it: a process that yielded is back in its program.
LEMMA ThinkPlaces ==
  ASSUME KInv, PlaceInv, Think,
         \/ UNCHANGED pc
         \/ /\ pc[current] \in {"yield", "last"}
            /\ \E b \in {"user", "gone"} : pc' = [pc EXCEPT ![current] = b]
  PROVE  PlaceInv'
<1>1. /\ state \in [Slots -> States] /\ pc \in [Slots -> PCs] /\ current \in Slots
      /\ Others \subseteq Slots
  BY Typing
<1>2. UNCHANGED <<sleeptime, started, held, wait_queue, read_pblocks>>
  BY DEF Think, waits, pool
<1>3. SameReads /\ SameWaits
  BY <1>2, Unmoved
<1>4. SameHeld
  <2>1. CASE UNCHANGED pc
    BY <1>2, <2>1, Unmoved
  <2>2. CASE /\ pc[current] \in {"yield", "last"}
             /\ \E b \in {"user", "gone"} : pc' = [pc EXCEPT ![current] = b]
    BY <1>1, <1>2, <2>2, UnmovedHeld
  <2> QED
    BY <2>1, <2>2
<1>5. ReadyOnce' /\ frames' = <<>>
  BY ThinkTakes
<1> HIDE DEF Slots, Ttys, Levels
<1>6. \A x \in Slots :
        \/ pc'[x] = pc[x]
        \/ pc[x] \in {"yield", "last"} /\ pc'[x] \in {"user", "gone"}
  BY <1>1
<1>7. ASSUME NEW x \in Others, x \in Slots, Place(x),
             state'[x] = state[x], InAQueue(x)' <=> InAQueue(x)
      PROVE  Place(x)'
  <2>1. /\ started'[x] = started[x]
        /\ Reading(x)' <=> Reading(x)
        /\ Waiting(x)' <=> Waiting(x)
        /\ Waking(x)' <=> Waking(x)
        /\ Pushing(x)' <=> Pushing(x)
        /\ Asleep(x)' <=> Asleep(x)
    BY <1>2, <1>3, <1>4, <1>7 DEF SameReads, SameWaits, SameHeld, Asleep
  <2>2. Nowhere(x) => Nowhere(x)'
    BY <1>7, <2>1 DEF Nowhere
  <2>3. pc'[x] \in {"drain", "take", "wake", "push", "store", "bump", "zombify"} => pc[x] = pc'[x]
    BY <1>6, <1>7
  <2> DEFINE p == pc[x]
             pp == pc'[x]
  <2>4. pp \in {"drain", "take", "wake", "push", "store", "bump", "zombify"} => p = pp
    BY <2>3
  <2> HIDE DEF p, pp
  <2> QED
    BY <1>7, <2>1, <2>2, <2>4, Zenon DEF Place, p, pp
<1>8. ASSUME NEW h \in Others,
             current' = h, state'[h] = "running",
             InAQueue(h) \/ (Requeues /\ h = current),
             \A x \in Slots : InAQueue(x)' <=> (InAQueue(x) \/ (Requeues /\ x = current)) /\ x # h,
             \A x \in Slots : x # h =>
               state'[x] = IF Requeues /\ x = current THEN "ready" ELSE state[x]
      PROVE  CurrentRuns' /\ \A x \in Others : Place(x)'
  <2>1. CurrentRuns'
    BY <1>8 DEF CurrentRuns
  <2>2. ASSUME NEW x \in Others PROVE Place(x)'
    <3>1. x \in Slots /\ Place(x) /\ state[x] \in States
      BY <1>1 DEF PlaceInv
    <3>2. CASE x = h
      <4>1. CASE Requeues /\ h = current
        <5>1. state[x] = "running"
          BY <3>2, <4>1 DEF Requeues
        <5>2. Nowhere(x) /\ started[x]
          BY <3>1, <5>1 DEF Place
        <5>3. Nowhere(x)' /\ started'[x]
          BY <1>2, <1>3, <1>4, <1>8, <3>1, <3>2, <5>2 DEF Nowhere, SameReads, SameWaits, SameHeld, Asleep
        <5> QED
          BY <1>8, <3>2, <5>3 DEF Place
      <4>2. CASE InAQueue(h)
        <5>1. state[x] \in {"ready", "blocked"}
          BY <3>1, <3>2, <4>2 DEF Place, Nowhere, States
        <5>2. started[x] /\ ~Reading(x) /\ ~Waiting(x) /\ ~Waking(x) /\ ~Pushing(x) /\ ~Asleep(x)
          BY <3>1, <3>2, <4>2, <5>1 DEF Place
        <5>3. Nowhere(x)' /\ started'[x]
          BY <1>2, <1>3, <1>4, <1>8, <3>1, <3>2, <5>2 DEF Nowhere, SameReads, SameWaits, SameHeld, Asleep
        <5> QED
          BY <1>8, <3>2, <5>3 DEF Place
      <4> QED
        BY <1>8, <4>1, <4>2
    <3>3. CASE x # h /\ Requeues /\ x = current
      <4>1. state[x] = "running" /\ state'[x] = "ready" /\ InAQueue(x)'
        BY <1>8, <3>1, <3>3 DEF Requeues
      <4>2. Nowhere(x) /\ started[x]
        BY <3>1, <4>1 DEF Place
      <4>3. ~Reading(x)' /\ ~Waiting(x)' /\ ~Waking(x)' /\ ~Pushing(x)' /\ ~Asleep(x)' /\ started'[x]
        BY <1>2, <1>3, <1>4, <3>1, <4>2 DEF Nowhere, SameReads, SameWaits, SameHeld, Asleep
      <4> QED
        BY <4>1, <4>3 DEF Place
    <3>4. CASE x # h /\ ~(Requeues /\ x = current)
      <4>1. state'[x] = state[x] /\ (InAQueue(x)' <=> InAQueue(x))
        BY <1>8, <3>1, <3>4
      <4> QED
        BY <1>7, <3>1, <4>1
    <3> QED
      BY <3>2, <3>3, <3>4
  <2> QED
    BY <2>1, <2>2
<1>9. CASE ~Requeues /\ current' = Idle /\ UNCHANGED <<state, ready_queue, queues>>
  <2>1. CurrentRuns'
    BY <1>9 DEF CurrentRuns
  <2>2. ASSUME NEW x \in Others PROVE Place(x)'
    <3>1. x \in Slots /\ Place(x)
      BY <1>1 DEF PlaceInv
    <3>2. SameReady
      BY <1>9, Unmoved
    <3> QED
      BY <1>7, <1>9, <3>1, <3>2 DEF SameReady
  <2> QED
    BY <1>3, <1>4, <1>5, <2>1, <2>2 DEF PlaceInv, SameReads, SameWaits, SameHeld, QuietFrames
<1>10. CurrentRuns' /\ \A x \in Others : Place(x)'
  BY <1>8, <1>9, ThinkTakes DEF PlaceInv
<1>11. QuietFrames'
  BY <1>5 DEF QuietFrames
<1> QED
  BY <1>3, <1>4, <1>5, <1>10, <1>11 DEF PlaceInv, SameReads, SameWaits, SameHeld

-----------------------------------------------------------------------------
(* The loops of the kernel, and the interrupts that start them *)

\* The loop in progress, alone on the stack.
LEMMA OneFrame ==
  ASSUME KInv, PlaceInv, frames # <<>>
  PROVE  \E f \in Frames : frames = <<f>> /\ Head(frames) = f /\ Tail(frames) = <<>> /\ f.op \in Quiet
<1>1. PICK f \in Frames : frames = <<f>> /\ f.op \in Quiet
  BY DEF PlaceInv, QuietFrames
<1>2. Head(<<f>>) = f /\ Tail(<<f>>) = <<>>
  OBVIOUS
<1> QED
  BY <1>1, <1>2

\* sched_set_mode leaves in the structure of the new mode who was in the old.
LEMMA MoveReady == KInv /\ PlaceInv /\ MoveStep => SameReady /\ QuietFrames'
<1> SUFFICES ASSUME KInv, PlaceInv, MoveStep PROVE SameReady /\ QuietFrames'
  OBVIOUS
<1>1. /\ ready_queue \in Seq(Slots) /\ queues \in [Levels -> Seq(Slots)] /\ Others \subseteq Slots
      /\ Good(ready_queue) /\ \A l \in Levels : Good(queues[l])
      /\ Once(ready_queue, queues) /\ PQSize \in Levels /\ TypeOK
      /\ PQSize \in Queues /\ Ready \in Queues
  <2>1. PQSize \in Levels /\ PQSize \in Queues /\ Ready \in Queues
    BY ConstantsAssumption DEF Queues, Ready
  <2>2. TypeOK /\ Once(ready_queue, queues)
    BY DEF KInv, PlaceInv, ReadyOnce
  <2> QED
    BY <2>1, <2>2, Typing DEF Once
<1>3. frames # <<>>
  BY DEF MoveStep, InFrame
<1>4. ASSUME UNCHANGED frames, Once(ready_queue', queues'),
             \A x \in Slots : Member(ready_queue', queues', x) <=> Member(ready_queue, queues, x)
      PROVE  SameReady /\ QuietFrames'
  <2>1. SameReady
    <3>1. \A x \in Slots : (InAQueue(x)' <=> Member(ready_queue', queues', x)) /\ (InAQueue(x) <=> Member(ready_queue, queues, x))
      BY DEF InAQueue, Member
    <3>2. ReadyOnce' <=> Once(ready_queue', queues')
      BY DEF ReadyOnce, Once
    <3> QED
      BY <1>4, <3>1, <3>2 DEF SameReady
  <2> QED
    BY <1>4, <2>1 DEF PlaceInv, QuietFrames
<1>5. CASE /\ SomeReady(ready_queue) /\ ready_queue' = Tail(ready_queue)
           /\ queues' = [queues EXCEPT ![PQSize] = EnqueueIn(queues[PQSize], PQSize, Head(ready_queue))]
           /\ UNCHANGED frames
  <2> DEFINE h == Head(ready_queue)
             rq == Tail(ready_queue)
  <2>0. ready_queue # <<>>
    BY <1>1, <1>5, ReadyProperties
  <2>1. h \in Slots /\ rq \in Seq(Slots) /\ Good(rq) /\ h # Idle
    BY <1>1, <2>0, DequeueProperties, GoodQueue
  <2>2. /\ Member(ready_queue, queues, h) /\ Once(rq, queues)
        /\ \A x \in Slots : Member(rq, queues, x) <=> Member(ready_queue, queues, x) /\ x # h
    BY <1>1, <2>0, TakeReady
  <2> HIDE DEF h, rq
  <2>3. ~Member(rq, queues, h)
    BY <2>1, <2>2
  <2> DEFINE es == [queues EXCEPT ![PQSize] = Enqueue(queues[PQSize], h)]
  <2>4. Once(rq, es) /\ \A x \in Slots : Member(rq, es, x) <=> Member(rq, queues, x) \/ x = h
    BY <1>1, <2>1, <2>2, <2>3, AddOnce
  <2>5. queues' = es /\ ready_queue' = rq
    <3>1. queues[PQSize] \in Seq(Slots) /\ h \notin Range(queues[PQSize])
      BY <1>1, <2>3 DEF Member
    <3>2. EnqueueIn(queues[PQSize], PQSize, h) = Enqueue(queues[PQSize], h)
      BY <1>1, <2>1, <3>1, EnqueueIsIn
    <3> QED
      BY <1>5, <3>2 DEF h, rq
  <2> HIDE DEF es
  <2> QED
    BY <1>4, <1>5, <2>2, <2>4, <2>5
<1>6. CASE /\ NonEmpty(queues) # {} /\ queues' = RotatedTail(queues)
           /\ ready_queue' = EnqueueIn(ready_queue, Ready, Head(queues[FirstLevel(queues)]))
           /\ UNCHANGED frames
  <2> DEFINE h == Head(queues[FirstLevel(queues)])
             qs == RotatedTail(queues)
  <2>1. /\ Member(ready_queue, queues, h) /\ Once(ready_queue, qs) /\ h \in Slots
        /\ \A x \in Slots : Member(ready_queue, qs, x) <=> Member(ready_queue, queues, x) /\ x # h
    BY <1>1, <1>6, TakeLevel
  <2>2. qs \in [Levels -> Seq(Slots)] /\ h # Idle
    BY <1>1, <1>6, RotateProperties, NoIdleRotation DEF Good
  <2> HIDE DEF h, qs
  <2>3. ~Member(ready_queue, qs, h)
    BY <2>1
  <2> DEFINE eq == Enqueue(ready_queue, h)
  <2>4. Once(eq, qs) /\ \A x \in Slots : Member(eq, qs, x) <=> Member(ready_queue, qs, x) \/ x = h
    BY <1>1, <2>1, <2>2, <2>3, AddOnce
  <2>5. queues' = qs /\ ready_queue' = eq
    <3>1. h \notin Range(ready_queue)
      BY <2>3 DEF Member
    <3>2. EnqueueIn(ready_queue, Ready, h) = Enqueue(ready_queue, h)
      BY <1>1, <2>1, <3>1, EnqueueIsIn
    <3> QED
      BY <1>6, <3>2 DEF h, qs
  <2> HIDE DEF eq
  <2> QED
    BY <1>4, <1>6, <2>1, <2>4, <2>5
<1>7. CASE frames' = Tail(frames) /\ UNCHANGED <<queued, target>>
  BY <1>3, <1>7, OneFrame, Unmoved DEF QuietFrames
<1> QED
  BY <1>5, <1>6, <1>7 DEF MoveStep

LEMMA MovePlaces == KInv /\ PlaceInv /\ MoveStep => PlaceInv'
<1> SUFFICES ASSUME KInv, PlaceInv, MoveStep PROVE PlaceInv'
  OBVIOUS
<1>1. UNCHANGED <<state, started, pc, held, sleeptime, wait_queue, read_pblocks, current>>
  BY DEF MoveStep, waits, pool
<1>2. SameReady /\ QuietFrames' /\ SameReads /\ SameWaits /\ SameHeld
  BY <1>1, MoveReady, Unmoved
<1>3. ASSUME NEW x \in Others PROVE Place(x)'
  <2>1. SamePlace(x)
    BY <1>1 DEF SamePlace
  <2>2. Place(x) /\ x \in Slots
    BY Typing DEF PlaceInv
  <2> QED
    BY <1>2, <2>1, <2>2, PlaceKept DEF SameReady, SameReads, SameWaits, SameHeld
<1>4. CurrentRuns'
  BY <1>1 DEF PlaceInv, CurrentRuns
<1> QED
  BY <1>2, <1>3, <1>4 DEF PlaceInv, SameReady, SameReads, SameWaits, SameHeld

\* scheduler_tick wakes a sleeper whose time is over.
LEMMA TickPlaces == KInv /\ PlaceInv /\ TickStep => PlaceInv'
<1> SUFFICES ASSUME KInv, PlaceInv, TickStep PROVE PlaceInv'
  OBVIOUS
<1>1. /\ state \in [Slots -> States] /\ sleeptime \in [Slots -> Nat] /\ Others \subseteq Slots
      /\ state[Idle] = "ready"
  BY Typing
<1>2. UNCHANGED <<started, pc, held, wait_queue, read_pblocks, current>> /\ frames # <<>>
  BY DEF TickStep, InFrame, marks, pool
<1>3. PICK f \in Frames : frames = <<f>> /\ Head(frames) = f /\ Tail(frames) = <<>>
  BY <1>2, OneFrame
<1>4. PICK i \in 0 .. ProcMax : i = f.i
  BY <1>3 DEF Frames
<1>5. SameReads /\ SameWaits /\ SameHeld
  BY <1>2, Unmoved
<1>6. CASE i = ProcMax
  <2>1. frames' = <<>> /\ UNCHANGED <<state, sleeptime, queued>>
    <3>1. ~(i < ProcMax)
      BY <1>6, ConstantsAssumption
    <3>2. Head(frames).i = i /\ Tail(frames) = <<>>
      BY <1>3, <1>4
    <3>3. frames' = Tail(frames) /\ UNCHANGED <<state, sleeptime, queued>>
      BY <3>1, <3>2, Zenon DEF TickStep
    <3> QED
      BY <3>2, <3>3
  <2>2. QuietFrames'
    BY <2>1 DEF QuietFrames
  <2> QED
    BY <1>2, <2>1, <2>2, StillPlaces
<1>7. CASE i # ProcMax
  <2>1. i \in Slots /\ i < ProcMax /\ i + 1 \in 0 .. ProcMax
    BY <1>4, <1>7, ConstantsAssumption
  <2>2. QuietFrames'
    <3> DEFINE g == Frame("tick", 0, i + 1)
    <3>1. g \in Frames /\ g.op \in Quiet
      BY <2>1 DEF Frames, Frame, Ops, Quiet
    <3>2. frames' = <<g>> \o <<>>
      BY <1>3, <1>4, <2>1 DEF TickStep
    <3> HIDE DEF g
    <3>3. <<g>> \o <<>> = <<g>>
      OBVIOUS
    <3> QED
      BY <3>1, <3>2, <3>3 DEF QuietFrames
  <2>3. IF Sleeping(i)
        THEN /\ sleeptime' = [sleeptime EXCEPT ![i] = sleeptime[i] - 1]
             /\ IF sleeptime[i] = 1
                THEN state' = [state EXCEPT ![i] = "ready"] /\ SchedEnqueue(i)
                ELSE UNCHANGED <<state, queued>>
        ELSE UNCHANGED <<state, sleeptime, queued>>
    BY <1>3, <1>4, <2>1 DEF TickStep
  <2>4. CASE ~Sleeping(i)
    BY <1>2, <2>2, <2>3, <2>4, StillPlaces
  <2>5. CASE Sleeping(i)
    <3>1. state[i] = "blocked" /\ Asleep(i) /\ i \in Others
      BY <1>1, <2>1, <2>5 DEF Sleeping, Asleep, Others
    <3>2. Place(i)
      BY <3>1 DEF PlaceInv
    <3>3. /\ ~InAQueue(i) /\ ~Reading(i) /\ ~Waiting(i) /\ ~Waking(i) /\ ~Pushing(i) /\ started[i]
          /\ pc[i] \notin {"drain", "take", "wake", "push", "store", "bump", "zombify"}
      BY <3>1, <3>2 DEF Place
    <3>4. \A x \in Slots : x # i => sleeptime'[x] = sleeptime[x]
      BY <1>1, <2>3, <2>5
    <3> HIDE DEF Slots, Ttys, Levels
    <3>5. ~Reading(i)' /\ ~Waiting(i)' /\ ~Waking(i)' /\ ~Pushing(i)' /\ started'[i]
          /\ pc'[i] \notin {"drain", "take", "wake", "push", "store", "bump", "zombify"}
      BY <1>2, <1>5, <2>1, <3>3 DEF SameReads, SameWaits, SameHeld
    <3>6. CASE sleeptime[i] = 1
      <4>1. state' = [state EXCEPT ![i] = "ready"] /\ SchedEnqueue(i)
        BY <2>3, <2>5, <3>6
      <4>2. ReadyOnce' /\ \A x \in Slots : InAQueue(x)' <=> InAQueue(x) \/ x = i
        BY <3>1, <3>3, <4>1, EnqueuedPlace
      <4>3. sleeptime'[i] = 0
        BY <1>1, <2>1, <2>3, <2>5, <3>6
      <4>4. ASSUME NEW x \in Others PROVE Place(x)'
        <5>0. x \in Slots
          BY <1>1
        <5>1. CASE x = i
          <6>1. state'[i] = "ready" /\ InAQueue(i)' /\ ~Asleep(i)'
            BY <1>1, <2>1, <4>1, <4>2, <4>3 DEF Asleep
          <6> QED
            BY <3>5, <5>1, <6>1 DEF Place
        <5>2. CASE x # i
          <6>1. SamePlace(x)
            BY <1>1, <1>2, <3>4, <4>1, <5>0, <5>2 DEF SamePlace
          <6>2. Place(x)
            BY DEF PlaceInv
          <6> QED
            BY <1>5, <4>2, <5>0, <5>2, <6>1, <6>2, PlaceKept DEF SameReads, SameWaits, SameHeld
        <5> QED
          BY <5>1, <5>2
      <4>5. CurrentRuns'
        BY <1>1, <1>2, <2>1, <3>1, <4>1 DEF PlaceInv, CurrentRuns
      <4> QED
        BY <1>5, <2>2, <4>2, <4>4, <4>5 DEF PlaceInv, SameReads, SameWaits, SameHeld
    <3>7. CASE sleeptime[i] # 1
      <4>1. UNCHANGED <<state, queued>>
        BY <2>3, <2>5, <3>7
      <4>2. SameReady
        BY <4>1, Unmoved
      <4>3. ASSUME NEW x \in Others PROVE Place(x)'
        <5>0. x \in Slots
          BY <1>1
        <5>1. CASE x = i
          <6>1. state'[i] = "blocked" /\ ~InAQueue(i)'
            BY <2>1, <3>1, <3>3, <4>1, <4>2 DEF SameReady
          <6> QED
            BY <3>5, <5>1, <6>1 DEF Place
        <5>2. CASE x # i
          <6>1. SamePlace(x)
            BY <1>2, <3>4, <4>1, <5>0, <5>2 DEF SamePlace
          <6>2. Place(x)
            BY DEF PlaceInv
          <6> QED
            BY <1>5, <4>2, <5>0, <6>1, <6>2, PlaceKept DEF SameReady, SameReads, SameWaits, SameHeld
        <5> QED
          BY <5>1, <5>2
      <4>4. CurrentRuns'
        BY <1>2, <4>1 DEF PlaceInv, CurrentRuns
      <4> QED
        BY <1>5, <2>2, <4>2, <4>3, <4>4 DEF PlaceInv, SameReady, SameReads, SameWaits, SameHeld
    <3> QED
      BY <3>6, <3>7
  <2> QED
    BY <2>4, <2>5
<1> QED
  BY <1>6, <1>7

\* unlock_contexts puts a reader in the ready structure, still BLOCKED.
LEMMA UnlockPlaces == KInv /\ PlaceInv /\ UnlockStep => PlaceInv'
<1> SUFFICES ASSUME KInv, PlaceInv, UnlockStep PROVE PlaceInv'
  OBVIOUS
<1>1. /\ state \in [Slots -> States] /\ Others \subseteq Slots
      /\ read_pblocks \in [Ttys -> Seq(Slots)] /\ \A t \in Ttys : Good(read_pblocks[t])
  BY Typing DEF KInv, QueueInv
<1>2. UNCHANGED <<state, started, pc, held, sleeptime, wait_queue, current>> /\ frames # <<>>
  BY DEF UnlockStep, InFrame, marks, waits
<1>3. PICK f \in Frames : frames = <<f>> /\ Head(frames) = f /\ Tail(frames) = <<>>
  BY <1>2, OneFrame
<1>4. PICK t \in Ttys : t = Arg
  <2>1. f.op = "unlock" /\ Arg = f.arg
    BY <1>3 DEF UnlockStep, InFrame, Arg
  <2> QED
    BY <2>1 DEF Frames
<1>5. CASE read_pblocks[t] = <<>>
  <2>1. frames' = <<>> /\ UNCHANGED <<read_pblocks, queued>>
    BY <1>3, <1>4, <1>5 DEF UnlockStep
  <2>2. QuietFrames'
    BY <2>1 DEF QuietFrames
  <2> QED
    BY <1>2, <2>1, <2>2, StillPlaces
<1>6. CASE read_pblocks[t] # <<>>
  <2>1. PICK s \in Others : s = Head(read_pblocks[t])
    <3>1. Head(read_pblocks[t]) \in Slots /\ Head(read_pblocks[t]) # Idle
      BY <1>1, <1>6, DequeueProperties, GoodQueue
    <3> QED
      BY <3>1 DEF Others
  <2>2. /\ SchedEnqueue(s) /\ read_pblocks' = [read_pblocks EXCEPT ![t] = Tail(read_pblocks[t])]
        /\ UNCHANGED frames
    BY <1>4, <1>6, <2>1 DEF UnlockStep
  <2>3. s \in Range(read_pblocks[t]) /\ Range(Tail(read_pblocks[t])) = Range(read_pblocks[t]) \ {s}
    BY <1>1, <1>6, <2>1, QueueRange
  <2>4. s \in Slots
    BY <1>1
  <2> HIDE DEF Slots, Ttys, Levels
  <2>5. \A u \in Ttys : Range(read_pblocks'[u]) = IF u = t THEN Range(read_pblocks[u]) \ {s} ELSE Range(read_pblocks[u])
    BY <1>1, <2>2, <2>3
  <2>6. Place(s) /\ state[s] = "blocked"
    <3>1. Place(s) /\ state[s] \in States /\ Reading(s)
      BY <1>1, <2>3 DEF PlaceInv, Reading
    <3> QED
      BY <3>1 DEF Place, Nowhere, States
  <2>7. /\ ~Waiting(s) /\ ~Waking(s) /\ ~Pushing(s) /\ ~InAQueue(s) /\ ~Asleep(s) /\ started[s]
        /\ pc[s] \notin {"drain", "take", "wake", "push", "store", "bump", "zombify"}
    BY <2>3, <2>6 DEF Place, Reading
  <2>8. ReadsOnce'
    BY <2>5 DEF PlaceInv, ReadsOnce
  <2>9. ~Reading(s)'
    <3>1. \A u \in Ttys : u # t => s \notin Range(read_pblocks[u])
      BY <2>3 DEF PlaceInv, ReadsOnce
    <3> QED
      BY <2>5, <3>1 DEF Reading
  <2>10. \A x \in Slots : x # s => (Reading(x)' <=> Reading(x))
    BY <2>5 DEF Reading
  <2>11. ReadyOnce' /\ \A x \in Slots : InAQueue(x)' <=> InAQueue(x) \/ x = s
    BY <2>2, <2>7, EnqueuedPlace
  <2>12. SameWaits /\ SameHeld
    BY <1>2, Unmoved
  <2>13. ASSUME NEW x \in Others PROVE Place(x)'
    <3>0. x \in Slots
      BY <1>1
    <3>1. CASE x = s
      <4>1. state'[s] = "blocked" /\ started'[s] /\ pc'[s] = pc[s]
            /\ ~Waiting(s)' /\ ~Waking(s)' /\ ~Pushing(s)' /\ ~Asleep(s)'
        BY <1>2, <2>4, <2>6, <2>7, <2>12 DEF SameWaits, SameHeld, Asleep
      <4> QED
        BY <2>7, <2>9, <3>1, <4>1 DEF Place
    <3>2. CASE x # s
      <4>1. SamePlace(x)
        BY <1>2 DEF SamePlace
      <4>2. Place(x)
        BY DEF PlaceInv
      <4> QED
        BY <2>10, <2>11, <2>12, <3>0, <3>2, <4>1, <4>2, PlaceKept DEF SameWaits, SameHeld
    <3> QED
      BY <3>1, <3>2
  <2>14. CurrentRuns' /\ QuietFrames'
    BY <1>2, <2>2 DEF PlaceInv, CurrentRuns, QuietFrames
  <2> QED
    BY <2>8, <2>11, <2>12, <2>13, <2>14 DEF PlaceInv, SameWaits, SameHeld
<1> QED
  BY <1>5, <1>6

-----------------------------------------------------------------------------
(* The theorems *)

\* idle_main leaves the shells in the last queue of the array.
LEMMA InitPlaces == Init => PlaceInv
<1> SUFFICES ASSUME Init PROVE PlaceInv
  OBVIOUS
<1> DEFINE first == [k \in Ttys |-> k]
<1>1. /\ Range(<<>>) = {} /\ Range(first) = Ttys
      /\ Good(<<>>) /\ Good(first)
  BY DEF Range, Good, IsInjective
<1>2. /\ ready_queue = <<>> /\ queues = [l \in Levels |-> IF l = PQSize THEN first ELSE <<>>]
      /\ read_pblocks = [t \in Ttys |-> <<>>] /\ wait_queue = [s \in Slots |-> <<>>]
      /\ state = [s \in Slots |-> IF s <= NTty THEN "ready" ELSE "free"]
      /\ started = [s \in Slots |-> s <= NTty]
      /\ sleeptime = [s \in Slots |-> 0]
      /\ pc = [s \in Slots |-> "user"] /\ current = Idle /\ frames = <<>>
  BY DEF Init
<1> HIDE DEF first
<1>3. \A s \in Others : s \in Slots /\ (s <= NTty <=> s \in Ttys)
  BY ConstantsAssumption DEF Others
<1>4. PQSize \in Levels
  BY ConstantsAssumption
<1>5. \A l \in Levels : Good(queues[l]) /\ Range(queues[l]) = IF l = PQSize THEN Ttys ELSE {}
  BY <1>1, <1>2
<1> HIDE DEF Slots, Ttys, Levels
<1>6. ReadyOnce /\ \A s \in Slots : InAQueue(s) <=> s \in Ttys
  BY <1>1, <1>2, <1>4, <1>5 DEF ReadyOnce, Once, InAQueue
<1>7. ReadsOnce /\ \A s \in Slots : ~Reading(s)
  BY <1>1, <1>2 DEF ReadsOnce, Reading
<1>8. WaitsOnce /\ \A s \in Slots : ~Waiting(s)
  BY <1>1, <1>2 DEF WaitsOnce, Waiting
<1>9. HeldOnce /\ \A s \in Slots : ~Waking(s) /\ ~Pushing(s)
  BY <1>2 DEF HeldOnce, Waking, Pushing
<1>10. ASSUME NEW s \in Others PROVE Place(s)
  <2>1. /\ s \in Slots /\ ~Reading(s) /\ ~Waiting(s) /\ ~Waking(s) /\ ~Pushing(s)
        /\ InAQueue(s) <=> s \in Ttys
    BY <1>3, <1>6, <1>7, <1>8, <1>9
  <2>2. ~Asleep(s) /\ pc[s] = "user"
    BY <1>2, <2>1 DEF Asleep
  <2>3. CASE s \in Ttys
    <3>1. state[s] = "ready" /\ started[s]
      BY <1>2, <1>3, <2>1, <2>3
    <3> QED
      BY <2>1, <2>2, <2>3, <3>1 DEF Place
  <2>4. CASE s \notin Ttys
    <3>1. state[s] = "free" /\ ~started[s]
      BY <1>2, <1>3, <2>1, <2>4
    <3> QED
      BY <2>1, <2>2, <2>4, <3>1 DEF Place, Nowhere
  <2> QED
    BY <2>3, <2>4
<1>11. CurrentRuns /\ QuietFrames
  BY <1>2 DEF CurrentRuns, QuietFrames
<1> QED
  BY <1>6, <1>7, <1>8, <1>9, <1>10, <1>11 DEF PlaceInv

\* Every step keeps each process where its state says.
LEMMA PlaceStep == NoSignals /\ KInv /\ PlaceInv /\ [Next]_vars => PlaceInv'
<1> SUFFICES ASSUME NoSignals, KInv, PlaceInv, [Next]_vars PROVE PlaceInv'
  OBVIOUS
<1>1. CASE UNCHANGED vars
  <2>1. QuietFrames'
    BY <1>1 DEF PlaceInv, QuietFrames, vars
  <2> QED
    BY <1>1, <2>1, StillPlaces DEF vars, waits, marks, cpu, pool
<1>2. CASE SysCall
  BY <1>2, SysCallPlaces
<1>3. CASE Cleaner
  BY <1>3, ExitPlaces, DrainPlaces, TakePlaces, WakePlaces, PushPlaces, StorePlaces DEF Cleaner
<1>4. \A op \in {"think", "clean", "kids", "forget"} : ~InFrame(op)
  BY OneFrame DEF InFrame, Quiet
<1>5. CASE KernelLoop
  <2>1. ~ThinkAgain /\ ~CleanStep /\ ~KidsStep /\ ~ForgetStep
    BY <1>4 DEF ThinkAgain, CleanStep, KidsStep, ForgetStep
  <2> QED
    BY <1>5, <2>1, MovePlaces, TickPlaces, UnlockPlaces DEF KernelLoop
<1>6. CASE Halted
  BY <1>1, <1>6 DEF Halted
<1>7. CASE Timer
  BY <1>7, ThinkPlaces DEF Timer
<1>8. CASE Yield
  <2>1. \E b \in {"user", "gone"} : pc' = [pc EXCEPT ![current] = b]
    BY <1>8 DEF Yield
  <2> QED
    BY <1>8, <2>1, ThinkPlaces DEF Yield
<1>9. ASSUME NEW op \in Quiet, NEW a \in Nat, op = "unlock" => a \in Ttys, Interrupt(op, a)
      PROVE  PlaceInv'
  <2>1. QuietFrames'
    BY <1>9, QuietStart DEF Interrupt
  <2> QED
    BY <1>9, <2>1, StillPlaces DEF Interrupt, waits, marks, cpu, pool
<1>10. CASE Tick
  BY <1>9, <1>10 DEF Tick, Quiet
<1>11. ASSUME NEW t \in Ttys, KeyPress(t) \/ CtrlC(t) PROVE PlaceInv'
  <2>1. KeyPress(t)
    BY <1>11 DEF CtrlC, NoSignals
  <2>2. t \in Nat
    OBVIOUS
  <2> QED
    BY <1>9, <2>1, <2>2 DEF KeyPress, Quiet
<1>12. CASE Faults
  <2>1. QuietFrames'
    BY <1>12, QuietStart DEF Faults, Stuck, Quiet
  <2> QED
    BY <1>12, <2>1, StillPlaces DEF Faults, Stuck, waits, marks, cpu, pool
<1> QED
  BY <1>1, <1>2, <1>3, <1>5, <1>6, <1>7, <1>8, <1>10, <1>11, <1>12 DEF Next

\* Where no signal is sent, every process is always where its state says:
\* nowhere if it runs or is dead, in a queue of the one or the other ready
\* structure or in the hands of an exit if it is READY, and at one place at most
\* if it is BLOCKED.
THEOREM PlaceInvCorrect == NoSignals => (Spec => []PlaceInv)
<1> SUFFICES ASSUME NoSignals PROVE Spec => []PlaceInv
  OBVIOUS
<1>1. KInv /\ PlaceInv /\ [Next]_vars => PlaceInv'
  BY PlaceStep
<1> QED
  BY <1>1, InitPlaces, KInvCorrect, PTL DEF Spec

\* Where no signal is sent, a process runs only after its prun.
THEOREM RunsAfterPRunCorrect == NoSignals => (Spec => []RunsAfterPRun)
<1> SUFFICES ASSUME NoSignals PROVE Spec => []RunsAfterPRun
  OBVIOUS
<1>1. KInv /\ PlaceInv => RunsAfterPRun
  BY DEF KInv, LifeInv, PlaceInv, Place, Others, RunsAfterPRun
<1> QED
  BY <1>1, KInvCorrect, PlaceInvCorrect, PTL

-----------------------------------------------------------------------------
(* Who ends a wait *)

\* An exiting process that has emptied its wait queue for good is dead.
GoneInv == \A s \in Slots : pc[s] \in {"count", "last", "gone"} => Dead(s)

\* Where the wait queue of a process will still be emptied.
Open == {"user", "yield", "drain", "take", "wake", "push", "store", "bump"}

\* The exit of x will wake s.
Serves(x, s) ==
  /\ ~Dead(x)
  /\ \/ s \in Range(wait_queue[x]) /\ pc[x] \in Open
     \/ pc[x] = "wake" /\ held[x] = s

\* A step abandons nobody: who is blocked after it has a source of a wake-up,
\* or was blocked without one.
Kept(s) == state'[s] = "blocked" => WakeSource(s)' \/ (state[s] = "blocked" /\ ~WakeSource(s))

LEMMA Sources ==
  ASSUME NEW s
  PROVE  WakeSource(s) <=> Asleep(s) \/ InAQueue(s) \/ Reading(s) \/ \E x \in Slots : Serves(x, s)
BY DEF WakeSource, Asleep, Reading, Serves, Serving, PCs, Open

\* The sources of s that a step keeps.
LEMMA SourcesKept ==
  ASSUME NEW s, state'[s] = "blocked" => state[s] = "blocked",
         Asleep(s) => Asleep(s)' \/ state'[s] # "blocked",
         InAQueue(s) \/ Reading(s) => InAQueue(s)' \/ Reading(s)' \/ state'[s] # "blocked",
         \A x \in Slots : Serves(x, s) => (\E y \in Slots : Serves(y, s)') \/ state'[s] # "blocked"
  PROVE  Kept(s)
<1>1. WakeSource(s) <=> Asleep(s) \/ InAQueue(s) \/ Reading(s) \/ \E x \in Slots : Serves(x, s)
  BY Sources
<1>2. (WakeSource(s) <=> Asleep(s) \/ InAQueue(s) \/ Reading(s) \/ \E x \in Slots : Serves(x, s))'
  BY Sources, PTL
<1> QED
  BY <1>1, <1>2, Zenon DEF Kept

\* A step that leaves the wait queues and the exits as they are.
LEMMA ServesSame ==
  ASSUME NEW s, UNCHANGED <<wait_queue, held>>,
         \A x \in Slots : Dead(x)' => Dead(x),
         \A x \in Slots : pc[x] \in Open => pc'[x] \in Open /\ (pc[x] = "wake" => pc'[x] = "wake")
  PROVE  \A x \in Slots : Serves(x, s) => Serves(x, s)'
<1> SUFFICES ASSUME NEW x \in Slots, Serves(x, s) PROVE Serves(x, s)'
  OBVIOUS
<1>1. ~Dead(x)' /\ pc[x] \in Open
  BY DEF Serves, Open
<1> HIDE DEF Slots
<1> QED
  BY <1>1 DEF Serves

\* A step that only moves processes among the queues.
LEMMA KeptSame ==
  ASSUME UNCHANGED <<state, sleeptime, wait_queue, pc, held>>,
         \A s \in Slots : InAQueue(s) \/ Reading(s) => InAQueue(s)' \/ Reading(s)'
  PROVE  \A s \in Slots : Kept(s)
<1> SUFFICES ASSUME NEW s \in Slots PROVE Kept(s)
  OBVIOUS
<1> HIDE DEF Slots
<1>1. \A x \in Slots : Dead(x)' => Dead(x)
  BY DEF Dead
<1>2. \A x \in Slots : Serves(x, s) => Serves(x, s)'
  BY <1>1, ServesSame
<1>3. Asleep(s) => Asleep(s)'
  BY DEF Asleep
<1> QED
  BY <1>2, <1>3, SourcesKept

-----------------------------------------------------------------------------
(* The steps of the running program *)

LEMMA PCreateKeeps == KInv /\ PlaceInv /\ PCreate => \A s \in Slots : Kept(s)
<1> SUFFICES ASSUME KInv, PlaceInv, PCreate, NEW s \in Slots PROVE Kept(s)
  OBVIOUS
<1>1. /\ state \in [Slots -> States] /\ pc \in [Slots -> PCs] /\ held \in [Slots -> Slots]
      /\ wait_queue \in [Slots -> Seq(Slots)] /\ 0 \in Slots /\ Others \subseteq Slots
  BY Typing
<1>2. PICK c \in Slots : c = GetFree /\ Dead(c)
  BY GetFreeProperties DEF PCreate
<1>3. /\ state' = [state EXCEPT ![c] = "ready"] /\ pc' = [pc EXCEPT ![c] = "user"]
      /\ wait_queue' = [wait_queue EXCEPT ![c] = <<>>]
      /\ UNCHANGED <<sleeptime, held, queued, read_pblocks>>
  BY <1>2 DEF PCreate, cpu
<1> HIDE DEF Slots, Levels, Ttys
<1>4. \A x \in Slots : Serves(x, s) => Serves(x, s)'
  <2> SUFFICES ASSUME NEW x \in Slots, Serves(x, s) PROVE Serves(x, s)'
    OBVIOUS
  <2>1. x # c
    BY <1>2 DEF Serves
  <2>2. state'[x] = state[x] /\ pc'[x] = pc[x] /\ wait_queue'[x] = wait_queue[x] /\ held'[x] = held[x]
    BY <1>1, <1>3, <2>1
  <2> QED
    BY <2>2 DEF Serves, Dead
<1>5. SameReady /\ SameReads
  BY <1>3, Unmoved
<1>6. Asleep(s) => Asleep(s)'
  BY <1>3 DEF Asleep
<1>7. state'[s] = "blocked" => state[s] = "blocked"
  BY <1>1, <1>3
<1> QED
  BY <1>4, <1>5, <1>6, <1>7, SourcesKept DEF SameReady, SameReads

\* The running process blocks: nobody else loses a source.
LEMMA BlockKeeps ==
  ASSUME KInv, PlaceInv, InProgram,
         state' = [state EXCEPT ![current] = "blocked"], pc' = [pc EXCEPT ![current] = "yield"],
         UNCHANGED <<held, queued>>,
         \A x \in Slots : Range(wait_queue[x]) \subseteq Range(wait_queue'[x]),
         NEW s \in Slots, s # current, Asleep(s) => Asleep(s)', Reading(s) => Reading(s)'
  PROVE  Kept(s)
<1>1. state \in [Slots -> States] /\ pc \in [Slots -> PCs] /\ current \in Slots
  BY Typing
<1>2. pc[current] = "user" /\ state[current] = "running"
  BY DEF InProgram, PlaceInv, CurrentRuns
<1> HIDE DEF Slots, Ttys, Levels
<1>3. SameReady
  BY Unmoved
<1>4. \A x \in Slots : Serves(x, s) => Serves(x, s)'
  <2> SUFFICES ASSUME NEW x \in Slots, Serves(x, s) PROVE Serves(x, s)'
    OBVIOUS
  <2>1. ~Dead(x)'
    BY <1>1, <1>2 DEF Serves, Dead
  <2>2. pc[x] \in Open => pc'[x] \in Open /\ (pc[x] = "wake" => pc'[x] = "wake")
    BY <1>1, <1>2 DEF Open
  <2>3. pc[x] \in Open
    BY DEF Serves, Open
  <2>4. s \in Range(wait_queue[x]) => s \in Range(wait_queue'[x])
    OBVIOUS
  <2> QED
    BY <2>1, <2>2, <2>3, <2>4 DEF Serves
<1>5. state'[s] = state[s]
  BY <1>1
<1> QED
  BY <1>3, <1>4, <1>5, SourcesKept DEF SameReady

LEMMA WaitPidKeeps ==
  ASSUME KInv, PlaceInv, GoneInv, NEW c \in Slots, WaitPid(c), NEW s \in Slots,
         s = current => ~LateFor(c)
  PROVE  Kept(s)
<1>1. /\ InProgram /\ state' = [state EXCEPT ![current] = "blocked"]
      /\ pc' = [pc EXCEPT ![current] = "yield"]
      /\ UNCHANGED <<sleeptime, held, current, queued, read_pblocks>>
  BY DEF WaitPid, Call, cpu, pool
<1>2. /\ state \in [Slots -> States] /\ pc \in [Slots -> PCs] /\ current \in Slots
  BY Typing
<1>3. \A x \in Slots : Range(wait_queue'[x]) = IF x = c THEN Range(wait_queue[x]) \union {current}
                                                ELSE Range(wait_queue[x])
  BY WaitAdds
<1> HIDE DEF Slots, Ttys, Levels
<1>4. CASE s # current
  <2>1. (Asleep(s) => Asleep(s)') /\ (Reading(s) => Reading(s)')
    BY <1>1 DEF Asleep, Reading
  <2>2. \A x \in Slots : Range(wait_queue[x]) \subseteq Range(wait_queue'[x])
    BY <1>3
  <2> QED
    BY <1>1, <1>4, <2>1, <2>2, BlockKeeps
<1>5. CASE s = current
  <2>1. ~Dead(c) /\ pc[c] \notin {"zombify", "count", "last", "gone"}
    BY <1>5 DEF LateFor, GoneInv
  <2>2. pc[c] \in Open /\ pc[current] = "user" /\ state[current] = "running"
    BY <1>1, <1>2, <2>1 DEF PCs, Open, InProgram, PlaceInv, CurrentRuns
  <2>3. ~Dead(c)' /\ pc'[c] \in Open
    BY <1>1, <1>2, <2>1, <2>2 DEF Dead, Open
  <2>4. s \in Range(wait_queue'[c])
    BY <1>3, <1>5
  <2>5. Serves(c, s)'
    BY <2>3, <2>4 DEF Serves
  <2>6. (WakeSource(s) <=> Asleep(s) \/ InAQueue(s) \/ Reading(s) \/ \E x \in Slots : Serves(x, s))'
    BY Sources, PTL
  <2> QED
    BY <2>5, <2>6 DEF Kept
<1> QED
  BY <1>4, <1>5

LEMMA SleepKeeps ==
  ASSUME KInv, PlaceInv, NEW t \in SleepTimes \ {0}, Sleep(t), NEW s \in Slots
  PROVE  Kept(s)
<1>1. /\ InProgram /\ state' = [state EXCEPT ![current] = "blocked"]
      /\ pc' = [pc EXCEPT ![current] = "yield"]
      /\ sleeptime' = [sleeptime EXCEPT ![current] = t]
      /\ UNCHANGED <<held, current, queued, read_pblocks, wait_queue>>
  BY DEF Sleep, Call, cpu, pool
<1>2. sleeptime \in [Slots -> Nat] /\ current \in Slots /\ t > 0
  <2>1. t > 0
    BY ConstantsAssumption
  <2> QED
    BY <2>1, Typing
<1> HIDE DEF Slots, Ttys, Levels
<1>3. CASE s # current
  <2>1. (Asleep(s) => Asleep(s)') /\ (Reading(s) => Reading(s)')
    BY <1>1, <1>2, <1>3 DEF Asleep, Reading
  <2>2. \A x \in Slots : Range(wait_queue[x]) \subseteq Range(wait_queue'[x])
    BY <1>1
  <2> QED
    BY <1>1, <1>3, <2>1, <2>2, BlockKeeps
<1>4. CASE s = current
  <2>1. Asleep(s)'
    BY <1>1, <1>2, <1>4 DEF Asleep
  <2> QED
    BY <2>1 DEF Kept, WakeSource, Asleep
<1> QED
  BY <1>3, <1>4

LEMMA ReadKeeps ==
  ASSUME KInv, PlaceInv, NEW t \in Ttys, ReadBlock(t), NEW s \in Slots
  PROVE  Kept(s)
<1>1. /\ InProgram /\ state' = [state EXCEPT ![current] = "blocked"]
      /\ pc' = [pc EXCEPT ![current] = "yield"]
      /\ UNCHANGED <<sleeptime, held, current, queued, wait_queue>>
  BY DEF ReadBlock, Call, cpu, waits
<1>2. \A u \in Ttys : Range(read_pblocks'[u]) = IF u = t THEN Range(read_pblocks[u]) \union {current}
                                                 ELSE Range(read_pblocks[u])
  BY ReadAdds
<1> HIDE DEF Slots, Ttys, Levels
<1>3. CASE s # current
  <2>1. (Asleep(s) => Asleep(s)') /\ (Reading(s) => Reading(s)')
    BY <1>1, <1>2 DEF Asleep, Reading
  <2>2. \A x \in Slots : Range(wait_queue[x]) \subseteq Range(wait_queue'[x])
    BY <1>1
  <2> QED
    BY <1>1, <1>3, <2>1, <2>2, BlockKeeps
<1>4. CASE s = current
  <2>1. Reading(s)'
    BY <1>2, <1>4 DEF Reading
  <2> QED
    BY <2>1 DEF Kept, WakeSource, Reading
<1> QED
  BY <1>3, <1>4

\* A step that touches no process and no queue.
LEMMA StillKeeps ==
  ASSUME UNCHANGED <<state, sleeptime, wait_queue, pc, held, read_pblocks, queued>>
  PROVE  \A s \in Slots : Kept(s)
<1>1. \A s \in Slots : InAQueue(s) \/ Reading(s) => InAQueue(s)' \/ Reading(s)'
  BY DEF InAQueue, Reading, queued
<1> QED
  BY <1>1, KeptSame

LEMMA PRunKeeps ==
  ASSUME KInv, PlaceInv, NEW c \in Slots, PRun(c)
  PROVE  \A s \in Slots : Kept(s)
<1>1. /\ ~started[c] /\ state[c] # "free" /\ SchedEnqueue(c)
      /\ UNCHANGED <<state, sleeptime, wait_queue, pc, held, read_pblocks>>
  BY DEF PRun, waits, pool
<1>2. c \in Others
  <2>1. 0 \in Residents
    BY ConstantsAssumption DEF Residents
  <2>2. started[0]
    BY <2>1 DEF KInv, TableInv
  <2> QED
    BY <1>1, <2>2 DEF Others
<1>3. state[c] = "ready" /\ ~InAQueue(c)
  <2>1. state[c] \in {"zombie", "blocked", "ready", "running"} /\ Place(c)
    BY <1>1, <1>2, Typing DEF States, PlaceInv
  <2> QED
    BY <1>1, <2>1 DEF Place, Nowhere
<1>4. \A x \in Slots : InAQueue(x) => InAQueue(x)'
  BY <1>1, <1>2, <1>3, EnqueuedPlace
<1>5. \A x \in Slots : Reading(x) => Reading(x)'
  BY <1>1 DEF Reading
<1> QED
  BY <1>1, <1>4, <1>5, KeptSame

\* What a call does to the processes that wait, but waitpid.
LEMMA SysCallKeeps ==
  ASSUME NoSignals, 0 \notin SleepTimes, KInv, PlaceInv, SysCall, NEW s \in Slots,
         \A c \in Slots : ~WaitPid(c)
  PROVE  Kept(s)
<1>1. CASE PCreate
  BY <1>1, PCreateKeeps
<1>2. CASE PCreateSpins
  BY <1>2, StillKeeps DEF PCreateSpins, Stuck, waits, marks, cpu, pool
<1>3. ASSUME NEW c \in Slots, PRun(c) PROVE Kept(s)
  BY <1>3, PRunKeeps
<1>4. \A c \in Slots : ~Kill(c)
  BY DEF NoSignals, Kill, Call
<1>5. ASSUME NEW t \in SleepTimes, Sleep(t) PROVE Kept(s)
  BY <1>5, SleepKeeps
<1>6. ASSUME NEW t \in Ttys, ReadBlock(t) PROVE Kept(s)
  BY <1>6, ReadKeeps
<1>7. ASSUME NEW c \in Slots, NEW p \in Prios, SetPriority(c, p) PROVE Kept(s)
  BY <1>7, StillKeeps DEF SetPriority, waits, marks, cpu, pool
<1>8. ASSUME NEW m \in Modes, SetSched(m) PROVE Kept(s)
  BY <1>8, StillKeeps DEF SetSched, waits, marks, pool
<1> QED
  BY <1>1, <1>2, <1>3, <1>4, <1>5, <1>6, <1>7, <1>8 DEF SysCall

-----------------------------------------------------------------------------
(* The exit of the current process *)

LEMMA ExitKeeps ==
  ASSUME KInv, PlaceInv, Exit \/ ExitZombify \/ ExitCount, NEW s \in Slots
  PROVE  Kept(s)
<1> DEFINE c == current
<1>1. state \in [Slots -> States] /\ pc \in [Slots -> PCs] /\ c \in Slots
  BY Typing
<1>2. /\ UNCHANGED <<sleeptime, read_pblocks, wait_queue, held, queued>>
      /\ \/ pc[c] = "user" /\ pc' = [pc EXCEPT ![c] = "drain"] /\ state' = state
         \/ pc[c] = "zombify" /\ pc' = [pc EXCEPT ![c] = "count"] /\ state' = [state EXCEPT ![c] = "zombie"]
         \/ pc[c] = "count" /\ pc' = [pc EXCEPT ![c] = "last"] /\ state' = state
  <2>1. CASE Exit
    BY <2>1 DEF Exit, ExitTo
  <2>2. CASE ExitZombify
    BY <2>2 DEF ExitZombify, ExitTo
  <2>3. CASE ExitCount
    BY <2>3 DEF ExitCount, ExitTo
  <2> QED
    BY <2>1, <2>2, <2>3
<1> HIDE DEF Slots, Levels, Ttys, c
<1>3. SameReady /\ SameReads
  BY <1>2, Unmoved
<1>4. Asleep(s) => Asleep(s)'
  BY <1>2 DEF Asleep
<1>5. state'[s] = "blocked" => state[s] = "blocked"
  BY <1>1, <1>2
<1>6. \A x \in Slots : Serves(x, s) => Serves(x, s)'
  <2> SUFFICES ASSUME NEW x \in Slots, Serves(x, s) PROVE Serves(x, s)'
    OBVIOUS
  <2>1. pc[x] \in Open /\ ~Dead(x)
    BY DEF Serves, Open
  <2>2. pc'[x] \in Open /\ (pc[x] = "wake" => pc'[x] = "wake") /\ state'[x] = state[x]
    BY <1>1, <1>2, <2>1 DEF Open
  <2> QED
    BY <1>2, <2>1, <2>2 DEF Serves, Dead
<1> QED
  BY <1>3, <1>4, <1>5, <1>6, SourcesKept DEF SameReady, SameReads

LEMMA DrainKeeps ==
  ASSUME KInv, PlaceInv, ExitDrain, NEW s \in Slots
  PROVE  Kept(s)
<1>1. /\ state \in [Slots -> States] /\ pc \in [Slots -> PCs] /\ held \in [Slots -> Slots]
      /\ wait_queue \in [Slots -> Seq(Slots)] /\ current \in Slots
      /\ \A x \in Slots : Good(wait_queue[x])
  BY Typing DEF KInv, QueueInv
<1>2. PICK c \in Slots : c = current
  BY <1>1
<1>3. pc[c] = "drain" /\ UNCHANGED <<state, sleeptime, read_pblocks, queued>>
  BY <1>2 DEF ExitDrain, ExitTo
<1>4. SameReady /\ SameReads
  BY <1>3, Unmoved
<1>5. Asleep(s) => Asleep(s)'
  BY <1>3 DEF Asleep
<1>6. CASE wait_queue[c] = <<>>
  <2>1. pc' = [pc EXCEPT ![c] = "zombify"] /\ UNCHANGED <<held, wait_queue>>
    BY <1>2, <1>6 DEF ExitDrain, ExitTo
  <2>2. Range(wait_queue[c]) = {}
    BY <1>6 DEF Range
  <2> HIDE DEF Slots
  <2>3. \A x \in Slots : Serves(x, s) => Serves(x, s)'
    <3> SUFFICES ASSUME NEW x \in Slots, Serves(x, s) PROVE Serves(x, s)'
      OBVIOUS
    <3>1. x # c
      BY <1>3, <2>2 DEF Serves
    <3>2. pc'[x] = pc[x]
      BY <1>1, <2>1, <3>1
    <3> QED
      BY <1>3, <2>1, <3>2 DEF Serves, Dead
  <2> QED
    BY <1>3, <1>4, <1>5, <2>3, SourcesKept DEF SameReady, SameReads
<1>7. CASE wait_queue[c] # <<>>
  <2>1. pc' = [pc EXCEPT ![c] = "take"] /\ UNCHANGED <<held, wait_queue>>
    BY <1>2, <1>7 DEF ExitDrain, ExitTo
  <2> HIDE DEF Slots
  <2>2. \A x \in Slots : pc[x] \in Open => pc'[x] \in Open /\ (pc[x] = "wake" => pc'[x] = "wake")
    BY <1>1, <1>3, <2>1 DEF Open
  <2>3. \A x \in Slots : Dead(x)' => Dead(x)
    BY <1>3 DEF Dead
  <2>4. \A x \in Slots : Serves(x, s) => Serves(x, s)'
    BY <2>1, <2>2, <2>3, ServesSame
  <2> QED
    BY <1>3, <1>4, <1>5, <2>4, SourcesKept DEF SameReady, SameReads
<1> QED
  BY <1>6, <1>7

\* The waiter that process_cleaner takes is in its hands.
LEMMA TakeKeeps ==
  ASSUME KInv, PlaceInv, ExitTake, NEW s \in Slots
  PROVE  Kept(s)
<1>1. /\ state \in [Slots -> States] /\ pc \in [Slots -> PCs] /\ held \in [Slots -> Slots]
      /\ wait_queue \in [Slots -> Seq(Slots)] /\ current \in Slots
      /\ \A x \in Slots : Good(wait_queue[x])
  BY Typing DEF KInv, QueueInv
<1>2. PICK c \in Slots : c = current
  BY <1>1
<1>3. pc[c] = "take" /\ UNCHANGED <<state, sleeptime, read_pblocks, queued>>
  BY <1>2 DEF ExitTake, ExitTo
<1>4. SameReady /\ SameReads
  BY <1>3, Unmoved
<1>5. Asleep(s) => Asleep(s)'
  BY <1>3 DEF Asleep
<1>6. wait_queue[c] # <<>>
  BY <1>2 DEF ExitTake
<1>7. Kept(s)
  <2>1. PICK h : h = Head(wait_queue[c])
    OBVIOUS
  <2>2. /\ pc' = [pc EXCEPT ![c] = "wake"] /\ held' = [held EXCEPT ![c] = h]
        /\ wait_queue' = [wait_queue EXCEPT ![c] = Tail(wait_queue[c])]
    BY <1>2, <1>6, <2>1 DEF ExitTake, ExitTo
  <2>3. Range(Tail(wait_queue[c])) = Range(wait_queue[c]) \ {h}
    BY <1>1, <1>6, <2>1, QueueRange
  <2> HIDE DEF Slots
  <2>4. \A x \in Slots : Serves(x, s) => Serves(x, s)'
    <3> SUFFICES ASSUME NEW x \in Slots, Serves(x, s) PROVE Serves(x, s)'
      OBVIOUS
    <3>1. ~Dead(x)'
      BY <1>3 DEF Serves, Dead
    <3>2. CASE x # c
      <4>1. pc'[x] = pc[x] /\ held'[x] = held[x] /\ wait_queue'[x] = wait_queue[x]
        BY <1>1, <2>2, <3>2
      <4> QED
        BY <3>1, <4>1 DEF Serves
    <3>3. CASE x = c
      <4>1. s \in Range(wait_queue[c])
        BY <1>3, <3>3 DEF Serves
      <4>2. pc'[c] = "wake" /\ held'[c] = h /\ Range(wait_queue'[c]) = Range(wait_queue[c]) \ {h}
        BY <1>1, <2>2, <2>3
      <4> QED
        BY <3>1, <3>3, <4>1, <4>2 DEF Serves, Open
    <3> QED
      BY <3>2, <3>3
  <2> QED
    BY <1>3, <1>4, <1>5, <2>4, SourcesKept DEF SameReady, SameReads
<1> QED
  BY <1>7

LEMMA WakeKeeps ==
  ASSUME KInv, PlaceInv, ExitWake, NEW s \in Slots
  PROVE  Kept(s)
<1>1. /\ state \in [Slots -> States] /\ pc \in [Slots -> PCs] /\ held \in [Slots -> Slots]
      /\ current \in Slots
  BY Typing
<1>2. PICK c \in Slots : c = current
  BY <1>1
<1>3. PICK h \in Slots : h = held[c]
  BY <1>1
<1>4. /\ pc[c] = "wake" /\ pc' = [pc EXCEPT ![c] = "push"]
      /\ state' = [state EXCEPT ![h] = "ready"]
      /\ UNCHANGED <<sleeptime, read_pblocks, wait_queue, held, queued>>
  BY <1>2, <1>3 DEF ExitWake, ExitTo
<1> HIDE DEF Slots
<1>5. SameReady /\ SameReads
  BY <1>4, Unmoved
<1>6. Asleep(s) => Asleep(s)'
  BY <1>4 DEF Asleep
<1>7. CASE s = h
  <2>1. state'[s] = "ready"
    BY <1>1, <1>4, <1>7
  <2> QED
    BY <2>1 DEF Kept
<1>8. CASE s # h
  <2>1. state'[s] = state[s]
    BY <1>1, <1>4, <1>8
  <2>2. \A x \in Slots : Serves(x, s) => Serves(x, s)'
    <3> SUFFICES ASSUME NEW x \in Slots, Serves(x, s) PROVE Serves(x, s)'
      OBVIOUS
    <3>1. ~Dead(x)'
      BY <1>1, <1>4 DEF Serves, Dead
    <3>2. CASE x # c
      <4>1. pc'[x] = pc[x]
        BY <1>1, <1>4, <3>2
      <4> QED
        BY <1>4, <3>1, <4>1 DEF Serves
    <3>3. CASE x = c
      <4>1. s \in Range(wait_queue[c])
        BY <1>3, <1>8, <3>3 DEF Serves
      <4>2. pc'[c] = "push"
        BY <1>1, <1>4
      <4> QED
        BY <1>4, <3>1, <3>3, <4>1, <4>2 DEF Serves, Open
    <3> QED
      BY <3>2, <3>3
  <2> QED
    BY <1>5, <1>6, <2>1, <2>2, SourcesKept DEF SameReady, SameReads
<1> QED
  BY <1>7, <1>8

\* A step of its sched_enqueue that changes no queue.
LEMMA PushKeeps ==
  ASSUME KInv, PlaceInv, ExitPush \/ ExitBump, NEW s \in Slots
  PROVE  Kept(s)
<1>1. /\ state \in [Slots -> States] /\ pc \in [Slots -> PCs] /\ held \in [Slots -> Slots]
      /\ current \in Slots
  BY Typing
<1>2. PICK c \in Slots : c = current
  BY <1>1
<1>3. /\ pc[c] \in {"push", "bump"}
      /\ \E b \in {"store", "drain"} : pc' = [pc EXCEPT ![c] = b]
      /\ held' = held \/ held' = [held EXCEPT ![c] = Idle]
      /\ UNCHANGED <<state, sleeptime, read_pblocks, wait_queue, ready_queue, queues>>
  BY <1>2 DEF ExitPush, ExitBump, ExitTo, queued
<1>4. SameReady /\ SameReads
  BY <1>3, Unmoved
<1>5. Asleep(s) => Asleep(s)'
  BY <1>3 DEF Asleep
<1> HIDE DEF Slots
<1>6. \A x \in Slots : Serves(x, s) => Serves(x, s)'
  <2> SUFFICES ASSUME NEW x \in Slots, Serves(x, s) PROVE Serves(x, s)'
    OBVIOUS
  <2>1. ~Dead(x)'
    BY <1>3 DEF Serves, Dead
  <2>2. CASE x # c
    <3>1. pc'[x] = pc[x] /\ held'[x] = held[x]
      BY <1>1, <1>3, <2>2
    <3> QED
      BY <1>3, <2>1, <3>1 DEF Serves
  <2>3. CASE x = c
    <3>1. s \in Range(wait_queue[c])
      BY <1>3, <2>3 DEF Serves
    <3>2. pc'[c] \in Open
      BY <1>1, <1>3 DEF Open
    <3> QED
      BY <1>3, <2>1, <2>3, <3>1, <3>2 DEF Serves
  <2> QED
    BY <2>2, <2>3
<1> QED
  BY <1>3, <1>4, <1>5, <1>6, SourcesKept DEF SameReady, SameReads

LEMMA StoreKeeps ==
  ASSUME KInv, PlaceInv, ExitStore, NEW s \in Slots
  PROVE  Kept(s)
<1>1. /\ state \in [Slots -> States] /\ pc \in [Slots -> PCs] /\ held \in [Slots -> Slots]
      /\ current \in Others /\ Others \subseteq Slots
  BY Typing DEF ExitStore, ExitTo, Others
<1>2. PICK c \in Others : c = current
  BY <1>1
<1>3. PICK h \in Slots : h = held[c]
  BY <1>1
<1>4. /\ pc[c] = "store" /\ current # Idle
      /\ UNCHANGED <<state, sleeptime, read_pblocks, wait_queue>>
  BY <1>2, <1>3 DEF ExitStore, ExitTo
<1>5. h \in Others /\ Pushing(h)
  BY <1>1, <1>3, <1>4 DEF KInv, QueueInv, Others, Pushing
<1>6. ~InAQueue(h)
  <2>1. Place(h) /\ state[h] \in States
    BY <1>1, <1>5 DEF PlaceInv
  <2> QED
    BY <1>5, <2>1 DEF Place, Nowhere, States
<1>7. /\ \A x \in Slots : InAQueue(x) => InAQueue(x)'
      /\ pc' = [pc EXCEPT ![c] = "bump"] /\ UNCHANGED held
  BY <1>2, <1>3, <1>5, <1>6, StoreEntry
<1> HIDE DEF Slots
<1>8. \A x \in Slots : Reading(x) => Reading(x)'
  BY <1>4 DEF Reading
<1>9. \A x \in Slots : pc[x] \in Open => pc'[x] \in Open /\ (pc[x] = "wake" => pc'[x] = "wake")
  BY <1>1, <1>4, <1>7 DEF Open
<1>10. \A x \in Slots : Dead(x)' => Dead(x)
  BY <1>4 DEF Dead
<1>11. \A x \in Slots : Serves(x, s) => Serves(x, s)'
  BY <1>4, <1>7, <1>9, <1>10, ServesSame
<1>12. Asleep(s) => Asleep(s)'
  BY <1>4 DEF Asleep
<1> QED
  BY <1>4, <1>7, <1>8, <1>11, <1>12, SourcesKept

LEMMA CleanerKeeps ==
  ASSUME KInv, PlaceInv, Cleaner, NEW s \in Slots
  PROVE  Kept(s)
BY ExitKeeps, DrainKeeps, TakeKeeps, WakeKeeps, PushKeeps, StoreKeeps DEF Cleaner

-----------------------------------------------------------------------------
(* scheduler_think, and the loops of the kernel *)

\* The process it takes runs; the others keep what they had.
LEMMA ThinkKeeps ==
  ASSUME KInv, PlaceInv, Think,
         \/ UNCHANGED pc
         \/ /\ pc[current] \in {"yield", "last"}
            /\ pc' = [pc EXCEPT ![current] = IF pc[current] = "yield" THEN "user" ELSE "gone"],
         NEW s \in Slots
  PROVE  Kept(s)
<1>1. /\ state \in [Slots -> States] /\ pc \in [Slots -> PCs] /\ current \in Slots
      /\ Others \subseteq Slots
  BY Typing
<1>2. UNCHANGED <<sleeptime, held, wait_queue, read_pblocks>>
  BY DEF Think, waits, pool
<1> HIDE DEF Slots, Levels, Ttys
<1>3. SameReads
  BY <1>2, Unmoved
<1>4. Asleep(s) => Asleep(s)'
  BY <1>2 DEF Asleep
<1>5. \A x \in Slots : pc[x] \in Open => pc'[x] \in Open /\ (pc[x] = "wake" => pc'[x] = "wake")
  BY <1>1 DEF Open
<1>6. CASE ~Requeues /\ UNCHANGED <<state, ready_queue, queues>>
  <2>1. \A x \in Slots : Dead(x)' => Dead(x)
    BY <1>6 DEF Dead
  <2>2. \A x \in Slots : Serves(x, s) => Serves(x, s)'
    BY <1>2, <1>5, <2>1, ServesSame
  <2>3. SameReady
    BY <1>6, Unmoved
  <2> QED
    BY <1>3, <1>4, <1>6, <2>2, <2>3, SourcesKept DEF SameReady, SameReads
<1>7. ASSUME NEW h \in Others, state'[h] = "running",
             \A x \in Slots : InAQueue(x)' <=> (InAQueue(x) \/ (Requeues /\ x = current)) /\ x # h,
             \A x \in Slots : x # h =>
               state'[x] = IF Requeues /\ x = current THEN "ready" ELSE state[x]
      PROVE  Kept(s)
  <2>1. \A x \in Slots : Dead(x)' => Dead(x)
    BY <1>7 DEF Dead
  <2>2. \A x \in Slots : Serves(x, s) => Serves(x, s)'
    BY <1>2, <1>5, <2>1, ServesSame
  <2>3. CASE s = h
    BY <1>7, <2>3 DEF Kept
  <2>4. CASE s # h
    <3>1. InAQueue(s) => InAQueue(s)'
      BY <1>7, <2>4
    <3>2. state'[s] = "blocked" => state[s] = "blocked"
      BY <1>7, <2>4
    <3> QED
      BY <1>3, <1>4, <2>2, <3>1, <3>2, SourcesKept DEF SameReads
  <2> QED
    BY <2>3, <2>4
<1> QED
  BY <1>6, <1>7, ThinkTakes

\* sched_set_mode leaves everybody in the ready structure.
LEMMA MoveKeeps ==
  ASSUME KInv, PlaceInv, MoveStep
  PROVE  \A s \in Slots : Kept(s)
<1>1. UNCHANGED <<state, sleeptime, wait_queue, pc, held, read_pblocks>>
  BY DEF MoveStep, waits, pool
<1>2. \A x \in Slots : InAQueue(x) => InAQueue(x)'
  BY MoveReady DEF SameReady
<1>3. \A x \in Slots : Reading(x) => Reading(x)'
  BY <1>1 DEF Reading
<1> QED
  BY <1>1, <1>2, <1>3, KeptSame

\* scheduler_tick ends a sleep only by making the sleeper ready.
LEMMA TickKeeps ==
  ASSUME KInv, PlaceInv, TickStep, NEW s \in Slots
  PROVE  Kept(s)
<1>1. /\ state \in [Slots -> States] /\ sleeptime \in [Slots -> Nat]
      /\ state[Idle] = "ready"
  BY Typing
<1>2. UNCHANGED <<pc, held, wait_queue, read_pblocks>> /\ frames # <<>>
  BY DEF TickStep, InFrame, marks, pool
<1>3. PICK f \in Frames : frames = <<f>> /\ Head(frames) = f
  BY <1>2, OneFrame
<1>4. PICK i \in 0 .. ProcMax : i = Head(frames).i
  BY <1>3 DEF Frames
<1>5. CASE UNCHANGED <<state, sleeptime, queued>>
  BY <1>2, <1>5, StillKeeps
<1>6. CASE /\ i < ProcMax /\ Sleeping(i)
           /\ sleeptime' = [sleeptime EXCEPT ![i] = sleeptime[i] - 1]
           /\ IF sleeptime[i] = 1
              THEN state' = [state EXCEPT ![i] = "ready"] /\ SchedEnqueue(i)
              ELSE UNCHANGED <<state, queued>>
  <2>1. i \in Slots
    BY <1>6, ConstantsAssumption
  <2>2. state[i] = "blocked" /\ Asleep(i) /\ i \in Others
    BY <1>1, <1>6, <2>1 DEF Sleeping, Asleep, Others
  <2>3. Place(i) /\ ~InAQueue(i)
    BY <2>2 DEF PlaceInv, Place
  <2>4. \A x \in Slots : InAQueue(x) => InAQueue(x)'
    <3>1. CASE sleeptime[i] = 1
      BY <1>6, <2>2, <2>3, <3>1, EnqueuedPlace
    <3>2. CASE sleeptime[i] # 1
      <4>1. SameReady
        BY <1>6, <3>2, Unmoved
      <4> QED
        BY <4>1 DEF SameReady
    <3> QED
      BY <3>1, <3>2
  <2>5. \A x \in Slots : state'[x] = IF x = i /\ sleeptime[i] = 1 THEN "ready" ELSE state[x]
    BY <1>1, <1>6, <2>1
  <2>6. Asleep(s) => Asleep(s)' \/ state'[s] # "blocked"
    <3>1. CASE s = i
      <4>1. sleeptime[i] \in Nat /\ sleeptime'[i] = sleeptime[i] - 1
        BY <1>1, <1>6, <2>1
      <4>2. sleeptime[i] = 1 => state'[s] # "blocked"
        BY <2>5, <3>1
      <4>3. sleeptime[i] > 0 /\ sleeptime[i] # 1 => sleeptime'[i] > 0
        BY <4>1
      <4> QED
        BY <3>1, <4>2, <4>3 DEF Asleep
    <3>2. CASE s # i
      <4>1. sleeptime'[s] = sleeptime[s]
        BY <1>1, <1>6, <3>2
      <4> QED
        BY <4>1 DEF Asleep
    <3> QED
      BY <3>1, <3>2
  <2> HIDE DEF Slots, Ttys, Levels
  <2>7. \A x \in Slots : Dead(x)' => Dead(x)
    BY <2>5 DEF Dead
  <2>8. \A x \in Slots : Serves(x, s) => Serves(x, s)'
    BY <1>2, <2>7, ServesSame
  <2>9. Reading(s) => Reading(s)'
    BY <1>2 DEF Reading
  <2>10. state'[s] = "blocked" => state[s] = "blocked"
    BY <2>5
  <2> QED
    BY <2>4, <2>6, <2>8, <2>9, <2>10, SourcesKept
<1> QED
  BY <1>4, <1>5, <1>6 DEF TickStep

\* unlock_contexts takes a reader from a context to the ready structure.
LEMMA UnlockKeeps ==
  ASSUME KInv, PlaceInv, UnlockStep
  PROVE  \A s \in Slots : Kept(s)
<1>1. /\ state \in [Slots -> States] /\ Others \subseteq Slots
      /\ read_pblocks \in [Ttys -> Seq(Slots)] /\ \A t \in Ttys : Good(read_pblocks[t])
  BY Typing DEF KInv, QueueInv
<1>2. UNCHANGED <<state, sleeptime, wait_queue, pc, held>> /\ frames # <<>>
  BY DEF UnlockStep, InFrame, marks, waits
<1>3. PICK f \in Frames : frames = <<f>> /\ Head(frames) = f
  BY <1>2, OneFrame
<1>4. PICK t \in Ttys : t = Arg
  <2>1. f.op = "unlock" /\ Arg = f.arg
    BY <1>3 DEF UnlockStep, InFrame, Arg
  <2> QED
    BY <2>1 DEF Frames
<1>5. CASE read_pblocks[t] = <<>>
  <2>1. UNCHANGED <<read_pblocks, queued>>
    BY <1>4, <1>5 DEF UnlockStep
  <2> QED
    BY <1>2, <2>1, StillKeeps
<1>6. CASE read_pblocks[t] # <<>>
  <2>1. PICK h \in Others : h = Head(read_pblocks[t])
    <3>1. Head(read_pblocks[t]) \in Slots /\ Head(read_pblocks[t]) # Idle
      BY <1>1, <1>6, DequeueProperties, GoodQueue
    <3> QED
      BY <3>1 DEF Others
  <2>2. SchedEnqueue(h) /\ read_pblocks' = [read_pblocks EXCEPT ![t] = Tail(read_pblocks[t])]
    BY <1>4, <1>6, <2>1 DEF UnlockStep
  <2>3. h \in Range(read_pblocks[t]) /\ Range(Tail(read_pblocks[t])) = Range(read_pblocks[t]) \ {h}
    BY <1>1, <1>6, <2>1, QueueRange
  <2> HIDE DEF Slots, Ttys, Levels
  <2>4. ~InAQueue(h)
    <3>1. Place(h) /\ state[h] \in States /\ Reading(h)
      BY <1>1, <2>3 DEF PlaceInv, Reading
    <3> QED
      BY <3>1 DEF Place, Nowhere, States
  <2>5. \A x \in Slots : InAQueue(x)' <=> InAQueue(x) \/ x = h
    BY <2>2, <2>4, EnqueuedPlace
  <2>6. \A u \in Ttys : Range(read_pblocks'[u]) = IF u = t THEN Range(read_pblocks[u]) \ {h} ELSE Range(read_pblocks[u])
    BY <1>1, <2>2, <2>3
  <2>7. \A x \in Slots : x # h => (Reading(x) => Reading(x)')
    BY <2>6 DEF Reading
  <2> QED
    BY <1>2, <2>5, <2>7, KeptSame
<1> QED
  BY <1>5, <1>6

-----------------------------------------------------------------------------
(* Every step *)

LEMMA KeepsStep ==
  ASSUME NoSignals, 0 \notin SleepTimes, KInv, PlaceInv, [Next]_vars, NEW s \in Slots,
         \A c \in Slots : ~WaitPid(c)
  PROVE  Kept(s)
<1>1. CASE UNCHANGED vars
  BY <1>1, StillKeeps DEF vars, waits, marks, cpu, pool
<1>2. CASE SysCall
  BY <1>2, SysCallKeeps
<1>3. CASE Cleaner
  BY <1>3, CleanerKeeps
<1>4. \A op \in {"think", "clean", "kids", "forget"} : ~InFrame(op)
  BY OneFrame DEF InFrame, Quiet
<1>5. CASE KernelLoop
  <2>1. ~ThinkAgain /\ ~CleanStep /\ ~KidsStep /\ ~ForgetStep
    BY <1>4 DEF ThinkAgain, CleanStep, KidsStep, ForgetStep
  <2> QED
    BY <1>5, <2>1, MoveKeeps, TickKeeps, UnlockKeeps DEF KernelLoop
<1>6. CASE Halted
  BY <1>1, <1>6 DEF Halted
<1>7. CASE Timer
  BY <1>7, ThinkKeeps DEF Timer
<1>8. CASE Yield
  BY <1>8, ThinkKeeps DEF Yield
<1>9. ASSUME NEW op, NEW a, Interrupt(op, a) PROVE Kept(s)
  BY <1>9, StillKeeps DEF Interrupt, waits, marks, cpu, pool
<1>10. CASE Tick
  BY <1>9, <1>10 DEF Tick
<1>11. ASSUME NEW t \in Ttys, KeyPress(t) \/ CtrlC(t) PROVE Kept(s)
  <2>1. KeyPress(t)
    BY <1>11 DEF CtrlC, NoSignals
  <2> QED
    BY <1>9, <2>1 DEF KeyPress
<1>12. CASE Faults
  BY <1>12, StillKeeps DEF Faults, Stuck, waits, marks, cpu, pool
<1> QED
  BY <1>1, <1>2, <1>3, <1>5, <1>6, <1>7, <1>8, <1>10, <1>11, <1>12 DEF Next

\* The dead are brought back by create_process only, as processes that have
\* not begun to exit.
LEMMA GoneStep == NoSignals /\ KInv /\ PlaceInv /\ GoneInv /\ [Next]_vars => GoneInv'
<1> SUFFICES ASSUME NoSignals, KInv, PlaceInv, GoneInv, [Next]_vars PROVE GoneInv'
  OBVIOUS
<1>1. /\ state \in [Slots -> States] /\ pc \in [Slots -> PCs] /\ held \in [Slots -> Slots]
      /\ current \in Slots /\ Others \subseteq Slots /\ 0 \in Slots /\ state[Idle] = "ready"
  BY Typing
<1> DEFINE Gone == {"count", "last", "gone"}
<1>2. ASSUME \A x \in Slots : pc'[x] \in Gone => pc[x] \in Gone,
             \A x \in Slots : Dead(x) => Dead(x)'
      PROVE  GoneInv'
  BY <1>2 DEF GoneInv
<1>3. InProgram => pc[current] = "user" /\ state[current] = "running"
  BY DEF InProgram, PlaceInv, CurrentRuns
<1>4. \A x \in Others : Waking(x) \/ Asleep(x) \/ InAQueue(x) => ~Dead(x)
  BY DEF PlaceInv, Place, Nowhere, Dead
<1>5. CASE UNCHANGED <<pc, state>>
  BY <1>2, <1>5 DEF Dead
<1>6. CASE PCreate
  <2>1. PICK c : state' = [state EXCEPT ![c] = "ready"] /\ pc' = [pc EXCEPT ![c] = "user"]
    BY <1>6 DEF PCreate
  <2> HIDE DEF Slots
  <2>2. ASSUME NEW x \in Slots, pc'[x] \in Gone PROVE Dead(x)'
    <3>1. x # c
      BY <1>1, <2>1, <2>2
    <3>2. pc[x] \in Gone /\ state'[x] = state[x]
      BY <1>1, <2>1, <2>2, <3>1
    <3> QED
      BY <3>2 DEF GoneInv, Dead
  <2> QED
    BY <2>2 DEF GoneInv
<1>7. ASSUME InProgram, state' = [state EXCEPT ![current] = "blocked"],
             pc' = [pc EXCEPT ![current] = "yield"]
      PROVE  GoneInv'
  <2> HIDE DEF Slots
  <2>1. \A x \in Slots : pc'[x] \in Gone => pc[x] \in Gone
    BY <1>1, <1>7
  <2>2. \A x \in Slots : Dead(x) => Dead(x)'
    BY <1>1, <1>3, <1>7 DEF Dead
  <2> QED
    BY <1>2, <2>1, <2>2
<1>8. CASE SysCall
  <2>1. ASSUME NEW c \in Slots, PRun(c) PROVE UNCHANGED <<pc, state>>
    BY <2>1 DEF PRun
  <2>2. ASSUME NEW c \in Slots, WaitPid(c) PROVE GoneInv'
    BY <1>7, <2>2 DEF WaitPid, Call
  <2>3. \A c \in Slots : ~Kill(c)
    BY DEF NoSignals, Kill, Call
  <2>4. ASSUME NEW t \in SleepTimes, Sleep(t) PROVE GoneInv'
    BY <1>7, <2>4 DEF Sleep, Call
  <2>5. ASSUME NEW t \in Ttys, ReadBlock(t) PROVE GoneInv'
    BY <1>7, <2>5 DEF ReadBlock, Call
  <2>6. ASSUME NEW c \in Slots, NEW p \in Prios, SetPriority(c, p) PROVE UNCHANGED <<pc, state>>
    BY <2>6 DEF SetPriority, marks
  <2>7. ASSUME NEW m \in Modes, SetSched(m) PROVE UNCHANGED <<pc, state>>
    BY <2>7 DEF SetSched, marks
  <2>8. CASE PCreateSpins
    BY <1>5, <2>8 DEF PCreateSpins, Stuck, marks
  <2> QED
    BY <1>5, <1>6, <1>8, <2>1, <2>2, <2>3, <2>4, <2>5, <2>6, <2>7, <2>8 DEF SysCall
<1>9. CASE Cleaner
  <2>1. PICK c \in Slots : c = current
    BY <1>1
  <2> HIDE DEF Slots
  <2>2. CASE Exit \/ ExitDrain \/ ExitTake \/ ExitPush \/ ExitStore \/ ExitBump
    <3>1. UNCHANGED state /\ \E b \in {"drain", "take", "zombify", "wake", "store", "bump"} : pc' = [pc EXCEPT ![c] = b]
      BY <2>1, <2>2 DEF Exit, ExitDrain, ExitTake, ExitPush, ExitStore, ExitBump, ExitTo
    <3>2. \A x \in Slots : pc'[x] \in Gone => pc[x] \in Gone
      BY <1>1, <3>1
    <3> QED
      BY <1>2, <3>1, <3>2 DEF Dead
  <2>3. CASE ExitWake
    <3>1. /\ state' = [state EXCEPT ![held[c]] = "ready"] /\ pc' = [pc EXCEPT ![c] = "push"]
          /\ pc[c] = "wake" /\ c # Idle
      BY <2>1, <2>3 DEF ExitWake, ExitTo
    <3>2. held[c] \in Others /\ Waking(held[c])
      <4>1. state[c] = "running"
        BY <2>1, <3>1 DEF PlaceInv, CurrentRuns
      <4> QED
        BY <1>1, <2>1, <3>1, <4>1 DEF KInv, QueueInv, Others, Waking
    <3>3. ~Dead(held[c])
      BY <1>4, <3>2
    <3>4. \A x \in Slots : pc'[x] \in Gone => pc[x] \in Gone
      BY <1>1, <3>1
    <3>5. \A x \in Slots : Dead(x) => Dead(x)'
      BY <1>1, <3>1, <3>3 DEF Dead
    <3> QED
      BY <1>2, <3>4, <3>5
  <2>4. CASE ExitZombify
    <3>1. state' = [state EXCEPT ![c] = "zombie"] /\ pc' = [pc EXCEPT ![c] = "count"]
      BY <2>1, <2>4 DEF ExitZombify, ExitTo
    <3>2. \A x \in Slots : x = c \/ (pc'[x] = pc[x] /\ state'[x] = state[x])
      BY <1>1, <3>1
    <3>3. Dead(c)'
      BY <1>1, <3>1 DEF Dead
    <3> QED
      BY <3>2, <3>3 DEF GoneInv, Dead
  <2>5. CASE ExitCount
    <3>1. UNCHANGED state /\ pc[c] = "count" /\ pc' = [pc EXCEPT ![c] = "last"]
      BY <2>1, <2>5 DEF ExitCount, ExitTo
    <3>2. \A x \in Slots : pc'[x] \in Gone => pc[x] \in Gone
      BY <1>1, <3>1
    <3> QED
      BY <1>2, <3>1, <3>2 DEF Dead
  <2> QED
    BY <1>9, <2>2, <2>3, <2>4, <2>5 DEF Cleaner
<1>10. ASSUME Think,
              \/ UNCHANGED pc
              \/ /\ pc[current] \in {"yield", "last"}
                 /\ pc' = [pc EXCEPT ![current] = IF pc[current] = "yield" THEN "user" ELSE "gone"]
       PROVE  GoneInv'
  <2> HIDE DEF Slots, Levels, Ttys
  <2>1. \A x \in Slots : pc'[x] \in Gone => pc[x] \in Gone
    BY <1>1, <1>10
  <2>2. CASE UNCHANGED state
    BY <1>2, <2>1, <2>2 DEF Dead
  <2>3. ASSUME NEW h \in Others, state'[h] = "running",
               InAQueue(h) \/ (Requeues /\ h = current),
               \A x \in Slots : x # h =>
                 state'[x] = IF Requeues /\ x = current THEN "ready" ELSE state[x]
        PROVE  GoneInv'
    <3>1. ~Dead(h)
      BY <1>4, <2>3 DEF Requeues, Dead
    <3>2. Requeues => ~Dead(current)
      BY DEF Requeues, Dead
    <3>3. \A x \in Slots : Dead(x) => Dead(x)'
      BY <2>3, <3>1, <3>2 DEF Dead
    <3> QED
      BY <1>2, <2>1, <3>3
  <2> QED
    BY <1>10, <2>2, <2>3, ThinkTakes
<1>11. \A op \in {"think", "clean", "kids", "forget"} : ~InFrame(op)
  BY OneFrame DEF InFrame, Quiet
<1>12. CASE KernelLoop
  <2>1. ~ThinkAgain /\ ~CleanStep /\ ~KidsStep /\ ~ForgetStep
    BY <1>11 DEF ThinkAgain, CleanStep, KidsStep, ForgetStep
  <2>2. CASE MoveStep \/ UnlockStep
    BY <1>5, <2>2 DEF MoveStep, UnlockStep, marks
  <2>3. CASE TickStep
    <3> DEFINE i == Head(frames).i
    <3>1. UNCHANGED state \/ (Sleeping(i) /\ state' = [state EXCEPT ![i] = "ready"])
      BY <2>3 DEF TickStep
    <3>2. UNCHANGED pc
      BY <2>3 DEF TickStep, marks
    <3> HIDE DEF Slots, i
    <3>3. \A x \in Slots : Dead(x) => Dead(x)'
      BY <1>1, <3>1 DEF Sleeping, Dead
    <3> QED
      BY <1>2, <3>2, <3>3
  <2> QED
    BY <1>12, <2>1, <2>2, <2>3 DEF KernelLoop
<1>13. CASE Timer
  BY <1>10, <1>13 DEF Timer
<1>14. CASE Yield
  BY <1>10, <1>14 DEF Yield
<1>15. CASE UNCHANGED vars \/ Halted
  BY <1>5, <1>15 DEF Halted, vars, marks
<1>16. CASE Faults
  BY <1>5, <1>16 DEF Faults, Stuck, marks
<1>17. CASE Tick \/ \E t \in Ttys : KeyPress(t) \/ CtrlC(t)
  BY <1>5, <1>17 DEF Tick, KeyPress, CtrlC, Signal, Interrupt, marks
<1> QED
  BY <1>8, <1>9, <1>12, <1>13, <1>14, <1>15, <1>16, <1>17 DEF Next

\* Where no signal is sent and nobody sleeps for no time at all, a process is
\* abandoned only by its own waitpid for a child that has already emptied its
\* wait queue.
THEOREM OnlyLateWaitsAreLostCorrect ==
  NoSignals /\ 0 \notin SleepTimes => (Spec => OnlyLateWaitsAreLost)
<1> SUFFICES ASSUME NoSignals, 0 \notin SleepTimes PROVE Spec => OnlyLateWaitsAreLost
  OBVIOUS
<1> DEFINE Step(s) == ~Abandoned(s) /\ Abandoned(s)' =>
                        s = current /\ \E t \in Slots : LateFor(t) /\ WaitPid(t)
<1>1. Init => GoneInv
  BY DEF Init, GoneInv
<1>2. KInv /\ PlaceInv /\ GoneInv /\ [Next]_vars => GoneInv'
  BY GoneStep
<1>3. KInv /\ PlaceInv /\ GoneInv /\ [Next]_vars => \A s \in Slots : Step(s)
  <2> SUFFICES ASSUME KInv, PlaceInv, GoneInv, [Next]_vars, NEW s \in Slots PROVE Step(s)
    OBVIOUS
  <2> HIDE DEF Slots
  <2>1. Kept(s) => Step(s)
    BY DEF Kept, Abandoned
  <2>2. CASE \E c \in Slots : WaitPid(c)
    <3>1. PICK c \in Slots : WaitPid(c)
      BY <2>2
    <3>2. CASE s = current /\ LateFor(c)
      BY <3>1, <3>2
    <3>3. CASE ~(s = current /\ LateFor(c))
      BY <2>1, <3>1, <3>3, WaitPidKeeps
    <3> QED
      BY <3>2, <3>3
  <2>3. CASE \A c \in Slots : ~WaitPid(c)
    BY <2>1, <2>3, KeepsStep
  <2> QED
    BY <2>2, <2>3
<1> QED
  BY <1>1, <1>2, <1>3, KInvCorrect, PlaceInvCorrect, PTL DEF Spec, OnlyLateWaitsAreLost, Step

=============================================================================
