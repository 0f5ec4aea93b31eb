----------------------------- MODULE FifoProofs -----------------------------
(***************************************************************************)
(* What is proved of Fifo, for every size of the ring, every number of     *)
(* readers and writers and every length of message.                        *)
(***************************************************************************)
EXTENDS Fifo, TLAPS

(* The lists of names the steps below expand. *)
USE DEF Procs, Fds, ring, locks, env

LEMMA FifoInitType == Init => TypeOK
<1> SUFFICES ASSUME Init PROVE TypeOK
  OBVIOUS
<1>1. data \in [0 .. Size - 1 -> Nat]
  BY DEF Init, Fresh, Zeroes
<1>2. call \in [Procs -> Seq(Nat) \cup {None}]
  BY DEF Init
<1>3. used \in [Fds -> Nat] /\ received \in Seq(Nat)
  BY DEF Init
<1>4. wr_i \in 0 .. Size /\ rd_i \in 0 .. Size /\ writes \in Int /\ writes <= Size
  BY FifoAssumption DEF Init, Fresh
<1> QED
  BY <1>1, <1>2, <1>3, <1>4 DEF Init, Fresh, TypeOK

LEMMA AwakeType ==
  ASSUME NEW p PROVE Awake(p) \in [Procs -> BOOLEAN]
  BY DEF Awake

(* No step takes a field out of its type. *)
LEMMA FifoStepType == TypeOK /\ [Next]_vars => TypeOK'
<1> SUFFICES ASSUME TypeOK, [Next]_vars PROVE TypeOK'
  OBVIOUS
<1> USE FifoAssumption
<1>1. ASSUME NEW w \in Writers, NEW n \in WriteSizes, WriteCall(w, n)
      PROVE TypeOK'
  <2>1. [i \in 1 .. n |-> offered + i] \in Seq(Nat)
    BY <1>1 DEF TypeOK
  <2> QED
    BY <1>1, <2>1 DEF WriteCall, TypeOK
<1>2. ASSUME NEW w \in Writers, EnterWrite(w) PROVE TypeOK'
  BY <1>2 DEF EnterWrite, Entering, TypeOK
<1>3. ASSUME NEW w \in Writers, WriteBlocks(w) PROVE TypeOK'
  BY <1>3 DEF WriteBlocks, Blocks, Awake, TypeOK
<1>4. ASSUME NEW w \in Writers, WriteByte(w) PROVE TypeOK'
  <2>1. call[w][buf_wr_i + 1] \in Nat
    BY <1>4, SMTT(20) DEF WriteByte, TypeOK
  <2>2. Wrapped(wr_i) \in 0 .. Size - 1
    BY DEF Wrapped, TypeOK
  <2>3. data' \in [0 .. Size - 1 -> Nat]
    BY <1>4, <2>1, <2>2 DEF WriteByte, TypeOK
  <2>4. asleep' \in [Procs -> BOOLEAN] /\ ~asleep'[w]
    <3>1. inside = w /\ asleep' = Awake(ReaderToWake)
      BY <1>4 DEF WriteByte
    <3>2. ~asleep[w]
      BY <3>1 DEF TypeOK
    <3> QED
      BY <3>1, <3>2 DEF Awake
  <2>5. wr_i' \in 0 .. Size /\ writes' \in Int /\ writes' <= Size
    <3>1. wr_i' = Wrapped(wr_i) + 1 /\ writes' = writes + 1 /\ writes # Size
      BY <1>4 DEF WriteByte
    <3>2. writes \in Int /\ writes <= Size /\ Size \in Nat
      BY DEF TypeOK
    <3> QED
      BY ONLY <2>2, <3>1, <3>2
  <2>6. inside' = inside /\ call' = call /\ alive' = alive /\ used' = used
        /\ offered' = offered /\ received' = received /\ rd_i' = rd_i
        /\ buf_rd_i' = buf_rd_i /\ wr_lck_p' = wr_lck_p /\ inside = w
        /\ buf_wr_i' = buf_wr_i + 1 /\ write_locked' = FALSE
        /\ rd_lck_p' \in {None, rd_lck_p}
    BY <1>4 DEF WriteByte
  <2>7. call[w] \in Seq(Nat) /\ alive[w] /\ w # None /\ buf_wr_i' \in Nat
    BY <2>6 DEF TypeOK
  <2> QED
    BY <2>3, <2>4, <2>5, <2>6, <2>7 DEF TypeOK
<1>5. ASSUME NEW w \in Writers, WriteEnds(w) PROVE TypeOK'
  BY <1>5 DEF WriteEnds, Returns, Awake, TypeOK
<1>6. ASSUME NEW r \in Readers, ReadCall(r) PROVE TypeOK'
  BY <1>6 DEF ReadCall, TypeOK
<1>7. ASSUME NEW r \in Readers, EnterRead(r) PROVE TypeOK'
  BY <1>7 DEF EnterRead, Entering, TypeOK
<1>8. ASSUME NEW r \in Readers, ReadFindsNothing(r) PROVE TypeOK'
  BY <1>8 DEF ReadFindsNothing, Blocks, Awake, TypeOK
<1>9. ASSUME NEW r \in Readers, ReadByte(r) PROVE TypeOK'
  <2>1. Wrapped(rd_i) \in 0 .. Size - 1
    BY DEF Wrapped, TypeOK
  <2>2. data[Wrapped(rd_i)] \in Nat
    BY <2>1 DEF TypeOK
  <2>3. Append(call[r], data[Wrapped(rd_i)]) \in Seq(Nat)
    BY <1>9, <2>2 DEF ReadByte, TypeOK
  <2>4. inside = r /\ asleep' \in [Procs -> BOOLEAN] /\ ~asleep'[r]
    <3>1. inside = r /\ asleep' = Awake(IF writes > 0 THEN wr_lck_p ELSE None)
      BY <1>9 DEF ReadByte
    <3>2. ~asleep[r]
      BY <3>1 DEF TypeOK
    <3> QED
      BY <3>1, <3>2 DEF Awake
  <2>5. rd_i' \in 0 .. Size /\ writes' \in Int /\ writes' <= Size
        /\ buf_rd_i' \in Nat
    <3>1. rd_i' = Wrapped(rd_i) + 1 /\ writes' = writes - 1
          /\ buf_rd_i' = buf_rd_i + 1
      BY <1>9 DEF ReadByte
    <3>2. writes \in Int /\ writes <= Size /\ Size \in Nat /\ buf_rd_i \in Nat
      BY DEF TypeOK
    <3> QED
      BY ONLY <2>1, <3>1, <3>2
  <2>6. call' \in [Procs -> Seq(Nat) \cup {None}] /\ call'[r] \in Seq(Nat)
        /\ received' \in Seq(Nat)
    BY <1>9, <2>2, <2>3 DEF ReadByte, TypeOK
  <2>7. inside' = inside /\ alive' = alive /\ used' = used /\ data' = data
        /\ offered' = offered /\ wr_i' = wr_i /\ buf_wr_i' = buf_wr_i
        /\ write_locked' = write_locked /\ rd_lck_p' = rd_lck_p
        /\ wr_lck_p' \in {None, wr_lck_p}
    BY <1>9 DEF ReadByte
  <2> QED
    BY <2>4, <2>5, <2>6, <2>7 DEF TypeOK
<1>10. ASSUME NEW r \in Readers, ReadBlocks(r) PROVE TypeOK'
  BY <1>10 DEF ReadBlocks, Blocks, Awake, TypeOK
<1>11. ASSUME NEW r \in Readers, ReadEnds(r) PROVE TypeOK'
  BY <1>11 DEF ReadEnds, Returns, TypeOK
<1>12. ASSUME NEW p \in Procs, EndUses(p) PROVE TypeOK'
  BY <1>12 DEF EndUses, Leaves, Awake, TypeOK
<1>13. ASSUME NEW p \in Procs, EndCloses(p) PROVE TypeOK'
  <2>1. data' \in [0 .. Size - 1 -> Nat]
    BY <1>13 DEF EndCloses, Zeroes
  <2>2. wr_i' \in 0 .. Size /\ rd_i' \in 0 .. Size
        /\ writes' \in Int /\ writes' <= Size
    BY <1>13 DEF EndCloses
  <2>3. call' \in [Procs -> Seq(Nat) \cup {None}] /\ inside' = None
        /\ alive' \in [Procs -> BOOLEAN] /\ asleep' \in [Procs -> BOOLEAN]
    BY <1>13 DEF EndCloses, Leaves, TypeOK
  <2> QED
    BY <1>13, <2>1, <2>2, <2>3 DEF EndCloses, Leaves, TypeOK
<1>14. CASE UNCHANGED vars
  BY <1>14 DEF vars, TypeOK
<1> QED
  BY <1>1, <1>2, <1>3, <1>4, <1>5, <1>6, <1>7, <1>8, <1>9, <1>10, <1>11,
     <1>12, <1>13, <1>14 DEF Next, Write, Read, End

(* In every state the fields have their types: no index of the ring or of  *)
(* a program's buffer is ever out of range, and the count of bytes never   *)
(* exceeds the ring.                                                       *)
THEOREM FifoTypeCorrect == Spec => []TypeOK
  BY FifoInitType, FifoStepType, PTL DEF Spec

-----------------------------------------------------------------------------
(* Why somebody is always awake: who falls asleep is remembered, and is    *)
(* only forgotten by being woken or by the next one to fall asleep; and a  *)
(* remembered reader means an empty ring (or a writer at work), a          *)
(* remembered writer a full one.                                           *)
SleepInv ==
  /\ rd_lck_p # None => writes <= 0 \/ inside \in Writers
  /\ wr_lck_p # None => writes = Size
  /\ (\E r \in Readers : ~asleep[r]) \/ rd_lck_p # None
  /\ (\E w \in Writers : ~asleep[w]) \/ wr_lck_p # None

LEMMA SleepInit == Init => SleepInv
  BY FifoAssumption DEF Init, Fresh, SleepInv

(* Each step keeps it, when no process ends. *)
LEMMA SleepStep ==
  ASSUME Ends = {}, TypeOK, SleepInv, [Next]_vars PROVE SleepInv'
<1> USE FifoAssumption
<1>1. ASSUME NEW w \in Writers, NEW n \in WriteSizes, WriteCall(w, n)
      PROVE SleepInv'
  BY <1>1 DEF WriteCall, SleepInv, TypeOK
<1>2. ASSUME NEW w \in Writers, EnterWrite(w) PROVE SleepInv'
  BY <1>2 DEF EnterWrite, Entering, SleepInv, TypeOK
<1>3. ASSUME NEW w \in Writers, WriteBlocks(w) PROVE SleepInv'
  BY <1>3 DEF WriteBlocks, Blocks, Awake, ReaderToWake, SleepInv, TypeOK
<1>4. ASSUME NEW w \in Writers, WriteByte(w) PROVE SleepInv'
  BY <1>4 DEF WriteByte, Awake, ReaderToWake, SleepInv, TypeOK
<1>5. ASSUME NEW w \in Writers, WriteEnds(w) PROVE SleepInv'
  BY <1>5 DEF WriteEnds, Returns, Awake, SleepInv, TypeOK
<1>6. ASSUME NEW r \in Readers, ReadCall(r) PROVE SleepInv'
  BY <1>6 DEF ReadCall, SleepInv, TypeOK
<1>7. ASSUME NEW r \in Readers, EnterRead(r) PROVE SleepInv'
  BY <1>7 DEF EnterRead, Entering, SleepInv, TypeOK
<1>8. ASSUME NEW r \in Readers, ReadFindsNothing(r) PROVE SleepInv'
  BY <1>8 DEF ReadFindsNothing, Blocks, Awake, SleepInv, TypeOK
<1>9. ASSUME NEW r \in Readers, ReadByte(r) PROVE SleepInv'
  BY <1>9 DEF ReadByte, Awake, SleepInv, TypeOK
<1>10. ASSUME NEW r \in Readers, ReadBlocks(r) PROVE SleepInv'
  BY <1>10 DEF ReadBlocks, Blocks, Awake, SleepInv, TypeOK
<1>11. ASSUME NEW r \in Readers, ReadEnds(r) PROVE SleepInv'
  BY <1>11 DEF ReadEnds, Returns, SleepInv, TypeOK
<1>12. ASSUME NEW p \in Procs, End(p) PROVE FALSE
  BY <1>12 DEF End, EndUses, EndCloses, Leaves, MayEnd
<1>13. CASE UNCHANGED vars
  BY <1>13 DEF vars, SleepInv
<1> QED
  BY <1>1, <1>2, <1>3, <1>4, <1>5, <1>6, <1>7, <1>8, <1>9, <1>10, <1>11,
     <1>12, <1>13 DEF Next, Write, Read

LEMMA SleepersSuffice == TypeOK /\ SleepInv => NotAllAsleep
<1> SUFFICES ASSUME TypeOK, SleepInv, \A p \in Procs : asleep[p] PROVE FALSE
  BY DEF NotAllAsleep
<1>1. rd_lck_p # None /\ wr_lck_p # None
  BY DEF SleepInv
<1>2. inside \in Writers
  BY <1>1, FifoAssumption DEF SleepInv, TypeOK
<1> QED
  BY <1>2, FifoAssumption DEF TypeOK

(* Without ends of processes the programs are never all blocked on the     *)
(* fifo, however many readers and writers forget each other in the two     *)
(* remembered sleepers.                                                    *)
THEOREM NotAllAsleepCorrect ==
  ASSUME Ends = {} PROVE Spec => []NotAllAsleep
<1>1. TypeOK /\ SleepInv /\ [Next]_vars => (TypeOK /\ SleepInv)'
  BY FifoStepType, SleepStep
<1> QED
  BY <1>1, FifoInitType, SleepInit, SleepersSuffice, PTL DEF Spec

-----------------------------------------------------------------------------
(* Why the count never falls below zero: readers that all ask for n bytes, *)
(* a divisor of Size, find a ring that was full with a multiple of n, and  *)
(* leave one; so a locked ring is never found empty in the middle of a     *)
(* read.                                                                   *)
RingInv(n) ==
  /\ RingOK
  /\ inside \notin Readers => buf_rd_i = 0
  /\ inside \in Readers => buf_rd_i <= n /\ writes + buf_rd_i > 0
  /\ write_locked => \E k \in Nat : writes + buf_rd_i = k * n

LEMMA RingInit == ASSUME NEW n PROVE Init => RingInv(n)
  BY FifoAssumption DEF Init, Fresh, RingInv, RingOK

LEMMA NoMultipleBelow ==
  ASSUME NEW n \in Nat \ {0}, NEW k \in Nat, NEW b \in Nat, b < n, b = k * n
  PROVE  b = 0
<1>1. CASE k = 0
  BY <1>1
<1>2. CASE k >= 1
  <2>1. k * n >= n
    BY <1>2
  <2> QED
    BY <2>1
<1> QED
  BY <1>1, <1>2

LEMMA OneMultipleLess ==
  ASSUME NEW n \in Nat \ {0}, NEW k \in Nat, NEW c \in Nat, c + n = k * n
  PROVE  \E j \in Nat : c = j * n
<1>1. k # 0
  BY SMT
<1>2. k - 1 \in Nat /\ c = (k - 1) * n
  BY <1>1
<1> QED
  BY <1>2

LEMMA ReadsWritten ==
  ASSUME NEW n \in Nat \ {0}, \A q \in Readers : ReadSize[q] = n, TypeOK, RingInv(n),
         NEW r \in Readers, inside = r, MoreToRead(r)
  PROVE  writes > 0
<1> SUFFICES ASSUME ~(writes > 0) PROVE FALSE
  OBVIOUS
<1>1. writes = 0 /\ write_locked /\ buf_rd_i < n /\ buf_rd_i > 0
  BY DEF MoreToRead, RingInv, RingOK, TypeOK
<1>2. PICK k \in Nat : writes + buf_rd_i = k * n
  BY <1>1 DEF RingInv
<1> QED
  BY <1>1, <1>2, NoMultipleBelow DEF TypeOK

LEMMA RingStep ==
  ASSUME NEW n \in Nat \ {0}, NEW m \in Nat, Size = m * n,
         \A r \in Readers : ReadSize[r] = n,
         TypeOK, RingInv(n), [Next]_vars
  PROVE  RingInv(n)'
<1> USE FifoAssumption
<1>1. ASSUME NEW w \in Writers, NEW l \in WriteSizes, WriteCall(w, l)
      PROVE RingInv(n)'
  BY <1>1 DEF WriteCall, RingInv, RingOK
<1>2. ASSUME NEW w \in Writers, EnterWrite(w) PROVE RingInv(n)'
  BY <1>2 DEF EnterWrite, Entering, RingInv, RingOK, TypeOK
<1>3. ASSUME NEW w \in Writers, WriteBlocks(w) PROVE RingInv(n)'
  <2>1. buf_rd_i = 0 /\ writes = m * n /\ buf_rd_i' = 0 /\ writes' = writes
    BY <1>3 DEF WriteBlocks, RingInv
  <2>2. \E k \in Nat : writes' + buf_rd_i' = k * n
    <3>1. writes' + buf_rd_i' = m * n
      BY <2>1 DEF TypeOK
    <3> QED
      BY <3>1
  <2>3. RingOK'
    BY <1>3 DEF WriteBlocks, RingInv, RingOK
  <2> QED
    BY <1>3, <2>1, <2>2, <2>3 DEF WriteBlocks, Blocks, RingInv
<1>4. ASSUME NEW w \in Writers, WriteByte(w) PROVE RingInv(n)'
  BY <1>4 DEF WriteByte, Wrapped, RingInv, RingOK, TypeOK
<1>5. ASSUME NEW w \in Writers, WriteEnds(w) PROVE RingInv(n)'
  BY <1>5 DEF WriteEnds, Returns, RingInv, RingOK, TypeOK
<1>6. ASSUME NEW r \in Readers, ReadCall(r) PROVE RingInv(n)'
  BY <1>6 DEF ReadCall, RingInv, RingOK
<1>7. ASSUME NEW r \in Readers, EnterRead(r) PROVE RingInv(n)'
  BY <1>7 DEF EnterRead, Entering, RingInv, RingOK, TypeOK
<1>8. ASSUME NEW r \in Readers, ReadFindsNothing(r) PROVE RingInv(n)'
  BY <1>8 DEF ReadFindsNothing, Entering, Blocks, RingInv, RingOK, TypeOK
<1>9. ASSUME NEW r \in Readers, inside = r, MoreToRead(r) PROVE writes > 0
  BY <1>9, ReadsWritten
<1>10. ASSUME NEW r \in Readers, ReadByte(r) PROVE RingInv(n)'
  <2>1. writes > 0 /\ buf_rd_i < n /\ inside = r
    BY <1>9, <1>10 DEF ReadByte, MoreToRead
  <2>2. writes' + buf_rd_i' = writes + buf_rd_i
    BY <1>10 DEF ReadByte, TypeOK
  <2>3. RingOK'
    BY <1>10, <2>1 DEF ReadByte, Wrapped, RingInv, RingOK, TypeOK
  <2>4. write_locked' => \E k \in Nat : writes' + buf_rd_i' = k * n
    BY <1>10, <2>2 DEF ReadByte, RingInv
  <2> QED
    BY <1>10, <2>1, <2>2, <2>3, <2>4 DEF ReadByte, RingInv, RingOK, TypeOK
<1>11. ASSUME NEW r \in Readers, ReadBlocks(r) PROVE RingInv(n)'
  BY <1>9, <1>11 DEF ReadBlocks, TypeOK
<1>12. ASSUME NEW r \in Readers, ReadEnds(r) PROVE RingInv(n)'
  <2>1. ASSUME write_locked PROVE \E k \in Nat : writes = k * n
    <3>1. buf_rd_i = n
      BY <1>12, <2>1 DEF ReadEnds, MoreToRead, RingInv, RingOK, TypeOK
    <3>2. PICK k \in Nat : writes + buf_rd_i = k * n
      BY <2>1 DEF RingInv
    <3>3. writes \in Nat
      BY DEF RingInv, RingOK
    <3> QED
      BY ONLY <3>1, <3>2, <3>3, n \in Nat \ {0}, OneMultipleLess
  <2>2. buf_rd_i' = 0 /\ writes' = writes /\ write_locked' = write_locked
        /\ inside' \notin Readers
    BY <1>12 DEF ReadEnds, Returns
  <2> QED
    BY <1>12, <2>1, <2>2 DEF ReadEnds, RingInv, RingOK
<1>13. ASSUME NEW p \in Procs, EndUses(p) PROVE RingInv(n)'
  BY <1>13 DEF EndUses, Leaves, RingInv, RingOK
<1>14. ASSUME NEW p \in Procs, EndCloses(p) PROVE RingInv(n)'
  BY <1>14 DEF EndCloses, Leaves, RingInv, RingOK
<1>15. CASE UNCHANGED vars
  BY <1>15 DEF vars, RingInv, RingOK
<1> QED
  BY <1>1, <1>2, <1>3, <1>4, <1>5, <1>6, <1>7, <1>8, <1>10, <1>11, <1>12,
     <1>13, <1>14, <1>15 DEF Next, Write, Read, End

(* When all readers ask for the same amount and it divides the size of the *)
(* ring (1, 512 and 1024 of 1024 do), no byte is read before it is written *)
(* and the indices agree with the count, for any number of readers and     *)
(* writers, killed at any time.                                            *)
THEOREM RingCorrect ==
  ASSUME NEW n \in Nat \ {0}, NEW m \in Nat, Size = m * n,
         \A r \in Readers : ReadSize[r] = n
  PROVE  Spec => []RingOK
<1>1. TypeOK /\ RingInv(n) /\ [Next]_vars => (TypeOK /\ RingInv(n))'
  BY FifoStepType, RingStep
<1>2. RingInv(n) => RingOK
  BY DEF RingInv
<1>3. Init => TypeOK /\ RingInv(n)
  BY FifoInitType, RingInit
<1> QED
  BY <1>1, <1>2, <1>3, PTL DEF Spec

-----------------------------------------------------------------------------
(* A fifo of one writer w and one reader r is a pipe: the bytes between    *)
(* rd_i and wr_i are the next ones of the stream, in order, and those of w *)
(* that are not in the ring yet follow them.                               *)
Slot(i) == (rd_i + i - 1) % Size

Follows ==
  \A i \in 1 .. writes : data[Slot(i)] = Len(received) + i

Offers(w) ==
  alive[w] =>
    IF call[w] = None
    THEN buf_wr_i = 0 /\ offered = Len(received) + writes
    ELSE /\ buf_wr_i <= Len(call[w])
         /\ offered = Len(received) + writes + Len(call[w]) - buf_wr_i
         /\ \A i \in 1 .. Len(call[w]) :
              call[w][i] = Len(received) + writes + i - buf_wr_i

(* An entry of files[] with no use left has lost one of its processes.     *)
UsesLeft ==
  \A p \in Procs : used[FdOf[p]] = 0 => \E q \in Procs : FdOf[q] = FdOf[p] /\ ~alive[q]

PipeInv(w) == Follows /\ Offers(w) /\ UsesLeft

LEMMA ModBelowTwice ==
  ASSUME NEW x \in Nat, x < 2 * Size
  PROVE  x % Size = IF x < Size THEN x ELSE x - Size
<1> USE FifoAssumption
<1>1. Size \in Nat /\ Size > 0
  OBVIOUS
<1>2. CASE x < Size
  BY <1>1, <1>2
<1>3. CASE x >= Size
  BY <1>1, <1>3
<1> QED
  BY <1>1, <1>2, <1>3

LEMMA SlotIs ==
  ASSUME TypeOK, NEW i \in 1 .. Size
  PROVE  /\ Slot(i) = IF rd_i + i - 1 < Size THEN rd_i + i - 1 ELSE rd_i + i - 1 - Size
         /\ Slot(i) \in 0 .. Size - 1
<1>1. rd_i \in 0 .. Size /\ Size \in Nat \ {0}
  BY FifoAssumption DEF TypeOK
<1> DEFINE x == rd_i + i - 1
<1>2. x \in Nat /\ x < 2 * Size
  BY <1>1
<1>3. Slot(i) = x % Size
  BY DEF Slot
<1> HIDE DEF x
<1>4. Slot(i) = IF x < Size THEN x ELSE x - Size
  BY <1>2, <1>3, ModBelowTwice
<1>5. Slot(i) \in 0 .. Size - 1
  BY <1>1, <1>2, <1>4
<1> QED
  BY <1>1, <1>4, <1>5 DEF x

(* The next byte goes after the last, and there is none in its place.      *)
LEMMA SlotOfNext ==
  ASSUME TypeOK, RingOK, writes # Size
  PROVE  /\ Wrapped(wr_i) = Slot(writes + 1)
         /\ \A i \in 1 .. writes : Slot(i) # Slot(writes + 1)
<1> USE FifoAssumption
<1>1. /\ writes + 1 \in 1 .. Size /\ writes \in Nat /\ Size \in Nat
      /\ rd_i \in 0 .. Size /\ wr_i \in 0 .. Size
      /\ wr_i - rd_i \in {writes, writes - Size, writes + Size}
  BY DEF TypeOK, RingOK
<1>2. Slot(writes + 1) = IF rd_i + writes < Size THEN rd_i + writes ELSE rd_i + writes - Size
  <2>1. rd_i + (writes + 1) - 1 = rd_i + writes
    BY <1>1
  <2> QED
    BY <1>1, <2>1, SlotIs
<1>3. Wrapped(wr_i) = Slot(writes + 1)
  BY <1>1, <1>2 DEF Wrapped
<1>4. ASSUME NEW i \in 1 .. writes PROVE Slot(i) # Slot(writes + 1)
  <2>1. i \in 1 .. Size
    BY <1>1
  <2>2. Slot(i) = IF rd_i + i - 1 < Size THEN rd_i + i - 1 ELSE rd_i + i - 1 - Size
    BY <2>1, SlotIs
  <2> QED
    BY <1>1, <1>2, <2>1, <2>2
<1> QED
  BY <1>3, <1>4

(* The byte read is the first one, and the others move up. *)
LEMMA SlotOfFirst ==
  ASSUME TypeOK, RingOK, TypeOK', writes > 0, rd_i' = Wrapped(rd_i) + 1
  PROVE  /\ Wrapped(rd_i) = Slot(1)
         /\ \A i \in 1 .. writes - 1 : Slot(i)' = Slot(i + 1)
<1> USE FifoAssumption
<1>1. /\ writes \in 1 .. Size /\ Size \in Nat \ {0} /\ rd_i \in 0 .. Size
      /\ rd_i' \in 0 .. Size
  BY DEF TypeOK, RingOK
<1>2. Wrapped(rd_i) = Slot(1)
  <2>1. 1 \in 1 .. Size /\ rd_i + 1 - 1 = rd_i
    BY <1>1
  <2>2. Slot(1) = IF rd_i < Size THEN rd_i ELSE rd_i - Size
    BY <1>1, <2>1, SlotIs
  <2> QED
    BY <1>1, <2>2 DEF Wrapped
<1>3. ASSUME NEW i \in 1 .. writes - 1 PROVE Slot(i)' = Slot(i + 1)
  <2>1. i \in 1 .. Size /\ i + 1 \in 1 .. Size
    BY <1>1
  <2>2. Slot(i + 1) = IF rd_i + i < Size THEN rd_i + i ELSE rd_i + i - Size
    <3>1. rd_i + (i + 1) - 1 = rd_i + i
      BY <1>1
    <3> QED
      BY <2>1, <3>1, SlotIs
  <2> DEFINE x == rd_i' + i - 1
  <2>3. Slot(i)' = x % Size
    BY DEF Slot
  <2>4. x \in Nat /\ x < 2 * Size
    BY <1>1, <2>1
  <2>5. x = IF rd_i = Size THEN i ELSE rd_i + i
    BY <1>1, <2>1 DEF Wrapped
  <2> HIDE DEF x
  <2>6. Slot(i)' = IF x < Size THEN x ELSE x - Size
    BY <2>3, <2>4, ModBelowTwice
  <2>7. i < Size
    BY <1>1
  <2> QED
    BY <1>1, <2>1, <2>2, <2>5, <2>6, <2>7
<1> QED
  BY <1>2, <1>3

LEMMA PipeStart == ASSUME NEW w \in Writers PROVE Init => PipeInv(w)
<1> SUFFICES ASSUME Init PROVE PipeInv(w)
  OBVIOUS
<1>1. Follows
  BY DEF Init, Fresh, Follows
<1>2. Offers(w)
  <2>1. call[w] = None
    BY DEF Init
  <2>2. Len(received) = 0 /\ writes = 0 /\ buf_wr_i = 0 /\ offered = 0
    BY DEF Init, Fresh
  <2> QED
    BY <2>1, <2>2 DEF Offers
<1>3. UsesLeft
  BY DEF Init, UsesLeft
<1> QED
  BY <1>1, <1>2, <1>3 DEF PipeInv

LEMMA PipeStep ==
  ASSUME NEW w, Writers = {w}, NEW r, Readers = {r},
         TypeOK, RingOK, TypeOK', PipeInv(w), [Next]_vars,
         inside = r /\ MoreToRead(r) => writes > 0
  PROVE  PipeInv(w)'
<1> USE FifoAssumption
<1>0. /\ writes \in Nat /\ Len(received) \in Nat /\ offered \in Nat /\ buf_wr_i \in Nat
      /\ w \in Procs /\ r \in Procs /\ w # r /\ w # None /\ r # None /\ None \notin Procs
      /\ Procs = {w, r}
  <2>1. Procs = {w, r} /\ None \notin Procs /\ w # r
    OBVIOUS
  <2>2. writes \in Nat /\ offered \in Nat /\ buf_wr_i \in Nat
    BY DEF TypeOK, RingOK
  <2>3. Len(received) \in Nat
    BY DEF TypeOK
  <2> QED
    BY <2>1, <2>2, <2>3
<1>q. ASSUME ring' = ring, received' = received PROVE Follows'
  BY <1>q DEF PipeInv, Follows, Slot
<1>o. ASSUME UNCHANGED <<writes, received, buf_wr_i, offered, alive>>, call'[w] = call[w]
      PROVE  Offers(w)'
  BY <1>o DEF PipeInv, Offers
<1>u. ASSUME UNCHANGED <<alive, used>> PROVE UsesLeft'
  BY <1>u DEF PipeInv, UsesLeft
<1>1. ASSUME NEW n \in WriteSizes, WriteCall(w, n) PROVE PipeInv(w)'
  <2>1. /\ ring' = ring /\ received' = received /\ used' = used /\ alive' = alive
        /\ buf_wr_i' = buf_wr_i /\ offered' = offered + n /\ writes' = writes
        /\ call' = [call EXCEPT ![w] = [i \in 1 .. n |-> offered + i]]
        /\ alive[w] /\ call[w] = None /\ n \in Nat
    BY <1>1 DEF WriteCall
  <2>2. buf_wr_i = 0 /\ offered = Len(received) + writes
    BY <2>1 DEF PipeInv, Offers
  <2>3. call'[w] = [i \in 1 .. n |-> offered + i]
    BY <1>0, <2>1 DEF TypeOK
  <2>4. Len(call'[w]) = n /\ call'[w] \in Seq(Nat)
    <3>1. n \in Nat /\ \A i \in 1 .. n : offered + i \in Nat
      BY <1>0, <2>1
    <3>2. call'[w] \in [1 .. n -> Nat]
      BY ONLY <2>3, <3>1
    <3> QED
      BY ONLY <3>1, <3>2
  <2>5. call'[w] # None
    BY <1>0, <2>4 DEF TypeOK
  <2>6. Offers(w)'
    BY <1>0, <2>1, <2>2, <2>3, <2>4, <2>5 DEF Offers
  <2> QED
    BY <2>1, <2>6, <1>q, <1>u DEF PipeInv
<1>2. CASE WriteByte(w)
  <2>1. /\ inside = w /\ buf_wr_i < Len(call[w]) /\ writes # Size
        /\ data' = [data EXCEPT ![Wrapped(wr_i)] = call[w][buf_wr_i + 1]]
        /\ buf_wr_i' = buf_wr_i + 1 /\ writes' = writes + 1
        /\ UNCHANGED <<rd_i, call, alive, used, offered, received>>
    BY <1>2 DEF WriteByte
  <2>2. alive[w] /\ call[w] # None /\ Len(call[w]) \in Nat
    <3>1. call[w] \in Seq(Nat) /\ alive[w]
      BY <1>0, <2>1 DEF TypeOK
    <3>2. call[w] # None
      BY <3>1
    <3> QED
      BY <3>1, <3>2
  <2>3. /\ offered = Len(received) + writes + Len(call[w]) - buf_wr_i
        /\ \A i \in 1 .. Len(call[w]) : call[w][i] = Len(received) + writes + i - buf_wr_i
    BY <2>2 DEF PipeInv, Offers
  <2>4. call[w][buf_wr_i + 1] = Len(received) + writes + 1
    BY <1>0, <2>1, <2>2, <2>3
  <2>5. Follows'
    <3>1. \A i \in 1 .. writes' : Slot(i)' = Slot(i)
      BY <2>1 DEF Slot
    <3>2. Slot(writes + 1) \in 0 .. Size - 1
      BY <1>0, <2>1, SlotIs DEF RingOK
    <3>3. data'[Slot(writes + 1)] = Len(received) + (writes + 1)
      <4>1. Wrapped(wr_i) = Slot(writes + 1) /\ data \in [0 .. Size - 1 -> Nat]
        BY <2>1, SlotOfNext DEF TypeOK
      <4>2. data'[Slot(writes + 1)] = call[w][buf_wr_i + 1]
        BY <2>1, <3>2, <4>1
      <4> QED
        BY <1>0, <2>4, <4>2
    <3>4. ASSUME NEW i \in 1 .. writes PROVE data'[Slot(i)] = Len(received) + i
      <4>1. i \in 1 .. Size /\ Slot(i) # Slot(writes + 1)
        BY <2>1, SlotOfNext, <1>0 DEF RingOK
      <4>2. Slot(i) \in 0 .. Size - 1
        BY <4>1, SlotIs
      <4>3. data'[Slot(i)] = data[Slot(i)]
        BY <2>1, <4>1, <4>2, SlotOfNext DEF TypeOK
      <4> QED
        BY <4>3 DEF PipeInv, Follows
    <3>5. \A i \in 1 .. writes' : i \in 1 .. writes \/ i = writes + 1
      BY <1>0, <2>1
    <3> QED
      BY <2>1, <3>1, <3>3, <3>4, <3>5 DEF Follows
  <2>6. Offers(w)'
    <3>1. buf_wr_i' <= Len(call'[w]) /\ call'[w] # None
      BY <1>0, <2>1, <2>2
    <3>2. offered' = Len(received') + writes' + Len(call'[w]) - buf_wr_i'
      <4>1. offered' = offered /\ Len(received') = Len(received) /\ Len(call'[w]) = Len(call[w])
        BY <2>1
      <4>2. writes' = writes + 1 /\ buf_wr_i' = buf_wr_i + 1
        BY <2>1
      <4> DEFINE taken == Len(received)
                 length == Len(call[w])
      <4>3. writes \in Nat /\ buf_wr_i \in Nat /\ taken \in Nat /\ length \in Nat
        BY <1>0, <2>2
      <4>4. offered = taken + writes + length - buf_wr_i
        BY <2>3
      <4>5. offered' = offered /\ Len(received') = taken /\ Len(call'[w]) = length
        BY <4>1
      <4> HIDE DEF taken, length
      <4>6. offered = taken + (writes + 1) + length - (buf_wr_i + 1)
        BY ONLY <4>3, <4>4
      <4> QED
        BY ONLY <4>2, <4>5, <4>6
    <3>3. ASSUME NEW i \in 1 .. Len(call'[w])
          PROVE  call'[w][i] = Len(received') + writes' + i - buf_wr_i'
      BY <1>0, <2>1, <2>2, <2>3
    <3> QED
      BY <3>1, <3>2, <3>3 DEF Offers
  <2> QED
    BY <2>1, <2>5, <2>6, <1>u DEF PipeInv
<1>3. CASE WriteEnds(w)
  <2>1. /\ inside = w /\ buf_wr_i >= Len(call[w]) /\ buf_wr_i' = 0
        /\ call' = [call EXCEPT ![w] = None]
        /\ UNCHANGED <<ring, alive, used, offered, received>>
    BY <1>3 DEF WriteEnds, Returns
  <2>2. alive[w] /\ call[w] # None /\ Len(call[w]) \in Nat
    <3>1. call[w] \in Seq(Nat) /\ alive[w]
      BY <1>0, <2>1 DEF TypeOK
    <3>2. call[w] # None
      BY <3>1
    <3> QED
      BY <3>1, <3>2
  <2>3. offered = Len(received) + writes + Len(call[w]) - buf_wr_i /\ buf_wr_i <= Len(call[w])
    BY <2>2 DEF PipeInv, Offers
  <2>4. call'[w] = None
    BY <1>0, <2>1 DEF TypeOK
  <2>5. offered' = Len(received') + writes'
    <3>1. offered' = offered /\ Len(received') = Len(received) /\ writes' = writes
      BY <2>1
    <3>2. Len(call[w]) = buf_wr_i
      BY ONLY <1>0, <2>1, <2>2, <2>3
    <3> QED
      BY ONLY <1>0, <2>2, <2>3, <3>1, <3>2
  <2> QED
    BY <2>1, <2>4, <2>5, <1>q, <1>u DEF PipeInv, Offers
<1>4. CASE ReadByte(r)
  <2>1. /\ inside = r /\ writes > 0 /\ rd_i' = Wrapped(rd_i) + 1 /\ writes' = writes - 1
        /\ call' = [call EXCEPT ![r] = Append(@, data[Wrapped(rd_i)])]
        /\ received' = Append(received, data[Wrapped(rd_i)])
        /\ UNCHANGED <<data, buf_wr_i, alive, used, offered>>
    BY <1>4 DEF ReadByte
  <2>2. Len(received') = Len(received) + 1
    BY <2>1 DEF TypeOK
  <2>3. Follows'
    <3>1. ASSUME NEW i \in 1 .. writes' PROVE data'[Slot(i)'] = Len(received') + i
      <4>1. i \in 1 .. writes - 1 /\ i + 1 \in 1 .. writes
        BY <1>0, <2>1
      <4>2. Slot(i)' = Slot(i + 1)
        BY <2>1, <4>1, SlotOfFirst
      <4>3. data[Slot(i + 1)] = Len(received) + (i + 1)
        BY <4>1 DEF PipeInv, Follows
      <4> QED
        BY <1>0, <2>1, <2>2, <4>2, <4>3
    <3> QED
      BY <3>1 DEF Follows
  <2>4. Len(received') + writes' = Len(received) + writes /\ call'[w] = call[w]
    BY <1>0, <2>1, <2>2 DEF TypeOK
  <2>5. Offers(w)'
    BY <1>0, <2>1, <2>4 DEF PipeInv, Offers
  <2> QED
    BY <2>1, <2>3, <2>5, <1>u DEF PipeInv
<1>5. ASSUME NEW p \in Procs, EndUses(p) PROVE PipeInv(w)'
  <2>1. /\ alive[p] /\ alive' = [alive EXCEPT ![p] = FALSE]
        /\ call' = [call EXCEPT ![p] = None] /\ used' = [used EXCEPT ![FdOf[p]] = @ - 1]
        /\ UNCHANGED <<ring, locks, offered, received>>
    BY <1>5 DEF EndUses, Leaves
  <2>2. Offers(w)'
    <3>1. CASE p = w
      BY <1>0, <2>1, <3>1 DEF Offers, TypeOK
    <3>2. CASE p # w
      <4>1. call'[w] = call[w] /\ alive'[w] = alive[w]
        BY <1>0, <2>1, <3>2 DEF TypeOK
      <4> QED
        BY <2>1, <4>1 DEF PipeInv, Offers
    <3> QED
      BY <3>1, <3>2
  <2>3. UsesLeft'
    <3>1. ASSUME NEW q \in Procs, used'[FdOf[q]] = 0
          PROVE  \E o \in Procs : FdOf[o] = FdOf[q] /\ ~alive'[o]
      <4>1. ~alive'[p] /\ \A o \in Procs : ~alive[o] => ~alive'[o]
        BY <2>1 DEF TypeOK
      <4>2. CASE FdOf[q] = FdOf[p]
        BY <4>1, <4>2
      <4>3. CASE FdOf[q] # FdOf[p]
        <5>1. used[FdOf[q]] = 0
          BY <2>1, <3>1, <4>3 DEF TypeOK
        <5> QED
          BY <4>1, <5>1 DEF PipeInv, UsesLeft
      <4> QED
        BY <4>2, <4>3
    <3> QED
      BY <3>1 DEF UsesLeft
  <2> QED
    BY <2>1, <2>2, <2>3, <1>q DEF PipeInv
<1>6. ASSUME NEW p \in Procs, EndCloses(p) PROVE PipeInv(w)'
  <2>1. /\ alive[p] /\ alive' = [alive EXCEPT ![p] = FALSE] /\ used[FdOf[p]] = 0
        /\ writes' = 0 /\ used' = used
    BY <1>6 DEF EndCloses, Leaves
  <2>2. \A o \in Procs : ~alive[o] => ~alive'[o]
    BY <2>1 DEF TypeOK
  <2>3. ~alive'[w]
    <3>1. PICK q \in Procs : FdOf[q] = FdOf[p] /\ ~alive[q]
      BY <2>1 DEF PipeInv, UsesLeft
    <3>2. p # q /\ (p = w \/ q = w)
      BY <1>0, <2>1, <3>1
    <3> QED
      BY <2>1, <2>2, <3>1, <3>2 DEF TypeOK
  <2>4. Follows' /\ Offers(w)'
    BY <2>1, <2>3 DEF Follows, Offers
  <2>5. UsesLeft'
    BY <2>1, <2>2 DEF PipeInv, UsesLeft
  <2> QED
    BY <2>4, <2>5 DEF PipeInv
<1>7. ASSUME UNCHANGED <<ring, buf_wr_i, received, env>>, call'[w] = call[w] PROVE PipeInv(w)'
  BY <1>7, <1>q, <1>o, <1>u DEF PipeInv
<1>8. CASE EnterWrite(w) \/ WriteBlocks(w)
  BY <1>7, <1>8 DEF EnterWrite, WriteBlocks
<1>9. CASE ReadCall(r) \/ EnterRead(r) \/ ReadFindsNothing(r) \/ ReadBlocks(r) \/ ReadEnds(r)
  <2>1. call'[w] = call[w]
    BY <1>0, <1>9 DEF ReadCall, EnterRead, ReadFindsNothing, ReadBlocks, ReadEnds, Returns, TypeOK
  <2>2. UNCHANGED <<ring, buf_wr_i, received, env>>
    BY <1>9 DEF ReadCall, EnterRead, ReadFindsNothing, ReadBlocks, ReadEnds
  <2> QED
    BY <2>1, <2>2, <1>7
<1>10. CASE UNCHANGED vars
  BY <1>7, <1>10 DEF vars
<1>11. Next =>
         \/ \E n \in WriteSizes : WriteCall(w, n)
         \/ EnterWrite(w) \/ WriteBlocks(w) \/ WriteByte(w) \/ WriteEnds(w)
         \/ ReadCall(r) \/ EnterRead(r) \/ ReadFindsNothing(r) \/ ReadBlocks(r) \/ ReadEnds(r)
         \/ ReadByte(r)
         \/ \E p \in Procs : EndUses(p) \/ EndCloses(p)
  BY DEF Next, Write, Read, End
<1> QED
  BY <1>1, <1>2, <1>3, <1>4, <1>5, <1>6, <1>8, <1>9, <1>10, <1>11

(* What BytePipe calls the pipe *)
InOrder ==
  /\ Contents \in Seq(Nat) /\ Len(Contents) = writes
  /\ \A i \in 1 .. writes : Contents[i] = data[Slot(i)]

LEMMA ContentsIs == TypeOK /\ RingOK => InOrder
<1> SUFFICES ASSUME TypeOK, RingOK PROVE InOrder
  OBVIOUS
<1>1. writes \in Nat /\ \A i \in 1 .. writes : i \in 1 .. Size
  BY FifoAssumption DEF TypeOK, RingOK
<1>2. \A i \in 1 .. writes : Slot(i) \in 0 .. Size - 1
  BY <1>1, SlotIs
<1>3. Contents = [i \in 1 .. writes |-> data[Slot(i)]]
  BY DEF Contents, Slot
<1>4. \A i \in 1 .. writes : data[Slot(i)] \in Nat
  BY <1>2 DEF TypeOK
<1>5. Contents \in [1 .. writes -> Nat]
  BY ONLY <1>3, <1>4
<1> QED
  BY ONLY <1>1, <1>3, <1>5 DEF InOrder

(* A sequence is known by its length and its elements. *)
LEMMA SameSeq ==
  ASSUME NEW s \in Seq(Nat), NEW t \in Seq(Nat), Len(s) = Len(t),
         \A i \in 1 .. Len(s) : s[i] = t[i]
  PROVE  s = t
  OBVIOUS

LEMMA StepIsPipes ==
  ASSUME NEW w, Writers = {w}, NEW r, Readers = {r},
         TypeOK, RingOK, PipeInv(w), TypeOK', RingOK', PipeInv(w)', [Next]_vars,
         inside = r /\ MoreToRead(r) => writes > 0
  PROVE  [Pipe!Put \/ Pipe!Take \/ Pipe!Close]_<<Contents, received>>
<1>i. InOrder /\ InOrder'
  BY ContentsIs, PTL
<1>0. /\ writes \in Nat /\ received \in Seq(Nat) /\ Len(received) \in Nat
      /\ Contents \in Seq(Nat) /\ Len(Contents) = writes
      /\ Contents' \in Seq(Nat) /\ Len(Contents') = writes'
  <2>1. writes \in Nat /\ received \in Seq(Nat)
    BY DEF TypeOK, RingOK
  <2>2. Contents' \in Seq(Nat) /\ Len(Contents') = writes'
    BY <1>i DEF InOrder
  <2> QED
    BY <1>i, <2>1, <2>2 DEF InOrder
<1>1. \A i \in 1 .. writes : Contents[i] = Len(received) + i
  BY <1>i DEF InOrder, PipeInv, Follows
<1>2. \A i \in 1 .. writes' : Contents'[i] = Len(received') + i
  <2>1. \A i \in 1 .. writes' : Contents'[i] = data'[Slot(i)']
    BY <1>i DEF InOrder
  <2>2. \A i \in 1 .. writes' : data'[Slot(i)'] = Len(received') + i
    BY DEF PipeInv, Follows
  <2> QED
    BY <2>1, <2>2
<1>3. CASE WriteByte(w)
  <2>1. writes < Size /\ writes' = writes + 1 /\ received' = received
    BY <1>3, FifoAssumption DEF WriteByte, RingOK
  <2>2. Contents' = Append(Contents, Len(received) + Len(Contents) + 1)
    <3> DEFINE t == Append(Contents, Len(received) + Len(Contents) + 1)
    <3>1. t \in Seq(Nat) /\ Len(t) = writes + 1
      BY <1>0
    <3>2. ASSUME NEW i \in 1 .. writes + 1 PROVE t[i] = Len(received) + i
      <4>1. t[i] = IF i <= writes THEN Contents[i] ELSE Len(received) + writes + 1
        BY <1>0
      <4> HIDE DEF t
      <4>2. i \in 1 .. writes \/ (i = writes + 1 /\ ~(i <= writes))
        BY <1>0
      <4>3. CASE i \in 1 .. writes
        BY <1>0, <1>1, <4>1, <4>3
      <4>4. CASE i = writes + 1 /\ ~(i <= writes)
        BY <1>0, <4>1, <4>4
      <4> QED
        BY <4>2, <4>3, <4>4
    <3> HIDE DEF t
    <3>3. \A i \in 1 .. Len(Contents') : Contents'[i] = t[i]
      BY <1>0, <1>2, <2>1, <3>2
    <3>4. Contents' = t
      BY ONLY <1>0, <2>1, <3>1, <3>3, SameSeq
    <3> QED
      BY <3>4 DEF t
  <2> QED
    BY <1>0, <2>1, <2>2 DEF Pipe!Put
<1>4. CASE ReadByte(r)
  <2>1. /\ writes > 0 /\ writes' = writes - 1 /\ rd_i' = Wrapped(rd_i) + 1
        /\ received' = Append(received, data[Wrapped(rd_i)])
    BY <1>4 DEF ReadByte
  <2>2. data[Wrapped(rd_i)] = Head(Contents)
    <3>1. 1 \in 1 .. writes /\ Wrapped(rd_i) = Slot(1)
      BY <1>0, <2>1, SlotOfFirst
    <3>2. Contents[1] = data[Slot(1)]
      BY <1>i, <3>1 DEF InOrder
    <3> QED
      BY <1>0, <2>1, <3>1, <3>2
  <2>3. Contents' = Tail(Contents)
    <3>1. Tail(Contents) \in Seq(Nat) /\ Len(Tail(Contents)) = writes - 1
      BY <1>0, <2>1
    <3>2. ASSUME NEW i \in 1 .. writes - 1 PROVE Tail(Contents)[i] = Len(received) + i + 1
      <4>1. Tail(Contents)[i] = Contents[i + 1] /\ i + 1 \in 1 .. writes
        BY <1>0, <2>1
      <4> QED
        BY <1>0, <1>1, <4>1
    <3>3. Len(received') = Len(received) + 1
      BY <2>1 DEF TypeOK
    <3>4. \A i \in 1 .. Len(Contents') : Contents'[i] = Tail(Contents)[i]
      BY <1>0, <1>2, <2>1, <3>2, <3>3
    <3> QED
      BY ONLY <1>0, <2>1, <3>1, <3>4, SameSeq
  <2>4. Contents # << >>
    BY <1>0, <2>1
  <2> QED
    BY <2>1, <2>2, <2>3, <2>4 DEF Pipe!Take
<1>5. ASSUME NEW p \in Procs, EndCloses(p) PROVE Pipe!Close
  <2>1. writes' = 0 /\ received' = received
    BY <1>5 DEF EndCloses, Leaves
  <2>2. Contents' = << >>
    BY <1>0, <2>1
  <2> QED
    BY <2>1, <2>2 DEF Pipe!Close
<1>6. ASSUME UNCHANGED <<ring, received>> PROVE UNCHANGED <<Contents, received>>
  BY <1>6 DEF Contents
<1>7. UNCHANGED vars \/ Next
      => \/ WriteByte(w) \/ ReadByte(r) \/ (\E p \in Procs : EndCloses(p))
         \/ UNCHANGED <<ring, received>>
  BY DEF Next, Write, Read, End, vars, WriteCall, EnterWrite, WriteBlocks, WriteEnds, Returns,
         ReadCall, EnterRead, ReadFindsNothing, ReadBlocks, ReadEnds, EndUses, Leaves
<1> QED
  BY <1>3, <1>4, <1>5, <1>6, <1>7

(* With one writer, and one reader that asks for a divisor of the size of  *)
(* the ring, the fifo is a pipe: every step of fifo.c puts the next byte   *)
(* of the stream, takes the oldest, closes, or does neither, whatever      *)
(* blocks and is repeated, and whoever is killed.                          *)
THEOREM IsPipeCorrect ==
  ASSUME NEW w, Writers = {w}, NEW r, Readers = {r},
         NEW n \in Nat \ {0}, NEW m \in Nat, Size = m * n, ReadSize[r] = n
  PROVE  Spec => IsPipe
<1> DEFINE Inv == TypeOK /\ RingInv(n) /\ PipeInv(w)
<1>0. \A q \in Readers : ReadSize[q] = n
  OBVIOUS
<1>1. TypeOK /\ RingInv(n) /\ inside = r /\ MoreToRead(r) => writes > 0
  BY <1>0, ReadsWritten
<1>2. Init => Inv
  BY FifoInitType, RingInit, PipeStart
<1>3. Inv /\ [Next]_vars => Inv'
  <2> SUFFICES ASSUME Inv, [Next]_vars PROVE Inv'
    OBVIOUS
  <2>1. TypeOK' /\ RingInv(n)'
    BY <1>0, FifoStepType, RingStep
  <2>2. RingOK
    BY DEF RingInv
  <2>3. PipeInv(w)'
    BY <1>1, <2>1, <2>2, PipeStep
  <2> QED
    BY <2>1, <2>3
<1>4. Init => Pipe!Init
  <2> SUFFICES ASSUME Init PROVE Pipe!Init
    OBVIOUS
  <2>1. TypeOK /\ RingOK /\ writes = 0 /\ received = << >>
    BY FifoInitType, RingInit DEF Init, Fresh, RingInv
  <2>2. Contents = << >>
    BY <2>1, ContentsIs DEF InOrder
  <2> QED
    BY <2>1, <2>2 DEF Pipe!Init
<1>5. Inv /\ Inv' /\ [Next]_vars => [Pipe!Put \/ Pipe!Take \/ Pipe!Close]_<<Contents, received>>
  <2> SUFFICES ASSUME Inv, Inv', [Next]_vars
               PROVE  [Pipe!Put \/ Pipe!Take \/ Pipe!Close]_<<Contents, received>>
    OBVIOUS
  <2>1. RingOK /\ RingOK'
    BY DEF RingInv
  <2> QED
    BY <1>1, <2>1, StepIsPipes
<1> QED
  BY <1>2, <1>3, <1>4, <1>5, PTL DEF Spec, IsPipe, Pipe!Spec
=============================================================================
