-------------------------------- MODULE Fifo --------------------------------
(***************************************************************************)
(* One fifo of kernel/fifo.c: the ring of bytes, what it remembers of a    *)
(* call that blocked (the progress of the read and of the write, and one   *)
(* sleeper of each kind), the stubs of kernel/libasm.asm that repeat a     *)
(* call that blocked, and the part of fd_close that resets the fifo.       *)
(*                                                                         *)
(* A call runs with interrupts off: from the step that enters it until it  *)
(* blocks or returns, inside is the caller and nobody else moves.  The     *)
(* turns of its loop are steps.  Between two calls anybody may run.        *)
(***************************************************************************)
EXTENDS Integers, Sequences

CONSTANTS
  Size,        \* FIFO_DATA_SIZE
  Writers, Readers,
  ReadSize,    \* ReadSize[r]: what program r asks for in each read
  WriteSizes,  \* bound: the lengths of the messages programs write
  FdOf,        \* FdOf[p]: the entry of files[] that p holds
  MaxBytes,    \* bound: bytes offered to write; no read starts after as many
  Ends,        \* bound: how processes end in this instance
  None         \* NULL, no call, nobody

Procs == Writers \cup Readers
Fds   == {FdOf[p] : p \in Procs}

ASSUME FifoAssumption ==
  /\ Size \in Nat \ {0} /\ Writers # {} /\ Readers # {}
  /\ Writers \cap Readers = {} /\ None \notin Procs /\ None \notin Seq(Nat)
  /\ ReadSize \in [Readers -> Nat \ {0}]
  /\ WriteSizes \subseteq Nat /\ MaxBytes \in Nat
  /\ Ends \subseteq {"exit", "kill"}

VARIABLES
  data, wr_i, rd_i, writes,       \* the ring
  buf_wr_i, buf_rd_i,             \* progress of the call that blocked
  write_locked,                   \* a writer found the ring full
  wr_lck_p, rd_lck_p,             \* the sleepers to wake
  call,      \* call[p]: the message being written, the bytes read so far, or None
  asleep,    \* asleep[p]: blocked and not yet woken
  inside,    \* who is in the kernel
  alive,     \* alive[p]: p has not ended
  used,      \* files[fd].used
  offered,   \* bytes programs have asked to write, numbered from 1
  received   \* bytes stored in the readers' buffers, in order

ring  == <<data, wr_i, rd_i, writes>>
locks == <<buf_wr_i, buf_rd_i, write_locked, wr_lck_p, rd_lck_p>>
env   == <<alive, used, offered>>
vars  == <<ring, locks, call, asleep, inside, env, received>>

Zeroes == [i \in 0 .. Size - 1 |-> 0]

(* fifo_make, for a key no fifo has. *)
Fresh ==
  /\ data = Zeroes
  /\ wr_i = 0 /\ rd_i = 0 /\ writes = 0
  /\ buf_wr_i = 0 /\ buf_rd_i = 0 /\ write_locked = FALSE
  /\ wr_lck_p = None /\ rd_lck_p = None

(* fd_open counts one user of an entry, whoever the descriptor is then     *)
(* copied to: sched_pdup2 does not count.                                  *)
Init ==
  /\ Fresh
  /\ call = [p \in Procs |-> None]
  /\ asleep = [p \in Procs |-> FALSE]
  /\ alive = [p \in Procs |-> TRUE]
  /\ inside = None
  /\ used = [fd \in Fds |-> 1]
  /\ offered = 0 /\ received = << >>

(* process_setready on p (NULL: on nobody) *)
Awake(p) == [q \in Procs |-> asleep[q] /\ q # p]

(* getp()->state = PROCESS_BLOCKED and return SYSR_BLOCK, from a call that *)
(* woke p: the stub will repeat the call with the same arguments.          *)
Blocks(q, p) == inside' = None /\ asleep' = [Awake(p) EXCEPT ![q] = TRUE]

(* The rest of the stub: the call is over. *)
Returns(q) == inside' = None /\ call' = [call EXCEPT ![q] = None]

Wrapped(i) == IF i = Size THEN 0 ELSE i

-----------------------------------------------------------------------------
(* Programs *)

WriteCall(w, n) ==
  /\ inside = None /\ alive[w] /\ call[w] = None
  /\ offered + n <= MaxBytes
  /\ call' = [call EXCEPT ![w] = [i \in 1 .. n |-> offered + i]]
  /\ offered' = offered + n
  /\ UNCHANGED <<ring, locks, asleep, inside, alive, used, received>>

ReadCall(r) ==
  /\ inside = None /\ alive[r] /\ call[r] = None
  /\ Len(received) < MaxBytes
  /\ call' = [call EXCEPT ![r] = << >>]
  /\ UNCHANGED <<ring, locks, asleep, inside, env, received>>

(* int 80h, the first time or after the softyield of a call that blocked. *)
Entering(p) == inside = None /\ alive[p] /\ call[p] # None /\ ~asleep[p]

EnterWrite(w) ==
  /\ Entering(w)
  /\ inside' = w
  /\ UNCHANGED <<ring, locks, call, asleep, env, received>>

EnterRead(r) ==
  /\ Entering(r) /\ writes # 0
  /\ inside' = r
  /\ UNCHANGED <<ring, locks, call, asleep, env, received>>

ReadFindsNothing(r) ==
  /\ Entering(r) /\ writes = 0
  /\ rd_lck_p' = r
  /\ Blocks(r, None)
  /\ UNCHANGED <<ring, buf_wr_i, buf_rd_i, write_locked, wr_lck_p, call, env,
                 received>>

-----------------------------------------------------------------------------
(* fifo_write *)

(* The first test of a turn: wake the reader if there is something to read. *)
ReaderToWake == IF writes > 0 THEN rd_lck_p ELSE None

(* altered: the progress of the write is not kept *)
WriteBlocksForgets(w) ==
  /\ inside = w /\ buf_wr_i < Len(call[w]) /\ writes = Size
  /\ rd_lck_p' = None /\ write_locked' = TRUE /\ wr_lck_p' = w
  /\ Blocks(w, ReaderToWake)
  /\ buf_wr_i' = 0
  /\ UNCHANGED <<ring, buf_rd_i, call, env, received>>

WriteBlocks(w) ==
  /\ inside = w /\ buf_wr_i < Len(call[w]) /\ writes = Size
  /\ rd_lck_p' = None
  /\ write_locked' = TRUE
  /\ wr_lck_p' = w
  /\ Blocks(w, ReaderToWake)
  /\ UNCHANGED <<ring, buf_wr_i, buf_rd_i, call, env, received>>

WriteByte(w) ==
  /\ inside = w /\ buf_wr_i < Len(call[w]) /\ writes # Size
  /\ asleep' = Awake(ReaderToWake)
  /\ rd_lck_p' = IF writes > 0 THEN None ELSE rd_lck_p
  /\ write_locked' = FALSE
  /\ data' = [data EXCEPT ![Wrapped(wr_i)] = call[w][buf_wr_i + 1]]
  /\ wr_i' = Wrapped(wr_i) + 1
  /\ buf_wr_i' = buf_wr_i + 1
  /\ writes' = writes + 1
  /\ UNCHANGED <<rd_i, buf_rd_i, wr_lck_p, call, inside, env, received>>

WriteEnds(w) ==
  /\ inside = w /\ buf_wr_i >= Len(call[w])
  /\ buf_wr_i' = 0
  /\ asleep' = Awake(rd_lck_p)
  /\ rd_lck_p' = None
  /\ Returns(w)
  /\ UNCHANGED <<ring, buf_rd_i, write_locked, wr_lck_p, env, received>>

-----------------------------------------------------------------------------
(* fifo_read, after its first test *)

(* altered: one byte too many *)
MoreToReadOver(r) == buf_rd_i <= ReadSize[r] /\ (writes > 0 \/ write_locked)
MoreToRead(r) == buf_rd_i < ReadSize[r] /\ (writes > 0 \/ write_locked)

(* altered: the writer is not woken *)
ReadByteQuiet(r) ==
  /\ inside = r /\ MoreToRead(r)
  /\ ~(writes = 0 /\ buf_wr_i > 0)
  /\ call' = [call EXCEPT ![r] = Append(@, data[Wrapped(rd_i)])]
  /\ received' = Append(received, data[Wrapped(rd_i)])
  /\ rd_i' = Wrapped(rd_i) + 1 /\ buf_rd_i' = buf_rd_i + 1
  /\ writes' = writes - 1
  /\ UNCHANGED <<data, wr_i, buf_wr_i, write_locked, wr_lck_p, rd_lck_p, asleep,
                 inside, env>>

ReadByte(r) ==
  /\ inside = r /\ MoreToRead(r)
  /\ ~(writes = 0 /\ buf_wr_i > 0)
  /\ asleep' = Awake(IF writes > 0 THEN wr_lck_p ELSE None)
  /\ wr_lck_p' = IF writes > 0 THEN None ELSE wr_lck_p
  /\ call' = [call EXCEPT ![r] = Append(@, data[Wrapped(rd_i)])]
  /\ received' = Append(received, data[Wrapped(rd_i)])
  /\ rd_i' = Wrapped(rd_i) + 1
  /\ buf_rd_i' = buf_rd_i + 1
  /\ writes' = writes - 1
  /\ UNCHANGED <<data, wr_i, buf_wr_i, write_locked, rd_lck_p, inside, env>>

ReadBlocks(r) ==
  /\ inside = r /\ MoreToRead(r)
  /\ writes = 0 /\ buf_wr_i > 0
  /\ rd_lck_p' = r
  /\ Blocks(r, None)
  /\ UNCHANGED <<ring, buf_wr_i, buf_rd_i, write_locked, wr_lck_p, call, env,
                 received>>

ReadEnds(r) ==
  /\ inside = r /\ ~MoreToRead(r)
  /\ buf_rd_i' = 0
  /\ Returns(r)
  /\ UNCHANGED <<ring, buf_wr_i, write_locked, wr_lck_p, rd_lck_p, asleep, env,
                 received>>

-----------------------------------------------------------------------------
(* The end of a process closes its descriptor.  fd_close counts users down *)
(* to 0 and calls fifo_close only when it finds the count at 0 already.    *)

MayEnd(p) == "kill" \in Ends \/ ("exit" \in Ends /\ call[p] = None)

Leaves(p) ==
  /\ inside = None /\ alive[p] /\ MayEnd(p)
  /\ alive' = [alive EXCEPT ![p] = FALSE]
  /\ call' = [call EXCEPT ![p] = None]
  /\ UNCHANGED <<inside, offered, received>>

EndUses(p) ==
  /\ Leaves(p) /\ used[FdOf[p]] > 0
  /\ used' = [used EXCEPT ![FdOf[p]] = @ - 1]
  /\ asleep' = Awake(p)
  /\ UNCHANGED <<ring, locks>>

EndCloses(p) ==
  /\ Leaves(p) /\ used[FdOf[p]] = 0
  /\ asleep' = [q \in Procs |-> asleep[q] /\ q \notin {p, wr_lck_p, rd_lck_p}]
  /\ data' = Zeroes
  /\ wr_i' = 0 /\ rd_i' = 0 /\ writes' = 0
  /\ buf_wr_i' = 0 /\ buf_rd_i' = 0 /\ write_locked' = FALSE
  /\ wr_lck_p' = None /\ rd_lck_p' = None
  /\ UNCHANGED used

-----------------------------------------------------------------------------
Write(w) ==
  \/ \E n \in WriteSizes : WriteCall(w, n)
  \/ EnterWrite(w)
  \/ WriteBlocks(w)
  \/ WriteByte(w)
  \/ WriteEnds(w)

Read(r) ==
  \/ ReadCall(r)
  \/ EnterRead(r)
  \/ ReadFindsNothing(r)
  \/ ReadByte(r)
  \/ ReadBlocks(r)
  \/ ReadEnds(r)

End(p) == EndUses(p) \/ EndCloses(p)

Next ==
  \/ \E w \in Writers : Write(w)
  \/ \E r \in Readers : Read(r)
  \/ \E p \in Procs : End(p)

Spec == Init /\ [][Next]_vars

(* A process that is not asleep gets the CPU (ReadyRuns of Scheduler), and *)
(* a reader that returned reads again, as cat does.  A writer need not     *)
(* write again.                                                            *)
Fairness ==
  /\ \A w \in Writers : WF_vars(EnterWrite(w) \/ WriteBlocks(w) \/ WriteByte(w)
                                  \/ WriteEnds(w))
  /\ \A r \in Readers : WF_vars(Read(r))

FairSpec == Spec /\ Fairness

-----------------------------------------------------------------------------
(* The fields have their types, and no index leaves its array, whatever    *)
(* the programs do: the ring and the buffers are never overrun.            *)
TypeOK ==
  /\ data \in [0 .. Size - 1 -> Nat]
  /\ wr_i \in 0 .. Size /\ rd_i \in 0 .. Size
  /\ writes \in Int /\ writes <= Size
  /\ buf_wr_i \in Nat /\ buf_rd_i \in Nat
  /\ write_locked \in BOOLEAN
  /\ wr_lck_p \in Writers \cup {None} /\ rd_lck_p \in Readers \cup {None}
  /\ call \in [Procs -> Seq(Nat) \cup {None}]
  /\ asleep \in [Procs -> BOOLEAN] /\ alive \in [Procs -> BOOLEAN]
  /\ inside \in Procs \cup {None}
  /\ used \in [Fds -> Nat]
  /\ offered \in Nat /\ received \in Seq(Nat)
  /\ inside # None =>
       call[inside] \in Seq(Nat) /\ alive[inside] /\ ~asleep[inside]

(* No byte is read that was not written, and the three numbers that        *)
(* describe the ring agree: writes bytes lie between rd_i and wr_i.  For   *)
(* any number of readers that ask for the same amount, a divisor of Size,  *)
(* and any number of writers, with processes killed at any time.           *)
RingOK ==
  /\ writes \in 0 .. Size
  /\ wr_i - rd_i \in {writes, writes - Size, writes + Size}

(* The programs are never all blocked on the fifo: whatever wake-ups the   *)
(* two remembered sleepers lose when there are several readers or writers, *)
(* somebody is left to go on.                                              *)
NotAllAsleep == \E p \in Procs : ~asleep[p]

(* With one reader and one writer the fifo is a pipe, although both may    *)
(* block in the middle of a call and repeat it from the start, and either  *)
(* may end: the fifo is reset when no byte can be offered or read any more. *)
Contents == [i \in 1 .. writes |-> data[(rd_i + i - 1) % Size]]
Pipe == INSTANCE BytePipe WITH pipe <- Contents
IsPipe == Pipe!Spec

(* Every byte a program asks to write reaches a reader, if neither end is  *)
(* gone and the reader goes on reading: they do not wait for each other.   *)
BytesArrive ==
  \A n \in 1 .. MaxBytes :
    offered >= n ~> (Len(received) >= n \/ \E p \in Procs : ~alive[p])
=============================================================================
