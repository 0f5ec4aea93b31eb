----------------------------- MODULE Scheduler -----------------------------
(***************************************************************************)
(* The process table and the scheduler of the kernel: kernel/scheduler.c,  *)
(* kernel/signals.c, the scheduler's system calls of kernel/kernel.c and   *)
(* their stubs in kernel/libasm.asm, libs/queue.c and libs/pqueue.c, and   *)
(* the queue of blocked readers of kernel/tty_context.c.                   *)
(*                                                                         *)
(* One CPU.  System calls and interrupt handlers run with interrupts off,  *)
(* so each is one step, unless it loops: then it pushes a frame on         *)
(* `frames', and while frames is not empty only the loop runs.  Programs   *)
(* and process_cleaner run with interrupts on: the timer, the RTC and the  *)
(* keyboard may act between any two of their steps.                        *)
(***************************************************************************)
EXTENDS Integers, Sequences, FiniteSetsExt

CONSTANTS
  ProcMax,     \* PROCESS_MAX, the slots of process_pool
  NTty,        \* shells started by idle_main
  PQSize,      \* size given to pqueue_init: queues 0..PQSize
  MaxPrio,     \* greatest priority PSETP accepts
  MaxPid,      \* bound: pids handed out by a behaviour
  SleepTimes,  \* bound: RTC ticks a program asks sleep() for
  MaxSpare,    \* bound: no signal is sent while the count of spare slots,
               \* which signals inflate, is above it
  Calls        \* bound: what programs and the user do in this instance

ASSUME ConstantsAssumption ==
  /\ ProcMax \in Nat /\ NTty \in Nat /\ ProcMax > NTty + 1
  /\ PQSize \in Nat /\ MaxPrio \in Nat /\ MaxPrio < PQSize
  /\ MaxPid \in Nat
  /\ SleepTimes \subseteq Nat /\ MaxSpare \in Nat
  /\ Calls \subseteq {"pcreate", "exit", "waitpid", "sleep", "read", "kill",
                      "ctrl-c", "setp", "rr", "priority"}

Slots == 0 .. ProcMax - 1
Idle  == 0                       \* create_process("idle") takes slot 0, pid 0
Ttys  == 1 .. NTty
Prios == 0 .. MaxPrio
Levels == 0 .. PQSize            \* the indices of the array of pqueue.c
Ready  == PQSize + 1             \* a name for ready_queue among them
Queues == 0 .. PQSize + 1

VARIABLES
  pid, ppid, state, priority, is_tty, sleeptime, waitpid, wait_queue,
               \* the fields of process_pool[s]
  pc,          \* where the code of slot s is: in its program or in its exit
  held,        \* process_cleaner's local p: the waiter it is waking
  target,      \* the queue that its sched_enqueue(p) has chosen
  started,     \* prun was called (or create_process enqueued it)
  current, sched_mode, ready_queue, queues, read_pblocks,
               \* a queue is its entries from read_ptr to write_ptr
  uncounted,   \* for each ready queue, the processes (their pids) that have
               \* stored an entry in it and not yet added 1 to its count
  available,   \* _processes_available
  pid_seed,    \* _pid_seed
  frames       \* the kernel loops in progress, innermost first

table  == <<pid, ppid, priority, is_tty>>
waits  == <<sleeptime, waitpid, wait_queue>>
marks  == <<pc, held, started, target>>
queued == <<ready_queue, queues, uncounted>>
cpu    == <<current, sched_mode, queued>>
pool   == <<read_pblocks, available, pid_seed>>
vars   == <<table, state, waits, marks, cpu, pool, frames>>

States == {"free", "zombie", "blocked", "ready", "running"}
PCs    == {"user", "yield", "drain", "take", "wake", "push", "store", "bump",
           "zombify", "count", "last", "gone"}
Modes  == {"rr", "priority"}
Ops    == {"clean", "kids", "forget", "tick", "unlock", "move", "think",
           "spin", "fault"}
Frame(op, arg, i) == [op |-> op, arg |-> arg, i |-> i]
Frames == {f \in [op : Ops, arg : Nat, i : 0 .. ProcMax] :
             f.op = "unlock" => f.arg \in Ttys}

-----------------------------------------------------------------------------
(* libs/queue.c and libs/pqueue.c *)

\* queue_isfull, queue_contains: what makes queue_enqueue do nothing.
Refuses(q, s) == Len(q) = ProcMax \/ s \in Range(q)

\* queue_enqueue, with nobody in the middle of another.
Enqueue(q, s) == IF Refuses(q, s) THEN q ELSE Append(q, s)

\* The count of a ready queue is behind by the exits that stored an entry and
\* were interrupted before count++: q is queue l, and only its first entries
\* are seen by queue_isempty, queue_contains, queue_isfull and queue_dequeue.
Lag(l) == Cardinality(uncounted[l])
Counted(q, l) == SubSeq(q, 1, Len(q) - Lag(l))
EnqueueIn(q, l, s) == IF Refuses(Counted(q, l), s) THEN q ELSE Append(q, s)

\* pqueue_enqueue: the queue a process of this priority goes to.
LevelOf(s) == PQSize - priority[s]

ReadyPushed(s) ==
  IF sched_mode = "rr" THEN <<s>> \o ready_queue ELSE ready_queue

ReadyWith(s) ==
  IF sched_mode = "rr" THEN EnqueueIn(ready_queue, Ready, s) ELSE ready_queue
QueuesWith(s) ==
  IF sched_mode = "rr" THEN queues
  ELSE [queues EXCEPT ![LevelOf(s)] = EnqueueIn(@, LevelOf(s), s)]

\* sched_enqueue.
SchedEnqueue(s) ==
  /\ ready_queue' = ReadyWith(s)
  /\ queues' = QueuesWith(s)
  /\ UNCHANGED uncounted

SomeReady(rq) == Len(rq) > Lag(Ready)
NonEmpty(qs) == {l \in Levels : Len(qs[l]) > Lag(l)}
FirstLevel(qs) == Min(NonEmpty(qs))

UnrotatedTail(qs) == [qs EXCEPT ![FirstLevel(qs)] = Tail(@)]

\* pqueue_dequeue: rotate the array until queues[0] has an element, take it.
RotatedTail(qs) ==
  LET k == FirstLevel(qs) IN
  [l \in Levels |-> IF l = 0 THEN Tail(qs[k])
                    ELSE qs[(l + k) % (PQSize + 1)]]

\* The rotation moves the pointers: an exit in the middle of its enqueue keeps
\* its queue, which has another index now.
Renamed(qs) ==
  LET k == FirstLevel(qs) IN
  /\ uncounted' = [l \in Queues |-> IF l = Ready THEN uncounted[l]
                                    ELSE uncounted[(l + k) % (PQSize + 1)]]
  /\ target' = [x \in Slots |-> IF target[x] = Ready THEN Ready
                    ELSE (target[x] + (PQSize + 1 - k)) % (PQSize + 1)]

-----------------------------------------------------------------------------
SlotsOf(p) == {s \in Slots : state[s] # "free" /\ pid[s] = p}
\* process_getbypid, for a pid that is in the table
SlotOf(p)  == CHOOSE s \in SlotsOf(p) : TRUE
Dead(s)    == state[s] \in {"zombie", "free"}

FreeSlots  == {s \in Slots : Dead(s)}

\* process_getfree: scan from _pid_seed to the end, then from slot 1.
GetFree ==
  LET from  == IF pid_seed >= ProcMax - 1 THEN 0 ELSE pid_seed
      ahead == {s \in FreeSlots : s >= from}
  IN  Min(IF ahead # {} THEN ahead ELSE FreeSlots)

-----------------------------------------------------------------------------
\* The state idle_main leaves: the shells enqueued at priority 0, idle running.
Init ==
  /\ pid = [s \in Slots |-> IF s <= NTty THEN s ELSE 0]
  /\ ppid = [s \in Slots |-> 0]
  /\ state = [s \in Slots |-> IF s <= NTty THEN "ready" ELSE "free"]
  /\ priority = [s \in Slots |-> 0]
  /\ is_tty = [s \in Slots |-> s \in Ttys]
  /\ sleeptime = [s \in Slots |-> 0]
  /\ waitpid = [s \in Slots |-> 0]
  /\ wait_queue = [s \in Slots |-> <<>>]
  /\ pc = [s \in Slots |-> "user"]
  /\ held = [s \in Slots |-> Idle]
  /\ target = [s \in Slots |-> Ready]
  /\ started = [s \in Slots |-> s <= NTty]
  /\ current = Idle
  /\ sched_mode = "priority"
  /\ ready_queue = <<>>
  /\ queues = [l \in Levels |-> IF l = PQSize THEN [k \in Ttys |-> k] ELSE <<>>]
  /\ uncounted = [l \in Queues |-> {}]
  /\ read_pblocks = [t \in Ttys |-> <<>>]
  /\ available = ProcMax - (NTty + 1)
  /\ pid_seed = NTty + 1
  /\ frames = <<>>

InFrame(op) == frames # <<>> /\ Head(frames).op = op
Arg == Head(frames).arg

Preemptible == frames = <<>>
\* The current process is about to make a system call of its program.
InProgram == Preemptible /\ current # Idle /\ pc[current] = "user"
Call(name) == InProgram /\ name \in Calls

-----------------------------------------------------------------------------
(* scheduler_think *)

\* The process taken from the queue is dead: softyield() thinks again.
TookZombie(s) == state[s] = "zombie"

Requeues == state[current] = "running" /\ current # Idle

\* Give the CPU to s, which the requeueing `back' left in state st.
Dispatch(s) ==
  LET st == IF Requeues THEN [state EXCEPT ![current] = "ready"] ELSE state IN
  /\ current' = s
  /\ IF TookZombie(s)
     THEN state' = st /\ frames' = <<Frame("think", 0, 0)>>
     ELSE state' = [st EXCEPT ![s] = "running"] /\ frames' = <<>>

\* Its switch_tty is an action of module Terminal.
Think ==
  LET rq == IF Requeues THEN ReadyWith(current) ELSE ready_queue
      qs == IF Requeues THEN QueuesWith(current) ELSE queues
  IN
  /\ \/ /\ sched_mode = "rr" /\ SomeReady(rq)
        /\ Dispatch(Head(rq))
        /\ ready_queue' = Tail(rq) /\ queues' = qs
        /\ UNCHANGED <<uncounted, target>>
     \/ /\ sched_mode = "priority" /\ NonEmpty(qs) # {}
        /\ Dispatch(Head(qs[FirstLevel(qs)]))
        /\ ready_queue' = rq /\ queues' = RotatedTail(qs)
        /\ Renamed(qs)
     \/ /\ IF sched_mode = "rr" THEN ~SomeReady(rq) ELSE NonEmpty(qs) = {}
        /\ current' = Idle /\ frames' = <<>>
        /\ UNCHANGED <<state, queued, target>>
  /\ UNCHANGED <<table, waits, held, started, sched_mode, pool>>

\* The timer interrupt (IRQ0).
Timer == Preemptible /\ Think /\ UNCHANGED pc

\* _yield or softyield, called by a stub after a call that blocked, or at the
\* end of process_cleaner.
Yield ==
  /\ Preemptible /\ pc[current] \in {"yield", "last"}
  /\ Think
  /\ pc' = [pc EXCEPT ![current] = IF @ = "yield" THEN "user" ELSE "gone"]

\* The softyield() inside scheduler_think.
ThinkAgain ==
  /\ InFrame("think")
  /\ Think /\ UNCHANGED pc

-----------------------------------------------------------------------------
(* System calls of the running program *)

\* What a new process leaves as its slot had it: sleeptime, waitpid and any
\* entry of the slot in a queue.
PCreate ==
  LET c == GetFree IN
  /\ Call("pcreate") /\ pid_seed <= MaxPid
  /\ available # 0 /\ FreeSlots # {}
  /\ available' = available - 1
  /\ pid_seed' = pid_seed + 1
  /\ pid' = [pid EXCEPT ![c] = pid_seed]
  /\ ppid' = [ppid EXCEPT ![c] = pid'[current]]
  /\ priority' = [priority EXCEPT ![c] = priority[current]]
  /\ state' = [state EXCEPT ![c] = "ready"]
  /\ is_tty' = [is_tty EXCEPT ![c] = FALSE]
  /\ wait_queue' = [wait_queue EXCEPT ![c] = <<>>]
  /\ pc' = [pc EXCEPT ![c] = "user"]
  /\ started' = [started EXCEPT ![c] = FALSE]
  /\ UNCHANGED <<sleeptime, waitpid, held, target, cpu, read_pblocks, frames>>

Stuck(op) ==
  /\ frames' = <<Frame(op, 0, 0)>>
  /\ UNCHANGED <<table, state, waits, marks, cpu, pool>>

\* No slot is free but the count is not 0: process_getfree never returns.
PCreateSpins ==
  /\ Call("pcreate") /\ pid_seed <= MaxPid
  /\ available # 0 /\ FreeSlots = {}
  /\ Stuck("spin")

Halted ==
  /\ InFrame("spin") \/ InFrame("fault")
  /\ UNCHANGED vars

\* Programs run a child once, after pcreate (and pdup2).
PRun(c) ==
  /\ InProgram
  /\ ~started[c] /\ state[c] # "free" /\ ppid[c] = pid[current]
  /\ started' = [started EXCEPT ![c] = TRUE]
  /\ SchedEnqueue(c)
  /\ UNCHANGED <<table, state, waits, pc, held, target, current, sched_mode,
                 pool, frames>>

\* Programs wait for a child they ran (tty_main) or for themselves (smallhang).
WaitPid(c) ==
  /\ Call("waitpid")
  /\ started[c] /\ state[c] # "free"
  /\ IF is_tty[current] THEN ppid[c] = pid[current]
     ELSE ppid[c] = pid[current] \/ c = current
  /\ wait_queue' = [wait_queue EXCEPT ![c] = Enqueue(@, current)]
  /\ state' = [state EXCEPT ![current] = "blocked"]
  /\ waitpid' = [waitpid EXCEPT ![current] = pid[c]]
  /\ pc' = [pc EXCEPT ![current] = "yield"]
  /\ UNCHANGED <<table, sleeptime, held, started, target, cpu, pool, frames>>

Sleep(t) ==
  /\ Call("sleep")
  /\ state' = [state EXCEPT ![current] = "blocked"]
  /\ sleeptime' = [sleeptime EXCEPT ![current] = t]
  /\ pc' = [pc EXCEPT ![current] = "yield"]
  /\ UNCHANGED <<table, waitpid, wait_queue, held, started, target, cpu, pool,
                 frames>>

ReadUnblocked(t) ==
  /\ Call("read")
  /\ read_pblocks' = [read_pblocks EXCEPT ![t] = Enqueue(@, current)]
  /\ pc' = [pc EXCEPT ![current] = "yield"]
  /\ UNCHANGED <<table, state, waits, held, started, target, cpu, available,
                 pid_seed, frames>>

\* tty_read with nothing to read, on the context t that current_tty is (Terminal).
ReadBlock(t) ==
  /\ Call("read")
  /\ state' = [state EXCEPT ![current] = "blocked"]
  /\ read_pblocks' = [read_pblocks EXCEPT ![t] = Enqueue(@, current)]
  /\ pc' = [pc EXCEPT ![current] = "yield"]
  /\ UNCHANGED <<table, waits, held, started, target, cpu, available, pid_seed,
                 frames>>

\* Idle's priority is never read: it is never enqueued.
SetPriority(s, p) ==
  /\ Call("setp") /\ state[s] # "free" /\ s # Idle
  /\ priority' = [priority EXCEPT ![s] = p]
  /\ UNCHANGED <<pid, ppid, is_tty, state, waits, marks, cpu, pool, frames>>

SetSched(m) ==
  /\ Call(m)
  /\ sched_mode' = m
  /\ frames' = <<Frame("move", 0, 0)>>
  /\ UNCHANGED <<table, state, waits, marks, current, queued, pool>>

\* One turn of a loop of sched_set_mode: everything moves at priority 0.
MoveStep ==
  /\ InFrame("move")
  /\ \/ /\ sched_mode = "priority" /\ SomeReady(ready_queue)
        /\ ready_queue' = Tail(ready_queue)
        /\ queues' = [queues EXCEPT
                       ![PQSize] = EnqueueIn(@, PQSize, Head(ready_queue))]
        /\ UNCHANGED <<uncounted, target, frames>>
     \/ /\ sched_mode = "rr" /\ NonEmpty(queues) # {}
        /\ ready_queue' = EnqueueIn(ready_queue, Ready,
                                    Head(queues[FirstLevel(queues)]))
        /\ queues' = RotatedTail(queues) /\ Renamed(queues)
        /\ UNCHANGED frames
     \/ /\ IF sched_mode = "priority" THEN ~SomeReady(ready_queue)
           ELSE NonEmpty(queues) = {}
        /\ frames' = Tail(frames)
        /\ UNCHANGED <<queued, target>>
  /\ UNCHANGED <<table, state, waits, pc, held, started, current, sched_mode,
                 pool>>

-----------------------------------------------------------------------------
(* process_cleaner: a program that returns from main, interrupts on *)

\* The current process, in its exit or about to begin it, goes from a to b.
ExitTo(a, b) ==
  /\ Preemptible /\ current # Idle /\ pc[current] = a
  /\ pc' = [pc EXCEPT ![current] = b]
  /\ UNCHANGED <<table, sleeptime, waitpid, started, current, sched_mode,
                 read_pblocks, pid_seed, frames>>

ExitUndrained ==
  /\ ExitTo("user", "zombify") /\ "exit" \in Calls /\ ~is_tty[current]
  /\ UNCHANGED <<state, wait_queue, held, target, queued, available>>

\* The shells never return.
Exit ==
  /\ ExitTo("user", "drain") /\ "exit" \in Calls /\ ~is_tty[current]
  /\ UNCHANGED <<state, wait_queue, held, target, queued, available>>

\* while (!queue_isempty(wait_queue))
ExitDrain ==
  /\ ExitTo("drain", IF wait_queue[current] = <<>> THEN "zombify" ELSE "take")
  /\ UNCHANGED <<state, wait_queue, held, target, queued, available>>

\* p = queue_dequeue(wait_queue)
ExitTake ==
  /\ ExitTo("take", "wake")
  /\ wait_queue[current] # <<>>
  /\ held' = [held EXCEPT ![current] = Head(wait_queue[current])]
  /\ wait_queue' = [wait_queue EXCEPT ![current] = Tail(@)]
  /\ UNCHANGED <<state, target, queued, available>>

ExitWakeNoPush ==
  /\ ExitTo("wake", "drain")
  /\ state' = [state EXCEPT ![held[current]] = "ready"]
  /\ UNCHANGED <<wait_queue, held, target, queued, available>>

\* p->state = PROCESS_READY
ExitWake ==
  /\ ExitTo("wake", "push")
  /\ state' = [state EXCEPT ![held[current]] = "ready"]
  /\ UNCHANGED <<wait_queue, held, target, queued, available>>

\* sched_enqueue(p): the switch on the mode, and the queue it leads to
ExitPush ==
  /\ ExitTo("push", "store")
  /\ target' = [target EXCEPT ![current] =
                  IF sched_mode = "rr" THEN Ready ELSE LevelOf(held[current])]
  /\ UNCHANGED <<state, wait_queue, held, queued, available>>

\* queue_enqueue: data[write_ptr++] = p, unless the queue is full or has p
ExitStore ==
  LET l == target[current]
      p == held[current]
      q == IF l = Ready THEN ready_queue ELSE queues[l]
  IN
  /\ \/ /\ Refuses(Counted(q, l), p)
        /\ ExitTo("store", "drain")
        /\ target' = [target EXCEPT ![current] = Ready]
        /\ held' = [held EXCEPT ![current] = Idle]
        /\ UNCHANGED queued
     \/ /\ ~Refuses(Counted(q, l), p)
        /\ ExitTo("store", "bump")
        /\ ready_queue' = IF l = Ready THEN Append(q, p) ELSE ready_queue
        /\ queues' = IF l = Ready THEN queues
                     ELSE [queues EXCEPT ![l] = Append(q, p)]
        /\ uncounted' = [uncounted EXCEPT ![l] = @ \cup {pid[current]}]
        /\ UNCHANGED <<target, held>>
  /\ UNCHANGED <<state, wait_queue, available>>

\* count++
ExitBump ==
  /\ ExitTo("bump", "drain")
  /\ uncounted' = [uncounted EXCEPT ![target[current]] = @ \ {pid[current]}]
  /\ target' = [target EXCEPT ![current] = Ready]
  /\ held' = [held EXCEPT ![current] = Idle]
  /\ UNCHANGED <<state, wait_queue, ready_queue, queues, available>>

\* Its descriptors closed, current_process->state = PROCESS_ZOMBIE
ExitZombify ==
  /\ ExitTo("zombify", "count")
  /\ state' = [state EXCEPT ![current] = "zombie"]
  /\ UNCHANGED <<wait_queue, held, target, queued, available>>

\* _processes_available++; what is left is softyield()
ExitCount ==
  /\ ExitTo("count", "last")
  /\ available' = available + 1
  /\ UNCHANGED <<state, wait_queue, held, target, queued>>

\* The kernel writes through a NULL: that of process_getfree when the count of
\* spare slots is 0, or that of queue_dequeue when a signal has emptied the wait
\* queue since the test of the loop.
NoSpare == Call("pcreate") /\ pid_seed <= MaxPid /\ available = 0
TookNull == /\ Preemptible /\ current # Idle /\ pc[current] = "take"
            /\ wait_queue[current] = <<>>
Faults == (NoSpare \/ TookNull) /\ Stuck("fault")

-----------------------------------------------------------------------------
(* Signals: sg_handle and what it calls; softyield() does nothing here,    *)
(* because make_atomic() keeps scheduler_think from running.               *)

HandlerAnybody(s) == <<Frame("clean", pid[s], 0), Frame("kids", pid[s], 0)>>

\* sigkill_h and sigint_h, which are the same, for the process of slot s.
Handler(s) ==
  IF is_tty[s]
  THEN IF waitpid[s] = 0 THEN <<>>
       ELSE <<Frame("clean", waitpid[s], 0), Frame("forget", s, 0)>>
  ELSE <<Frame("clean", pid[s], 0), Frame("kids", pid[s], 0)>>

Signal(s) ==
  /\ available <= MaxSpare
  /\ frames' = Handler(s)
  /\ UNCHANGED <<table, state, waits, marks, cpu, pool>>

\* The KILL system call; pid 0 is refused.
Kill(s) ==
  /\ Call("kill")
  /\ state[s] # "free" /\ pid[s] # 0
  /\ Signal(s)

\* The keyboard interrupt sends SIGINT to the shell that has the keyboard.
CtrlC(s) ==
  /\ Preemptible /\ "ctrl-c" \in Calls /\ is_tty[s]
  /\ Signal(s)

\* One turn of the loop of process_cleanpid, or what follows the loop.
CleanStep ==
  /\ InFrame("clean")
  /\ \/ /\ SlotsOf(Arg) = {}
        /\ frames' = Tail(frames)
        /\ UNCHANGED <<state, wait_queue, queued, available>>
     \/ /\ SlotsOf(Arg) # {} /\ wait_queue[SlotOf(Arg)] # <<>>
        /\ LET s == SlotOf(Arg)
               p == Head(wait_queue[s])
           IN  /\ wait_queue' = [wait_queue EXCEPT ![s] = Tail(@)]
               /\ state' = [state EXCEPT ![p] = "ready"]
               /\ SchedEnqueue(p)
        /\ UNCHANGED <<frames, available>>
     \/ /\ SlotsOf(Arg) # {} /\ wait_queue[SlotOf(Arg)] = <<>>
        /\ state' = [state EXCEPT ![SlotOf(Arg)] = "zombie"]
        /\ available' = available + 1
        /\ frames' = Tail(frames)
        /\ UNCHANGED <<wait_queue, queued>>
  /\ UNCHANGED <<table, sleeptime, waitpid, marks, current, sched_mode,
                 read_pblocks, pid_seed>>

\* process_kill_children: its loop at slot i, and the handler it calls.
KidsStep ==
  /\ InFrame("kids")
  /\ LET i == Head(frames).i
         next == <<Frame("kids", Arg, i + 1)>> \o Tail(frames)
     IN  frames' = IF i = ProcMax THEN Tail(frames)
                   ELSE IF ~Dead(i) /\ ppid[i] = Arg /\ ppid[i] # 0
                   THEN Handler(i) \o next
                   ELSE next
  /\ UNCHANGED <<table, state, waits, marks, cpu, pool>>

\* The shell's current->waitpid = 0.
ForgetStep ==
  /\ InFrame("forget")
  /\ waitpid' = [waitpid EXCEPT ![Arg] = 0]
  /\ frames' = Tail(frames)
  /\ UNCHANGED <<table, state, sleeptime, wait_queue, marks, cpu, pool>>

-----------------------------------------------------------------------------
(* Interrupts other than the timer *)

SleepingAboveOne(s) == state[s] = "blocked" /\ sleeptime[s] > 1

Sleeping(s) == state[s] = "blocked" /\ sleeptime[s] > 0

Interrupt(op, arg) ==
  /\ frames' = <<Frame(op, arg, 0)>>
  /\ UNCHANGED <<table, state, waits, marks, cpu, pool>>

\* The RTC interrupt: scheduler_tick, which matters when somebody sleeps.
Tick == Preemptible /\ (\E s \in Slots : Sleeping(s)) /\ Interrupt("tick", 0)

TickStep ==
  /\ InFrame("tick")
  /\ LET i == Head(frames).i IN
     \/ /\ i = ProcMax
        /\ frames' = Tail(frames)
        /\ UNCHANGED <<state, sleeptime, queued>>
     \/ /\ i < ProcMax
        /\ frames' = <<Frame("tick", 0, i + 1)>> \o Tail(frames)
        /\ IF Sleeping(i)
           THEN /\ sleeptime' = [sleeptime EXCEPT ![i] = @ - 1]
                /\ IF sleeptime[i] = 1
                   THEN /\ state' = [state EXCEPT ![i] = "ready"]
                        /\ SchedEnqueue(i)
                   ELSE UNCHANGED <<state, queued>>
           ELSE UNCHANGED <<state, sleeptime, queued>>
  /\ UNCHANGED <<table, waitpid, wait_queue, marks, current, sched_mode, pool>>

\* A key for context t: pushC, or Ctrl-N, empties its queue of blocked readers.
KeyPress(t) ==
  /\ Preemptible /\ read_pblocks[t] # <<>>
  /\ Interrupt("unlock", t)

\* One turn of unlock_contexts; process_setready leaves the state "blocked".
UnlockStep ==
  /\ InFrame("unlock")
  /\ IF read_pblocks[Arg] = <<>>
     THEN frames' = Tail(frames) /\ UNCHANGED <<read_pblocks, queued>>
     ELSE /\ SchedEnqueue(Head(read_pblocks[Arg]))
          /\ read_pblocks' = [read_pblocks EXCEPT ![Arg] = Tail(@)]
          /\ UNCHANGED frames
  /\ UNCHANGED <<table, state, waits, marks, current, sched_mode, available,
                 pid_seed>>

-----------------------------------------------------------------------------
SysCall ==
  \/ PCreate \/ PCreateSpins
  \/ \E c \in Slots : PRun(c) \/ WaitPid(c) \/ Kill(c)
  \/ \E t \in SleepTimes : Sleep(t)
  \/ \E t \in Ttys : ReadBlock(t)
  \/ \E s \in Slots, p \in Prios : SetPriority(s, p)
  \/ \E m \in Modes : SetSched(m)

Cleaner == \/ Exit \/ ExitDrain \/ ExitTake \/ ExitWake
           \/ ExitPush \/ ExitStore \/ ExitBump
           \/ ExitZombify \/ ExitCount

KernelLoop == \/ ThinkAgain \/ MoveStep \/ CleanStep \/ KidsStep \/ ForgetStep
              \/ TickStep \/ UnlockStep

Next == \/ SysCall \/ Cleaner \/ KernelLoop \/ Faults \/ Halted
        \/ Timer \/ Yield \/ Tick
        \/ \E t \in Ttys : KeyPress(t) \/ CtrlC(t)

Spec == Init /\ [][Next]_vars

\* The timer and the RTC interrupt for ever; an interrupt that comes while they
\* are off is pending until they are on.  The kernel's loops run to their end.
Fairness == SF_vars(Timer) /\ SF_vars(Tick) /\ WF_vars(KernelLoop)
FairSpec == Spec /\ Fairness

-----------------------------------------------------------------------------
PidSets == {u \in SUBSET Nat : IsFiniteSet(u)}

\* The types of the kernel's variables.
TypeOK ==
  /\ pid \in [Slots -> Nat] /\ ppid \in [Slots -> Nat]
  /\ state \in [Slots -> States]
  /\ priority \in [Slots -> Prios]
  /\ is_tty \in [Slots -> BOOLEAN]
  /\ sleeptime \in [Slots -> Nat] /\ waitpid \in [Slots -> Nat]
  /\ wait_queue \in [Slots -> Seq(Slots)]
  /\ pc \in [Slots -> PCs]
  /\ held \in [Slots -> Slots]
  /\ target \in [Slots -> Queues]
  /\ started \in [Slots -> BOOLEAN]
  /\ current \in Slots
  /\ sched_mode \in Modes
  /\ ready_queue \in Seq(Slots)
  /\ queues \in [Levels -> Seq(Slots)]
  /\ uncounted \in [Queues -> PidSets]
  /\ read_pblocks \in [Ttys -> Seq(Slots)]
  /\ available \in Int /\ pid_seed \in Nat
  /\ frames \in Seq(Frames)

\* Only the process that has the CPU is RUNNING.
RunningIsCurrent ==
  \A s \in Slots : state[s] = "running" => s = current

InAQueue(s) == s \in Range(ready_queue) \/ \E l \in Levels : s \in Range(queues[l])

\* No signal and no exit ever takes a shell, or the idle process, away.
ShellsSurvive ==
  /\ \A s \in Slots : is_tty[s] => ~Dead(s)
  /\ state[Idle] = "ready" /\ ~InAQueue(Idle)

\* s waits for the CPU, nobody is about to enqueue it, and no dequeue of the
\* mode in use can come to it.
InUse(s) ==
  IF sched_mode = "rr" THEN s \in Range(Counted(ready_queue, Ready))
  ELSE \E l \in Levels : s \in Range(Counted(queues[l], l))
Unseen(s) ==
  /\ started[s] /\ state[s] = "ready" /\ s \notin {Idle, current}
  /\ ~InFrame("move") /\ ~InUse(s)
  /\ ~\E x \in Slots : pc[x] \in {"push", "store"} /\ held[x] = s

\* Without signals, the scheduler loses sight of a ready process only while an
\* exit is in the middle of its sched_enqueue: the mode changed after its
\* switch, or it has stored an entry that is not counted yet.
OnlyExitsStrand ==
  [][\A s \in Slots : Unseen(s)' /\ ~Unseen(s) =>
       \E x \in Slots : pc[x] \in {"store", "bump"}]_vars

\* Without signals, a process created with pcreate runs only after its prun:
\* no entry of a queue outlives the process it was made for.
RunsAfterPRun ==
  \A s \in Slots : state[s] = "running" => started[s]

\* x has not yet found its wait queue empty in its exit.
Serving == PCs \ {"zombify", "count", "last", "gone"}

\* Somebody will, or may, end the wait of s.
WakeSource(s) ==
  \/ sleeptime[s] > 0 \/ InAQueue(s)
  \/ \E t \in Ttys : s \in Range(read_pblocks[t])
  \/ \E x \in Slots : ~Dead(x) /\
       \/ s \in Range(wait_queue[x]) /\ pc[x] \in Serving
       \/ pc[x] = "wake" /\ held[x] = s
Abandoned(s) == state[s] = "blocked" /\ ~WakeSource(s)

\* t has drained its wait queue for good, or was dead before.
LateFor(t) == Dead(t) \/ pc[t] \in {"zombify", "count", "last"}

\* A blocked process loses its last source of a wake-up only by calling
\* waitpid for a child whose exit has already emptied its wait queue.
OnlyLateWaitsAreLost ==
  [][\A s \in Slots : ~Abandoned(s) /\ Abandoned(s)' =>
       s = current /\ \E t \in Slots : LateFor(t) /\ WaitPid(t)]_vars

\* A live process in the ready structure is given the CPU some day, whatever
\* the priorities of the others: the rotation of the array ages it.
ReadyRuns ==
  \A s \in Slots : (InAQueue(s) /\ ~Dead(s)) ~> (current = s)

\* A process that sleeps is made ready some day.
SleeperWakes ==
  \A s \in Slots :
    (state[s] = "blocked" /\ sleeptime[s] > 0) ~> (state[s] # "blocked")

=============================================================================
