# A TLA+ model of the Monix kernel

Monix is a small 32-bit teaching kernel (`src/src/`): a table of processes, a
preemptive scheduler with two modes, signals, six terminals with a shell each,
fifos, a disk cache and an ext2-like file system. One CPU, no memory
protection between programs and kernel. This directory holds the TLA+ modules
that model it, the TLC configurations that check them on small instances, and
proofs for every size of the constants.

    tlc  -config MCSchedExit.cfg MCScheduler.tla      # one run
    tlapm SchedulerProofs.tla                         # the proofs

## The system's parts

| Part | Source | State | Operations | Correct when |
|---|---|---|---|---|
| Process table and scheduler | `kernel/scheduler.c`, `libs/queue.c`, `libs/pqueue.c` | `process_pool`, `current_process`, `ready_queue`, `priority_queue`, `sched_mode`, `_processes_available`, `_pid_seed` | create, run, wait, sleep, exit, think, tick, set priority, set mode | who is ready is scheduled, nobody dead runs, waits end, slots are reused cleanly |
| Signals | `kernel/signals.c`, `process_cleanpid`, `process_kill_children` | handlers of each process | KILL, Ctrl-C | a kill ends the process and its children, and nothing else |
| Call gate and interrupts | `kernel/kernel.c`, `kernel/libasm.asm` | `kernel_buffer`, `krn`, `atomic` | int 80h, int 79h, IRQ0, IRQ1, RTC | a caller gets the result of its own call; a signal asked for is delivered once |
| Terminal contexts | `kernel/tty_context.c`, `kernel/tty.c` | character ring, `read_pblocks`, `current_tty`, `kb_tty` | key press, Ctrl-N, read | a reader gets the keys of its terminal, in order |
| Fifos | `kernel/fifo.c` | ring of bytes, four indices, one blocked reader and one blocked writer | make, read, write, close | bytes come out in the order they went in; nobody blocks for ever |
| Descriptors | `kernel/fd.c` | `files[]`, `used` counts | open, close, dup, read, write | a descriptor is live while somebody uses it |
| Disk cache | `kernel/fs/hdd.c` | 32 families of blocks, read/write counts | read, write, dispose, sync | a read returns the last write; no write is forgotten |
| File system | `kernel/fs/fs.c`, `bitmap.c` | bitmaps, inodes, directory entries | create, read, write, link, remove, copy, move | blocks belong to one inode, entries name live inodes |
| Users | `kernel/users.c` | user table | create, delete, login | identifiers are unique |
| Memory | `libs/malloc.c`, `libs/heap.c`, `kernel/paging.c` | free list, page directory | malloc, free, stack growth | blocks are disjoint |
| Library, video, disk driver, game | `libs/*`, `kernel/video.c`, `drivers/atadisk.c`, `software/*` | - | - | pure computation and I/O |

How they interact. Programs enter the kernel with `int 80h`; the handler runs
with interrupts off and writes its result in `kernel_buffer[15]`, which the
stub reads after interrupts are on again. A call that blocks only sets the
caller's state to BLOCKED and puts it in some queue; the stub then calls
`softyield()`. IRQ0 runs `scheduler_think`, the RTC `scheduler_tick`, the
keyboard `int_09`. Whoever ends a wait (a key, an exit, a tick, a kill, the
other end of a fifo) calls `sched_enqueue` on the process. The return from
`main` lands in `process_cleaner`, which runs as a program, with interrupts on.

What is hard: the steps of `process_cleaner` interleave with every interrupt
and every other program; the kernel's own data (`kernel_buffer`, the fifo
indices, the queues) are shared with no lock but disabled interrupts; slots of
the process table are recycled while queues still hold them; wake-ups that
come before, after or without the sleep they end; counters that drift;
caches that forget. `PROJECT.json` lists each hazard at its line.

## The modules

What everything else rests on came first.

1. `Scheduler`: the process table, the scheduler, signals and the wake-ups.
   `SchedulerProofs`.
2. `Fifo`: the byte ring and its two remembered sleepers; for one reader and one
   writer it implements `BytePipe`. `FifoProofs`.
3. `HddCache`: the cache over an abstract disk. `HddProofs`.
4. `Terminal`: contexts, the character ring, Ctrl-N and readers. `TerminalProofs`.
5. `Gate`: `kernel_buffer`, through which calls, their results and signals go.
   `GateProofs`.
6. `Descriptors`: the table of files, the tables of the processes, and the shell
   that joins programs with them. `DescriptorProofs`.
7. `FileSystem`: inodes, directories and the calls on names.
8. `FileBlocks`: the bytes of files in their blocks, which implements `Files`;
   `DiskLayout`: the places of inodes and blocks on the disk; `FileDisk`: the first
   on the second. `DiskProofs`.
9. `Users`: the users, their file, and restarts. `UsersProofs`.

How they compose. `FileDisk` extends `FileBlocks` and `DiskLayout` and runs them
together. The others meet at an assumption that one of them makes and another
shows: `Fifo`, `Terminal` and `Descriptors` let any process that is not blocked run,
as `ReadyRuns` of `Scheduler` says; `Fifo`'s stubs get the result of their own
call, which `Gate` says under which condition; `Descriptors` takes a fifo as a queue of
bytes, as `IsPipe` of `Fifo` allows; `FileDisk` and `Users` see the disk through its
cache, and say what a stop finds when the cache has been written back, which
`HddCache` says of the idle process and of which writes.

What the plan has left: `malloc.c`, and the winner detection of the game.

## Scheduler.tla

State. The fields of `process_pool[s]` are functions over `Slots`; -1 in
`state` is `"free"`. `current` is `current_process`; `ready_queue` and `queues`
are the queue of each mode, `queues[l]` being the array of `pqueue.c` as it is
rotated at the moment; `read_pblocks[t]` the blocked readers of a context.
`pc[s]` says where the code of a slot is: in its program, between a call that
blocked and its `softyield()` (`"yield"`), or at one of the steps of
`process_cleaner`. `held[s]` is `process_cleaner`'s local variable, `target[s]` the queue
that its `sched_enqueue` has chosen, and `uncounted[l]` the processes that have stored
an entry in queue l and not yet added 1 to its count: they are behind the entries
that `queue_isempty`, `queue_contains` and `queue_dequeue` see. `started[s]` is the one
variable the code has not: whether the process of the slot was ever given to
`sched_prun`.

Steps. A handler that does not loop is one action. One that loops pushes a
frame on `frames` and every turn of the loop is an action (`CleanStep`,
`KidsStep`, `ForgetStep`, `TickStep`, `UnlockStep`, `MoveStep`, `ThinkAgain`);
while there is a frame nothing else runs, as interrupts are off. Recursion of
`process_kill_children` through `sg_handle` is the stack of frames.
`process_cleaner` runs with interrupts on: each of its statements is an action, from the
test of the wait queue to the `count++` of the ready one (`Exit...`).
`PCreateSpins` and `NoSpare` are the two ways `create_process` does not
return: no slot is free and `process_getfree` scans for ever, or the count is 0
and NULL is written through; `TookNull` is the dequeue of a wait queue that a kill has
emptied since its test. Then the machine stays in `Halted`. A kill of a
zombie counts its slot twice, a timer between ZOMBIE and the increment never
counts it: the count drifts either way, and `sched_signals` reaches both ends.

`Calls` chooses, per instance, which calls programs make: a run looks at one
group of interactions with all their interleavings instead of all of them with
few processes.

Taken from how programs use the kernel: a parent runs a child once after
creating it; a program waits for a child it ran or for itself (`smallhang`); a
shell only for its children and never returns.

Abstractions, and why they do not hide what the properties are about:

* A KILL and its `int 79h` are one step; losing a signal in between belongs to
  `Gate`. KILL of a pid that no process has (a NULL dereference) and
  `waitpid` of one (it returns -1 and changes nothing) are not steps.
* A reader may block in the queue of any context, and a key may come for any:
  this covers what `scheduler_think` and Ctrl-N do to `current_tty`, which is
  `Terminal`'s (`switch_tty` at the end of `scheduler_think` is its `Think`).
* The grain of `process_cleaner` is the statement: in `queue_enqueue` the tests and
  the store are one step, and so are the wrap of the index and the choice of the
  queue. A queue is a sequence with no end: the ring of `PROCESS_MAX` entries
  would wrap onto itself only with more entries than processes.
* Stacks, the history of ticks and `gid` are left out: nothing here reads them.
  Descriptors are those of `Descriptors`. `yield()` is called by the semaphores only, which nothing calls.
* What a process does after its `process_cleaner` (pc `"gone"`) if a later
  wake-up runs it again is not modelled: it executes past the end of its stack.
* `_rtc` restoring no registers is out of the model: it has no registers.

### Properties

* `RunningIsCurrent`: only the process with the CPU is RUNNING. (Proved, not run;
  `TypeOK` too.)
* `ShellsSurvive`: no signal, whoever sends it, takes a shell or idle away, and
  idle never enters a queue.
* `OnlyExitsStrand`: that a ready process is always where the scheduler looks is not
  true. A change of mode after the `switch` of an exit's `sched_enqueue` and before its
  store leaves the waiter in the structure not in use; a timer between the store and
  `count++` may take the entry before it for the last, and a process enqueued then is
  behind one that is not counted. The property says that these are the only ways:
  the scheduler loses sight of a ready process only while an exit is in the middle
  of its enqueue. (Without signals. A kill of a process in the middle of its own
  `process_cleaner` breaks it: the waiter it held is dropped.)
* `RunsAfterPRun`: without signals, a recycled slot never runs before its
  process is given to `prun`: no queue entry outlives its process.
* `OnlyLateWaitsAreLost`: a blocked process loses its last possible wake-up in
  one way only, a `waitpid` that comes after the child drained its queue. That
  way exists: nothing in `sched_waitpid` looks at the state of the child.
* `ReadyRuns`, `SleeperWakes`: liveness, below.

### Runs

| Run | Instance | Shows |
|---|---|---|
| `sched_exit` | 4 slots, 1 shell, 2 queues, pids to 4; pcreate, exit, waitpid, sleep, read, both modes | exits against waits, wake-ups, recycling and switches of mode |
| `sched_signals` | 4 slots, 1 shell, 2 priorities, pids to 4; pcreate, waitpid, kill, Ctrl-C | signals at every moment; both ways `create_process` stops the machine |
| `sched_fair` | pids to 3, sleeps of 1 tick; pcreate, sleep, setp, and a switch to round robin; fair | no starvation, in either structure; sleeps end |

Bounds. Four slots are idle, one shell and two programs: a parent and a child,
or two children of a shell that wait, exit and are recycled; three queue levels
(`PQSize = 2`) with two priorities make rotation put a process at every level,
above and below others; in `sched_exit`, where no priority is set, two levels are
enough for the rotation to move a queue under an enqueue. `sched_signals` has no exit:
with it and the smaller queues of `sched_exit`, pids to 3, it passes too (414,117
states) and reaches `TookNull`, and at the sizes of the run it takes longer than is
worth. `MaxPid` bounds how many processes a behaviour creates:
with 4, both slots are recycled. `MaxSpare` bounds the drift of the count of free
slots: it is a guard of `Signal`. `SleepTimes` are the sleeps asked for; 1 is
enough, as only the wake-up matters. Deadlock is checked in every run.

Fairness (`FairSpec`). The timer and the RTC interrupt for ever, and the PIC
keeps an interrupt that comes while they are disabled until they are enabled:
strong fairness of `Timer` and `Tick`. A kernel loop runs to its end with
interrupts off: weak fairness of `KernelLoop`. Nothing is assumed of programs:
they may loop for ever. `ReadyRuns` speaks of the ready structure, and is
checked where the mode changes once and priorities change freely: a program
that toggles the mode for ever can starve another, which the run does not allow.

### Proofs

All for arbitrary `ProcMax`, `NTty`, `PQSize`, `MaxPrio` that satisfy
`ConstantsAssumption` (room for idle, the shells and one more; priorities below
the levels of the queue), and for every `Calls`.

`SchedulerProofs` has four layers. The first: lemmas about `EnqueueIn`, dequeue, the
rotation of the priority queue and the renaming of its levels, and `TypeCorrect`.

The second, signals: `RunningIsCurrent` and `ShellsSurvive` are
not inductive. `scheduler_think` requeues the current process only if it is not
idle: were idle ever in a queue it would become RUNNING and stay so. Idle is
in no queue because no wake-up is ever for it; that rests on no signal ever
being aimed at it, hence on pids: idle and the shells have the pids up to
`NTty`, all others more, and every `process_cleanpid` in progress has a
target above `NTty`, because shells wait only for their children and a
process with a parent is not a resident. `KInv` is the conjunction of these:

* `TableInv`: residents keep slot, pid and no parent; other slots have a pid
  above `NTty`, or were never used;
* `LifeInv`: idle is READY, shells are alive and never in `process_cleaner`,
  a shell's `waitpid` is 0 or above `NTty`;
* the frames are `SafeFrames`;
* `QueueInv`: no queue has idle in it, and no exiting process holds idle from
  the READY of its waiter to the store.

There is one lemma per conjunct (`TableStep`, `LifeStep`, `FramesStep`,
`QueueStep`), each split by action. KInv was model-checked on the instances of
`sched_exit` and `sched_signals` before it was proved.

The third, where processes wait: `RunsAfterPRun` has one
hypothesis, `NoSignals`, that `Calls` has neither KILL nor Ctrl-C. A signal breaks
what it says: `process_cleanpid` makes a waiter READY that may be dead (the
first of the disagreements below), and a slot given again is then still in a
queue. Without signals a process's state says where it may be. `PlaceInv`:

* `ReadyOnce`, `ReadsOnce`, `WaitsOnce`, `HeldOnce`: what is stored in the ready queues, of
  all levels and both structures and counted or not, is there once; so are the blocked
  readers of all terminals, the waiters, and what the exiting processes hold;
* `Place(s)`: a process that runs or is dead is nowhere; one that is READY is in one
  place at most, a ready queue, of either structure, or the hands of an exit that has not stored
  it; one that is BLOCKED is at one place at most, the ready queues included
  (`process_setready` leaves a reader BLOCKED there);
* `CurrentRuns`: who has the CPU is RUNNING in its program and until its exit ends;
* `QuietFrames`: at most one loop of the kernel is in progress.

It does not say that the queue a process is in is one that is seen: an exit may have
chosen it before a change of mode, which is what `OnlyExitsStrand` is about. The new slot of
`process_getfree` is in no queue because its old process was dead, hence nowhere.
A queue without repetitions and without idle is never full
(`NeverFull`, by the pigeonhole principle), so `queue_enqueue` never drops what it is
given. There is one lemma for each kind of step. PlaceInv was model-checked on
the instance of `sched_exit`, and on one with `setp`, before it was proved.

The fourth, who ends a wait: `OnlyLateWaitsAreLost`, an action property, from `KInv`,
`PlaceInv` and `GoneInv` (an exiting process that has emptied its wait queue for good
is dead). A blocked process has a source of a wake-up if it sleeps, is in the ready
structure, reads, or if the exit of a live process will wake it (`Serves`). `Kept(s)`
says of a step that it abandons nobody: `s`, if blocked after it, has a source, or was
blocked without one before. There is one lemma `...Keeps` for each action. `waitpid`
keeps everybody but its caller, and its caller too unless the child is `LateFor` it,
which is the exception that the property names. Two hypotheses: `NoSignals`, as
above, and `0 \notin SleepTimes`, since `scheduler_sleep(0)` blocks its caller with a
`sleeptime` of 0 and `scheduler_tick` looks only at those above it. GoneInv was
model-checked on the instance of `sched_exit`.

Only model-checked: `OnlyExitsStrand`, and the liveness properties, which are out of the
prover's reach.

## Fifo.tla, BytePipe.tla

State. The fields of `struct fifo` under their names, `call[p]` (the message a
writer is writing, the bytes a reader has stored), `asleep`, `inside` (who is
in the kernel), and the `used` count of the descriptor table, which decides
when `fifo_close` is called. Bytes are numbered in the order they are offered,
so that a lost, repeated or overtaken byte shows.

Steps. A call is `EnterWrite` or `EnterRead` and then one action for each turn
of its loop, with nobody else inside; a call that blocks leaves, and the same
`Enter...` action repeats it when its process has been woken, as the stubs in
`libasm.asm` do. `EndUses` and `EndCloses` are the two branches of `fd_close` at
the end of a process.

Abstractions. A process that is not asleep may run: which one does is
`Scheduler`'s. A stub gets the result of its own call (that it may not is for
`Gate`). `fifo_write` returns no value: what is left in the register
is 0 or an address, never `SYSR_BLOCK`. A killed process that is remembered as
blocked is enqueued again, which is `Scheduler`'s matter too. The comment of
`fd_close` says that it writes EOF; no code does, so a reader blocked when its
writer returns stays so, and no step of the model tells it.

### Properties and runs

| Run | Instance (ring of 4) | Shows |
|---|---|---|
| `fifo_pipe` | 1 writer, 1 reader of 2 bytes, messages of 1, 3 and 6, either end returns or is killed; fair | `IsPipe`: the fifo implements `BytePipe`; `RingOK`: the count stays in 0..Size and agrees with the indices; `BytesArrive`: every byte offered is received, unless an end is gone |
| `fifo_mixed` | 2 writers, readers of 2 and of 4 bytes | `NotAllAsleep` holds even when the count goes below zero |

Bounds. The programs of the repository ask for 1, 512 or 1024 bytes of 1024: a
ring of 4 with reads of 2 and 4 keeps the proportions. Messages of 1, 3, 4 and
6 fill the ring exactly, end inside it, and are longer than it. 14 bytes go
round the ring three times; 7 are enough to fill it, block, empty it and
go on. These runs do not check for deadlock: with all bytes offered, or its
writer gone, a reader waits for ever, as in the code.

Fairness. A process that is not asleep gets the CPU (`ReadyRuns` of `Scheduler`
says so); readers read again after each read, as `cat` does. Nothing makes a
writer write.

### Proofs (FifoProofs)

* `FifoTypeCorrect`, for every size and all processes, killed at any time.
* `NotAllAsleepCorrect`, if no process ends. `SleepInv`: whoever falls asleep is
  remembered until woken or replaced by one who falls asleep later; a
  remembered reader means an empty ring or a writer at work, a remembered
  writer a full ring. Were all asleep, both would be remembered, and nobody
  inside.
* `RingCorrect`, if all readers ask for one divisor of the size. `RingInv`:
  while the ring is locked, what is in it and what the read in progress has
  taken add up to a multiple of that amount; so a read that finds it empty
  has taken nothing, and the first test of `fifo_read` has blocked it.

* `IsPipeCorrect`, for one writer and one reader that asks for a divisor of the size:
  every step of `Fifo` is a step of `BytePipe` or none of its. The mapping takes the
  `writes` bytes from `rd_i` on, round the ring, for the pipe. `PipeInv`: they are the next
  ones of the stream (`Follows`); what the writer's call has not put yet comes after
  them, from the byte at `buf_wr_i` on, whatever blocked in between (`Offers`); and an entry
  of `files[]` without uses has lost a process (`UsesLeft`), so `fifo_close`, at the end of
  another, comes when both are gone and no byte follows what it drops. It needs
  `RingInv`: a read below zero would hand out what was not written.

`FifoAssumption` says that no call (`None`) is not a message; it is a model value in the runs.

Only model-checked: `BytesArrive`.

## HddCache.tla

State. A block number is the pair of its group, `block_id / HDD_READ_GROUP_SIZE`,
and its place in the group: what is read, evicted and written is always a
whole group. The metadata and the data of line `i` of family `f` are `block[f][i]`,
`reads[f][i]` and so on; `untouchable` is kept once for a family, as the victim's
choice reads it from the first line only. `disk` is what is under the cache,
`op` the call in progress with `buffer` (the group read ahead of the eviction),
`ready` what `kernel_rd()` returns. `last`, which the code has not, is what
`block_write` was last given for each block.

Steps. `Request` is a `block_read` or `block_write` of the file system. A hit
ends it (`ReadHit`, `WriteHit`: `hdd_write_block` counts a read too). A miss reads the
group (`Miss`), may sync the cache to find a victim (`SyncForVictim`), flushes and
fills the victim (`Load`), and searches again. `IdleSync` is the idle process's
sync. It passes no argument: whether it is full or partial is a choice.
Everything runs with interrupts off, so a call is alone until it ends.

The victim is chosen in the code by four passes; `FirstChoice` is the second of
them, `SecondChoice` the two after the sync, and the first pass looks for lines
tagged -1. Only `hdd_init` makes them and nothing calls it: the lines start
tagged with block 0, the master boot record, which nothing reads. So the first
pass never finds one, and until `disposed_history` has filled up its own zeroes
make every unused family one recently disposed of.

Abstractions. Contents are members of `Values`. `_disk_read` and `_disk_write` always
succeed. The mode without cache (`_cache` is never 0) and the test programs
that call the disk driver directly are left out. Before the kernel is ready
filled families are pinned; the mount and the users file touch the header and
a few blocks of each of 6 block groups, far fewer than 32 families: `MaxPinned` is
below `NFam`, and the search for a victim that finds none (index -1) is not
modelled.

### Properties and runs

* `OneLinePerBlock` (proved, not run): no block is in two lines, so that a read cannot find an older
  copy than a write.
* `NotDirtyIsOnDisk`: when `dirty_cache` is 0 and the sync returns at once, the
  families it visits are as on the disk.
* `LostOnlyByEviction`: a write becomes unreadable in one way: after a sync, a
  family that the sync does not visit is evicted with too few writes for
  `hdd_flush_family`.
* `WritesReachDisk`: a family the sync visits does not stay dirty for ever,
  whatever argument the sync finds.

| Run | Instance | Shows |
|---|---|---|
| `hdd_cache` | 3 families of 2 lines, of which the sync visits 2; 4 groups, 5 blocks; 6 calls; fair | all but what is only proved |

Bounds. The real sizes are 32 families of 16 lines: the sync visits half of
them, here two of three. Four groups for three families make every family a
victim, with one or two of them pinned. `FlushOver` 1 (8 in the code) lets a
family of two lines be on either side of it. `HistCount` 3 is 10 in the code: 2
entries in use, fewer than the families, as in the code. Six calls fill the
cache, dirty it, evict, and read back. `Width` and `ReadsTop` are above what six
calls can count.

Fairness. A call runs to its end with interrupts off (`WF(Serve)`), `idle_main`
mounts the file system and sets the kernel ready (`WF(SetReady)`), and the idle
process runs for 3000 interrupts time after time (`WF(IdleSync)`). The last holds
when programs leave the CPU idle: in a behaviour of this module they do, as
`MaxCalls` bounds what they ask for. A partial sync stops after one family, and it
takes as many as there are dirty families for the writes to be on the disk.

### Proofs (HddProofs)

For every number and size of families, history and disk that satisfy
`HddAssumption`: at least as many families as lines in one (the sync stays inside
the table), and fewer calls than a 16 bit counter holds (`MaxCalls < Width`: a counter
that wraps to 0 hides a write). `HddTypeCorrect`, `OneLineCorrect`,
`NotDirtyCorrect` and `LossesCorrect`. The inductive invariant is

* `GroupsInv`: a filled family holds one whole group, which no other holds;
* `MissInv`: during a miss nobody holds the group asked for, and the buffer, read
  before the sync and the flush, is still what the disk has;
* `CountInv`: no line has more writes than there were calls;
* `CleanInv`: a line with no writes is as on the disk;
* `FlagInv`: with `dirty_cache` 0, and just after a sync, the families the sync
  visits have no writes.

`OneLinePerBlock` is `GroupsInv`; `MissInv` is what it needs when a family is filled.
For `LossesCorrect`: a step loses a block only by evicting its family with no
write back, by `CleanInv` a dirty one; only the passes after the sync take a
dirty one, and by `FlagInv` it is one the sync does not visit.

Only model-checked: `WritesReachDisk`.

## Terminal.tla

State. The fields of `TTY_Context` are functions over the terminals that have a
shell; `lCtrl` and `rCtrl` are the set `ctrl[t]`. `running` is the process that runs: one of
the programs `Procs` of the instance, or `Other`, which is any other. `kb_tty` is the terminal with the
screen and the keyboard; `current_tty`, whose ring, queue and flags the kernel works on, is
the terminal of the process that runs (scheduler.c:588), until a Ctrl-N writes both.
Characters are numbered as they are typed; `typed[t]` is what `pushC` took for terminal
t, `taken[t]` what `tty_read` gave. `calling` are the programs inside `read()`, `asleep`
those of them that are BLOCKED.

Steps. `Think` and `ThinkOther` are the end of `scheduler_think` for a reader and for somebody
else. A key is one step of the keyboard's interrupt, whoever runs (`PushC`, `Switch`, `Press`,
`Release`): `pushC` puts the character in the ring of `kb_tty`, and has `current_tty` back when it
returns; the control keys are told to the context of who runs, and `scanCodeToChar` asks
that one whether Ctrl is down. A turn of `read()` is one step of its system call
(`ReadBlocks`, `ReadsChar`). Both run with interrupts off. The stub repeats a read that
blocked when its process runs again; `WokenByTick` is the early wake-up that a slot's old
`sleeptime` gives, after which a reader is awake and still in its queue.

Abstractions. An extended
key (E0 and its second byte) is one step, and the extended keys whose second byte is
in the range of the characters (the keypad's `/`) are left out: they would leave
`lastkey` at -32 for the next key. Shift, Caps Lock, Alt and the restart keys change
which character is pushed, or stop the machine. Ctrl-C pushes nothing and its signal
is in `Scheduler`. Ctrl-7 and Ctrl-8 give the screen to contexts that were never
initialised: `Ttys` are the others. Which program runs is `Scheduler`'s: here any that
is not asleep may, and the CPU may be taken from it between any two steps. The shell
that answers the reader is a program like others here. A reader killed in a queue
is `Scheduler`'s too.

### Properties and runs

* `KeysInOrder`: what was read on a terminal, and then what is in its ring, is
  what was typed there.
* `AsleepForCause`: a blocked reader is in some queue; in that of its own terminal
  only while there is nothing to read.
* `StraysToScreen`: a reader may block in another terminal's queue, where its own keys do not
  wake it, by a Ctrl-N in the slice in which it calls; and then it is the queue of the
  terminal that is on screen, and no other.
* `KeyIsRead`: a character typed on a terminal where a reader is, is read, unless that
  one is such a stray.

| Run | Instance | Shows |
|---|---|---|
| `terminal` | 2 terminals, 2 readers of the first and others of both, ring of 3 with room for 2, 1 control key, 4 characters; fair | all of the above |

Bounds. A key is dropped with more than `Full` characters waiting, so that two fit, in a ring of
3 (in the code 17 of 255): both indices wrap, at different times, and the third
key is dropped or not. Two readers of a terminal are what one key wakes together. Two
terminals are enough for a reader to block away from its own; the second has no
reader of its own, as `Other` runs there and what readers of different terminals share
is `current_tty` alone.

Fairness. `WF(Think(p))`: a reader that is not asleep gets the CPU (`ReadyRuns` of
`Scheduler`). `SF(TtyRead(p))`: one that gets it again and again makes its call, as it
goes on where it was preempted. Nothing makes the user type.

### Proofs (TerminalProofs)

For every number of terminals, readers and control keys, and every
`Full < BUFFER_SIZE`: `TerminalTypeCorrect`, `KeysInOrderCorrect`, `AsleepForCauseCorrect`,
`StraysToScreenCorrect`. `RingInv` ties the two indices to the count and bounds the count by
`Full + 1`: it is why the slot that `pushC` writes is none of those waiting, and with
it `KeysInOrder` is inductive. `QueueInv` is `AsleepForCause` for every process that is
in a queue, asleep or not: one woken by a tick stays there and may block again
at once. `CpuInv`: while a reader runs, `current_tty` is its terminal or that of the
screen.

Only model-checked: `KeyIsRead`.

## Gate.tla

State. `kb` has the words of `kernel_buffer` that outlive a handler: the operation,
the result ([15]), the signal and its target ([14], [13]). `pc[p]` says where a
program is in a call: the two interrupts of `libasm.asm`, `int 80h` and `int 79h`, and
the stub's end. `keys[p]` are the keyboard's handlers nested on p's stack that have
not done their own `int 79h` yet. Not in the code: `kb.by`, `kb.req` and the
`missed`, `fired` and `asked` histories, which say whose a result or a request is; a
call or a key is `mixed` when something else was put in `kernel_buffer` before it was
done with it.

Steps. `Call` is the stub and `int_80`, for one call of each kind that the stubs
tell apart: `write` (repeated on -2), `open` (one result, -2 also being
`ERR_PERMS`), `setsched` (no result: the one before stays) and `kill`. `Signals79` is
`signal_on_demand`, `Leave` the end of the stub, which reads `kernel_buffer[15]`.
`Key`, `CtrlC` and `KeyEnds` are the keyboard. Each runs with interrupts off; between
them everything may run.

Abstractions. What a call does is elsewhere; here it returns a value of its own,
0, or -2. The `krn` guard and the exceptions are left out.

### Properties and run

* `FiredAsAsked`: `sg_handle` is called with what one request asked for, never with
  the signal of one and the target of another, and once for a request.
* `SignalKept`: a request is fired by the end of its own call or key, whatever keys
  are pressed, unless another call or a Ctrl-C came between: those lose it.
* `CallKept`: a call that returns has been made once, with its own result, unless
  another came between. When one did, a write already made can be made again.

| Run | Instance | Shows |
|---|---|---|
| `gate` | 2 programs and idle, 4 calls, 2 keys; symmetric programs | all of the above |

Bounds. Two programs are what it takes to overwrite; four calls give each a call and
its repetition, or one of them a call in the middle of the other's repeated one; two
keys nest. The run ends with its calls, so deadlock is not checked.

### Proofs (GateProofs)

For every number of programs, calls and keys: `GateTypeCorrect`, `FiredAsAskedCorrect`,
`SignalKeptCorrect`, `CallKeptCorrect`. The inductive invariant `GateInv` adds to
`TypeOK` and `FiredAsAsked`:

* `PendingInv`: what is pending in `kernel_buffer` is what `asked` has at its number, and
  was not fired yet;
* `RequestInv`: a kill or a Ctrl-C that is not mixed has its request pending, or fired;
* `ResultInv`: a call that is not mixed and was handled has its result in
  `kernel_buffer`, and was made as often as it was not blocked.

Both rest on a call or a Ctrl-C marking all the others as mixed.

## Descriptors.tla

State. `files[]` of `fd.c` with its `used` counts, the two allocators that give
descriptors in turn, the table of each process, and as much of the working
directory and of the fifos' contents as the shell's pipes need. `sh` and `line` are
the locals of `process_input` (`tty.c`), `phase` and `slot` where a program is, down to the
next slot that `process_cleaner` closes. `feeder` and `got`, not in the code, are who
a program's pipe comes from and who wrote what it read.

Steps. One per system call of the shell (`Pcreate`, `OpenFile`, `OpenPipe`, `Dup`,
`DupPipe`, `Prun`, `Waitpid`, `Rm`) and of the programs (`ProgOpens`, `ProgMkfifo`, `Read`,
`Write`), `End` and one `Close` for each slot of `process_cleaner`, which runs with
interrupts on, and `Kill`. `Loop` is `process_getfreefd` with no slot left: its
`return -1` is never reached and the machine stays in it. `Astray` is the use of
a slot that holds an error: what runs after it is not known, and nothing does.

What the code lets go wrong, and the properties except by name, is in `slip`: the
descriptors ran out (`full`), one in use was given again (`wrapped`), `mkfifo` was
refused and its -2 kept (`refused`), the name of a pipe in use was removed
(`removed`), a slot was closed twice (`twice`): by the kill of a program that is ending or
has ended, or by the shell's `pdup2` on one that was killed between its `pcreate` and its
`prun`.

Abstractions. A program is killed at any time after its `pcreate`, the shell never is; `waiter`
is the program in whose wait queue the shell is; there is one working directory; the close of the terminal's descriptor is merged with the
next one, offsets are not kept, and a read or write that would block is not made
(`Fifo` has blocking). `Budget` bounds the programs started and the opens and kills
they do.

### Properties and run

* `TtyCounted`: the terminal's descriptor has a use for each slot it is in and one of
  its own, so it never runs out under a program.
* `PipeKept`: what is in a fifo is read, or dropped when no program that runs has
  the fifo any more.
* `PrivatePipes`: a program reads from its pipe what its left neighbour wrote, and
  nothing of an older pipe.
* `NoWild`: a slot leads to a descriptor, and only a fifo is closed as one.

| Run | Instance | Shows |
|---|---|---|
| `descriptors` | the shell and 4 programs, 6 slots, 4 fifos, 3 files, fifos of 1 byte; lines `a \| b`, `a \| typo`, `a < f > f` | all of the above |

Bounds. Four programs are two lines with a pipe each: the second pipe meets what
the first left. Three fifos can be given before the allocator wraps, two files:
both the wrap and the end of the descriptors happen. Six inodes are one for each name. Six slots are the three
that every program starts with and room to fill. The run stops with its budget, so
deadlock is not checked.

### Proofs (DescriptorProofs)

For every number of programs, slots, fifos, files and bytes and all command lines:
`DescriptorsTypeOK`, `DescriptorsTtyCounted`, `DescriptorsNoWild`,
`DescriptorsPrivatePipes`, `DescriptorsPipeKept`. `DescriptorsAssumption`
asks for three slots and one more (a program starts with three), for two descriptors
of each kind besides the one the allocator keeps back, and for an inode for each name, so
that `FsOpen` never meets a full disk, which the code has no answer for.

* `Shape`, inductive without the others, is the types and what keeps them: every inode
  in use has one name (`Named`); what the shell has left to do comes in the order of
  `process_input`, so that until `prun` the program it made last does not run, though it may
  have been killed, and a redirection is followed by its `dup2` (`Planned`); what the shell duplicates is not the
  terminal (`Redirects`); programs start in order, and there is one for each command of
  the line (`Counted`); who runs has closed no slot (`Unclosed`).
* `TtyCounted` is inductive with `Shape`. `TtyHeld` are the slots that lead to the
  terminal: an open, a dup and a start change it by one slot or three, and closing slots
  from one to another takes from `used` exactly those between them, by an induction over
  the slots (`TtyCloseAll`). It fails only for a slot closed again, by a second cleaning or
  by a dup into the table of a program that was cleaned, which is `twice`.
* `Clean`, for `NoWild`, as long as `slip` is empty: every slot in use leads to the terminal,
  a file or an open fifo, and so do those the shell keeps in `sh.fd` and `sh.stdin`
  (`Slotted`); and a descriptor of a file is in one slot at most, with one use (`OneEach`).
  `OneEach` is why no file is closed at 0 uses, where `fd_close` takes what is
  there for a fifo.
* `Plumbed`, for `PrivatePipes` and `PipeKept`, as long as `slip` is empty, says where a
  pipe is at each step of the shell and of its two programs. Descriptors of fifos are
  given in order and once (`Fresh`), and nothing leads to an inode that was given back
  (`Alive`): this is what keeps an older pipe out. A pipe that has just been made is the
  shell's alone (`Handed`), then its writer's slot 1 and nobody else's (`ToFeed`), then
  its writer's and its reader's through one descriptor (`Joined`, `Fed`). `Given` says that
  what the shell gave to the program it works on stays until the program runs. A
  descriptor has one use, and the two programs of a pipe share it (`Uses`): the close that
  drops the bytes is the one after which no running program has the pipe.
* `Piped` goes with `Plumbed`: in `a | b | c` the program in the middle gets the pipe it
  reads from before the one it writes to is made.

## FileSystem.tla

State. `fs` is the inode table, the contents of directory blocks, both bitmaps in
memory (`ibm`, `bbm`) and on disk (`dibm`, `dbbm`), and the statics of `fs.c` that a
helper leaves for the next (`n`, `b`, `off`). `pwd` and `uid` are those of the terminal
on screen, `fd` the inode of one open descriptor, `last` the last call and its result.

Steps. A call of `int_80` is one action, as interrupts are off; inside it the helpers
of `fs.c` are operators from state to state, named after what they do (`InDir` is `fs_indir`,
`RmInode` `fs_rm`, `OpenFile` `fs_open_file`, `HasPerms` `fs_has_perms`), and they hand the
statics to each other as the code does: a recursion that overwrites what its
caller's loop still needs does so here too. `Restart` stops the machine between two
calls and reads the bitmaps back.

What a call does that its caller is not told is in `damage`, and the properties except
it by name: a removal that failed midway (`half removed`), a link removed, which
frees the blocks its target's number stands for (`link removed`), a link made over a
file, a rename below the root, a move of a directory into itself, entries of a
directory skipped by the removal of one of its own with more entries than come
before it, the removal of a directory of more than one block, a `cd` into a file, a
write to a file that was removed, and a restart that finds the bitmaps behind.
`bad` ends a behaviour where the code goes on with no meaning: no block or inode is
left, a directory's bytes are read as something else, or a recursion is too deep.

Abstractions. Names have one length, so that a directory block has room for `Cap`
entries. The content of a regular file is its number of blocks and whether the last
one has something in it; its bytes are `FileBlocks`'s. `BootDirs` are some of the
directories `fs_init` makes, and its test file is not made. `open("")` and
`open("/")` are not made. A `cd` to a file with no block is taken for one that fails.

### Properties and run

* `EntriesLive`: a name leads to an inode that is taken and that remembers the
  directory it is in, and no directory has a name, or an inode, twice.
* `PathLeadsBack`: the path `fs_pwd` shows of an inode leads back to it.
* `BlocksOwned`: the blocks of a file are marked and are no other's.
* `RmRemovesTree`: a removal that succeeds frees the tree, its inodes and its blocks,
  and nothing else. `CpCopies`: a copy has every name of its original.

| Run | Instance | Shows |
|---|---|---|
| `fs_tree` | 8 inodes, 12 blocks, 5 entries in a block, 2 names, 2 users; 4 calls on an empty disk and on `a/{a/{a, b}, b}` | all of the above |

Bounds. The starting disks save the calls that make them: with one that has a
directory below a directory, four calls are enough to copy a tree, move it, remove
it and look. Five entries are `.`, `..` and three more: a directory overflows its
block. Helpers are recursive, so there are no theorems about this module.

## FileBlocks.tla, Files.tla, DiskLayout.tla, FileDisk.tla

State. In `FileBlocks` an inode has its size (`blocks`, `lwo`) and its block numbers:
`NDirect` direct ones (12 in the code) and one for each level of indirection; `blk` are
the blocks, of data or of numbers, `taken` and `marks` the bitmaps, `call` the call in
progress, `n` and `b` the statics it works with. `DiskLayout` has no state: it is the
arithmetic of `fs.c` and `bitmap.c` that puts inode i and block k somewhere on the
disk and in a bitmap. `FileDisk` adds `image`, what `block_read` finds in each block of the disk,
`bits`, the bitmaps in memory, and `written_back`: `block_write` (fs.c:59-61) writes to the
cache of `hdd.c`, and the disk itself has all of `image` only when a sync has come to its
end since the last write.

Steps. A write or read is one action for each turn of the loop over its bytes, a
removal one for each block (`RmBlock`), as in `fs_write_file`, `fs_read_file` and `fs_rm`. A
step of `FileDisk` is one of `FileBlocks` and what it writes, or `SyncEnds`: a sync has written the
last family that was dirty. The idle process syncs between calls; a miss of the cache
in the midst of a call does too, so that the disk may be whole there.

Abstractions. The third level of indirection needs more blocks than a disk has.
Where the disk is full a behaviour ends: the code goes on with block 0. `past`
says that a read has gone past the end of a file, as `fs_read_file` does when the
file ends where a block does: it takes a block the inode is not told of. Which of the
writes have reached the disk while `written_back` is false is not followed, and nothing is said
of a stop then: a removed file may be found, or an inode without its bits. The cache is
taken to lose no write: the eviction that does is `HddCache`'s.

### Properties and run

* `OneOwner`: a block that a file leads to is marked, and there is one way to it,
  whatever its blocks held when they belonged to a file that was removed.
* `NoLeak`: between calls a marked block belongs to a file.
* `IsFiles`: the blocks implement `Files`: a file is what was written in it, in order,
  and is read back, whatever was allocated and freed around it. `Files` promises no
  more than the code keeps: the last byte of a file is not counted by a read
  (fs.c:627-660), and one that ends with a block may be read past its end.
* `DiskHolds`: every inode, block and bit is read back, through the cache, as it was
  written last. `MountFinds`: a mount of a disk that has been written back, between two
  steps of a call too, finds no file that was removed, and the blocks of every byte of
  a file that the bitmap names are marked, so that none is given away again.

| Run | Instance | Shows |
|---|---|---|
| `file_blocks` | 2 files on 10 blocks of 2 cells, in 2 groups; 1 direct block; writes of 1 and 5, reads of 3, 7 calls | all of the above |

Bounds. With one direct block and two cells a file of 5 bytes uses the first
indirect block and one of 7 the second level; files grow to 10 bytes. A read of 3
passes the end of a file by more than a block. A bitmap of 6 bits over a
group of 5 blocks leaves a gap, as 8192 over 7280 does. Seven calls write, remove, and
give the blocks to the other file.

### Proofs (DiskProofs)

First the blocks, for every number of blocks, of direct blocks and of cells in a block:
`BlocksTypeOK`, `BlocksOneOwner`, `BlocksNoLeak`. A block is named by the way that leads to
it: a slot of the inode, or a cell of the block another way leads to. `Recs` are the
inodes as they are on the disk, but the one a call works on as the call has it. The
inductive invariant of the first two is `Structure`:

* `Unique`: two ways, of two files or of one, never lead to the same block; so the
  cells of an indirect block must be this file's or 0 when it is given;
* `Marked`: every block that a way leads to is marked, but those of a file whose removal
  has begun to free them;
* `Extends`: what a call works on is the inode on the disk with slots filled that were 0;
* `FilledI`, `FilledW`: a file that was written has all the blocks up to the one its
  next byte goes to;
* `Bounded`: no call goes past the blocks that an inode can lead to.

`Owned`, for `NoLeak`, adds that a file has no block after its last one (`Tight`), that a
read takes none (`ReadExact`), and that what is marked belongs to a file or to what a
removal has still to free (`Accounted`), as long as no read went past the end of a file.

Then their places, for every number of groups, size of tables and of bitmaps that satisfy
`LayoutAssumption` (a bitmap is at least as long as its table, which is all the code's numbers need).
`PlacesApart`: no two inodes, blocks or bitmaps share a place on the disk, nor two
numbers a bit. `DiskHoldsCorrect`: `[]DiskHolds` for every step of `FileBlocks`, whatever
it writes. `DiskHolds` is inductive as it stands: a step writes only the places of what it
changed, and by `PlacesApart` those are nobody else's. `MountFindsCorrect`: `[]MountFinds`. Between two saves
the bitmaps that were written are old; a mount is right because what changes meanwhile is
one file, whose ways to the bytes the inode counts stay as they were until the save.

The proof changed the property. It once said that every block an inode leads to is
marked on the disk between calls; a read of three bytes or more past the end takes a
block inside an indirect block that the file has, and a read saves no bitmap
(fs.c:695-701 is the write's): `past` excepts it now, and what the bytes of the
file need is stated without exception.

Last, what the blocks hold. `IsFilesCorrect`: `Spec => IsFiles`, with the files of
`Files` as what the inodes count of the blocks they lead to (`Contents`). A removal, a
write and a read that return are the steps of `Files`; every other step of the loops
changes nothing there. Two things are needed beside `Structure`:

* allocation writes in blocks of numbers only (`Touched`), so that a block of data holds
  what it held, whatever is taken around it; a block that is given away is written by its
  own file alone, as it has one owner;
* `WriteData` and `ReadData`, inductive with `Structure`: at each turn of the loop of
  `fs_write_file` the blocks of the call, with `b` in place of the one not written yet,
  hold the bytes of the file and then those of the call, and what `fs_read_file` has got
  is what the file holds there, as far as it goes. A file whose last block is not empty
  is never read past its end: the read stops at the byte `AtTop` says, and only one
  that ends where a block does passes it, which is the second alternative of
  `Files!Read`.

## Users.tla

State. `users` is the list in memory, `file` the users in `.users` and `at` its inode, as the
calls find them in the cache; `disk` is both as they were when the cache was last written
back. `users_inode` is the inode that `users.c` writes to, `uid[t]` who is logged in on a
terminal. Not in the code: `given`, every uid ever given; `again`, a start left `max_uid` at a
uid that was given.

Steps. `Makeuser`, `SetGid`, `Delete`, `Login` and `Logout` are the calls. The second and third
end with `user_table_reload`, which removes the file and makes it again in the first inode that is
free, and then writes the list to it. `fs_rm` may refuse: the caller may not write to the
file or its directory, or a link names it (fs.c:764-788). users.c:118 does not look: the -2 is
kept as the inode, and the list is written to that (`Refused`). `Sync` is the
write-back by the idle process, `Restart` a stop and a start: the table is then read
back from the disk, users whose name has one letter are forgotten (users.c:56), and
`max_uid` is raised by a uid greater than it, not by an equal one (users.c:62). A creation
that asks for no group known gets gid -1.

Abstractions. A call runs with interrupts off, so a stop is between calls. A
sync is one step: a stop in the middle of it, or an eviction, is `HddCache`'s. Whether a
removal is refused is a choice, as permissions and links are `FileSystem`'s. A write to inode -2 is
taken not to touch `.users`: it is past the table of inodes, and what it hits is not known. Only
`users.c` and what makes `fs_rm` refuse (link, chmod) touch the file.

### Properties and run

* `UidsFresh`: no two users have one uid, and `max_uid` is above every uid given but root's
  and guest's, unless a start left it too low.
* `FileIsTable`: unless the last save was refused, the file lists the users that the list
  does, in its order, but for names of one letter, and lacks nobody of the list; also
  after a refusal, a stop and a start.

| Run | Instance | Shows |
|---|---|---|
| `users` | root, guest, `ann` and `b`; 1 terminal, inodes 2 and 3, 3 creations, 5 calls, 2 starts | all of the above |

Bounds. Two starts: the second reads what the first left. A name of one letter and one
of more; three creations pass the inode's number, from which `max_uid` starts.

### Proofs (UsersProofs)

For every set of names, groups, inodes and terminals: `UsersTypeOK`, `UsersUidsFresh`,
`UsersFileIsTable` and `UsersRootStays` (root is the first of the list and never removed). The
inductive invariant `UsersInv` says of memory and of what the disk has:

* no name is listed twice, every uid listed was given, root comes first;
* unless `again`, no uid is listed twice, and `max_uid` is above every uid given but 0
  and 1;
* the file and the list agree, unless the last save was refused.

`MaxUid` and `Listed` are recursive functions of the place in the file; what they
return is proved by the least place where it would fail.

## Known disagreements

What the code does against its own comments, met while modelling. The modules do
as the code does.

* `signals.c:4`, "Kills the process with the pid recieved, and also it's children": the process is cleaned before the
  children, and cleaning the child it waited for makes it READY and enqueues it.
* `fifo.c:111`, "No writes? Then block!", and `fifo.c:126`: with `write_locked` set and no write in progress,
  `fifo_read` does not block; readers of different sizes take the count below zero.
  `RingOK` is proved for readers that ask for one divisor of the size.
* `fs.c:58`, "to disk (or disk cache)": the sync counts to the size of a family, 16, and not to
  the number of families, 32; a dirty family above is evicted with at most 8 writes,
  which are forgotten. `LostOnlyByEviction` says that there is no other way.
* `tty_context.c:435`, "Lock if nothing to read.": `current_tty` being the caller's terminal
  since the think, that is what `tty_read` does; but after a Ctrl-N between the think and
  the call (tty_context.c:249, 289) it blocks a reader that has something to read, in the
  queue of the terminal on screen.
* `scheduler.c:183`, "return -1; // Big problem.": `open_fds` is never counted and
  `process_getfreefd` scans for ever.
* `fd.c:174` says that a close writes EOF: nothing does, and a reader whose
  writer is gone sleeps on.
* `fs.h:263`, "returns: Size of the data read": a read stores the last byte of a file and does not count it.

Hazards without a property, beside those listed with a note: `buf_wr_i` outlives a
writer killed while blocked, and the next one loses that many bytes (fifo.c:82);
`sleeptime` of a slot is not reset, so that a new process may be woken early
(scheduler.c:427); with all families filled before the kernel is ready no victim is
found (hdd.c:153); with no free block or inode the file system goes on with number 0 (fs.c:373).

## Not modelled

* Memory: no other module depends on where a block is. Read, not modelled: `free`
  shifts the metadata of the next block whether it merged or not (malloc.c:356-363),
  and the scan of `malloc` does not end when no memory is left (malloc.c:113).
* The indices of `queue.c`: a queue is a sequence, with `Scheduler` having the entries
  that are stored and not counted.
* Video, the disk driver, descriptor tables of the hardware and the C library are
  computation or port I/O without a protocol; the game is a program of its own.
* The semaphores: nothing calls them.
* Of the file system, `fs_dump`, the printing of `ls` and `finfo`, and what happens once
  the disk is full.
* Of the terminal, Shift, Caps Lock, Alt, the restart keys, history and
  autocompletion.

Out of the prover's reach, and model-checked only: liveness (`ReadyRuns`,
`SleeperWakes`, `BytesArrive`, `WritesReachDisk`, `KeyIsRead`), and everything about
`FileSystem`, whose helpers are recursive operators. `OnlyExitsStrand` is model-checked
only as well. Every other property of the runs is proved.

What TLAPS proves for every value of the constants and is a matter of types, or as
plain as `RunningIsCurrent`, is not run by TLC: the runs are for what the proofs leave open and
for the deeper of what they show.
