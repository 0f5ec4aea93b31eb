---------------------------- MODULE Descriptors ----------------------------
(***************************************************************************)
(* kernel/fd.c and the tables of descriptors of kernel/scheduler.c, driven  *)
(* by the shell of one terminal (kernel/tty.c, process_input): it starts    *)
(* programs, sends their output to a file or through a pipe to the next     *)
(* one, waits for the last and removes the name of its pipe.                *)
(*                                                                         *)
(* Each step is a system call, or the whole of a kill; the shell and the    *)
(* programs run in any order between calls.  Bytes in a fifo are the pids   *)
(* of their writers; a read or a write that would block is not made yet     *)
(* (module Fifo has the blocking).                                          *)
(***************************************************************************)
EXTENDS Integers, Sequences, FiniteSets

CONSTANTS
  NProgs,            \* programs the shell starts
  NSlots,            \* PROCESS_FD_SIZE
  NFifos, NFiles,    \* allocator_end - allocator, for fifos and for files
  NInodes,
  Lines,             \* command lines: sequences of commands
  MaxBytes,          \* FIFO_DATA_SIZE
  Budget             \* bound: programs started, and opens and kills by them

Progs   == 1 .. NProgs
Shell   == 0
Slots   == 0 .. NSlots - 1
Tty     == 0
FifoFds == 1 .. NFifos
FileFds == NFifos + 1 .. NFifos + NFiles
Fds     == {Tty} \union FifoFds \union FileFds
Inodes  == 1 .. NInodes
Commands == [in : BOOLEAN, out : BOOLEAN, known : BOOLEAN, bg : BOOLEAN]

ERR_PERMS == -2
ERR_NO_EXIST == -3

ASSUME DescriptorsAssumption ==
  /\ NProgs \in Nat /\ NSlots \in Nat /\ NSlots > 3
  /\ NFifos \in Nat /\ NFifos > 2 /\ NFiles \in Nat /\ NFiles > 2
  /\ NInodes \in Nat /\ NInodes >= NProgs + 2      \* one for each name
  /\ Lines \subseteq Seq(Commands) \ {<<>>} /\ MaxBytes \in Nat

VARIABLES
  files,   \* files[]
  alloc,   \* the two allocators: where they are, how many they gave
  table,   \* file_descriptors of the shell and of each program; -1: free
  dir,     \* names in the working directory: the inode, or 0
  kind,    \* the type of an inode
  bytes,   \* what is in the fifo of an inode
  phase,   \* of each program
  slot,    \* of a program in process_cleaner: the next to close
  line, sh, \* the shell: what is left of its line, and where it is
  waiter,  \* the program in whose wait_queue the shell is, or 0
  spent,
  \* not in the code:
  feeder,  \* the program on the left of the pipe a program reads, or 0
  got,     \* the writers of what a program has read from that pipe
  wild,    \* memory that is no descriptor, or no fifo, was used as one
  slip     \* which of the code's known slips have happened

vars == <<files, alloc, table, dir, kind, bytes, phase, slot, line, sh,
          waiter, spent, feeder, got, wild, slip>>

Kernel == <<files, alloc, dir, kind, slip>>

\* ".<pid>", and two names that programs use
\* Mutant: a pipe is named after the terminal, not after the program.
PipeNameOfTty(p) == 1
PipeName(p) == p
NamedFifo   == NProgs + 1
DataFile    == NProgs + 2
Names       == 1 .. NProgs + 2

Live(p)    == p # Shell /\ phase[p] \in {"new", "run", "ending"}
Holds      == {h \in Progs \X Slots : Live(h[1]) /\ h[2] >= slot[h[1]] /\ table[h[1]][h[2]] # -1}
\* the programs that still have the fifo of inode i in a slot
On(i) == {h[1] : h \in {g \in Holds : LET fd == table[g[1]][g[2]] IN
            fd \in Fds /\ files[fd].type = "fifo" /\ files[fd].data = i}}

-----------------------------------------------------------------------------
(* Opening *)

\* fs_open_file in the working directory: what may come of it.  With `new`
\* (O_NEW) a missing name is made, unless the directory may not be written.
FsOpen(name, new, type) ==
  LET gives(i)  == [ino |-> i, dir |-> dir, kind |-> kind]
      free      == {i \in Inodes : kind[i] = "free"}
      made      == CHOOSE i \in free : \A j \in free : i <= j
  IN IF dir[name] # 0
     THEN {gives(dir[name])} \union (IF new THEN {} ELSE {gives(ERR_PERMS)})
     ELSE IF ~new THEN {gives(ERR_NO_EXIST)}
     ELSE {gives(ERR_PERMS),
           [ino |-> made, dir |-> [dir EXCEPT ![name] = made],
            kind |-> [kind EXCEPT ![made] = type]]}

First(type) == IF type = "fifo" THEN 1 ELSE NFifos + 1
Many(type)  == IF type = "fifo" THEN NFifos ELSE NFiles

\* The allocator after one more open, and the descriptor it gives: they are
\* given in turn, whether they are in use or not.
Allocated(type) ==
  LET a == alloc[type]
      next == IF a.index + 1 = First(type) + Many(type) - 1 THEN First(type)
              ELSE a.index + 1
  IN IF a.size + 1 = Many(type) - 1
     THEN [fd |-> -1, alloc |-> [alloc EXCEPT ![type].size = @ + 1]]
     ELSE [fd |-> a.index,
           alloc |-> [alloc EXCEPT ![type] = [index |-> next, size |-> a.size + 1]]]

\* fd_open, fd_open_with_index.  fifo_make finds the fifo of an inode as it
\* was left.  A descriptor in use is shared with who has it.
FdOpen(type, name, new) ==
  LET a    == Allocated(type)
      fd   == a.fd
      held == \E h \in Holds : table[h[1]][h[2]] = fd
      as(r) == [type |-> IF r.ino > 0 /\ r.kind[r.ino] = "fifo" THEN "fifo" ELSE type,
                data |-> IF r.ino > 0 THEN r.ino ELSE 0,
                used |-> IF r.ino > 0 THEN 1 ELSE 0]
  IN IF fd = -1
     THEN {[fd |-> -1, files |-> files, alloc |-> a.alloc, dir |-> dir, kind |-> kind,
            slip |-> slip \union (IF type = "fifo" THEN {"full"} ELSE {})]}
     ELSE IF files[fd].used > 0
     THEN {[fd |-> fd, files |-> [files EXCEPT ![fd].used = @ + 1], alloc |-> a.alloc,
            dir |-> dir, kind |-> kind, slip |-> slip \union {"wrapped"}]}
     ELSE {[fd |-> IF r.ino > 0 THEN fd ELSE r.ino,
            files |-> [files EXCEPT ![fd] = as(r)],
            alloc |-> a.alloc, dir |-> r.dir, kind |-> r.kind,
            slip |-> slip \union (IF held THEN {"wrapped"} ELSE {})] :
           r \in FsOpen(name, new, type)}

FreeSlots(p) == {s \in Slots : table[p][s] = -1}

\* process_getfreefd: with no slot free it never returns, in the kernel.
FreeSlot(p)  == CHOOSE s \in FreeSlots(p) : \A t \in FreeSlots(p) : s <= t
Loops(p)     == FreeSlots(p) = {}

Becomes(r) == /\ files' = r.files /\ alloc' = r.alloc
              /\ dir' = r.dir /\ kind' = r.kind

\* int_80, OPEN and MKFIFO: what they return, and the table they leave
\* Mutant: an error of fd_open is put in the table too.
OpenedAny(p, r) ==
  /\ Becomes(r) /\ slip' = r.slip
  /\ table' = IF r.fd # -1 THEN [table EXCEPT ![p][FreeSlot(p)] = r.fd] ELSE table

Opened(p, r) ==
  /\ Becomes(r) /\ slip' = r.slip
  /\ table' = IF r.fd >= 0 THEN [table EXCEPT ![p][FreeSlot(p)] = r.fd] ELSE table

\* An error that is not -1 is put in the table as if it were a descriptor.
Mkfifoed(p, r) ==
  /\ Becomes(r)
  /\ slip' = r.slip \union (IF r.fd < -1 THEN {"refused"} ELSE {})
  /\ table' = IF r.fd # -1 THEN [table EXCEPT ![p][FreeSlot(p)] = r.fd] ELSE table

-----------------------------------------------------------------------------
(* Closing *)

State == [files |-> files, bytes |-> bytes, wild |-> wild]

\* Mutant: the fifo is closed by the first that closes it.
FdCloseFirst(st, fd) ==
  IF fd = -1 THEN st
  ELSE IF fd \notin Fds THEN [st EXCEPT !.wild = TRUE]
  ELSE LET f == st.files[fd]
           less == [st EXCEPT !.files[fd].used = IF @ > 0 THEN @ - 1 ELSE 0]
       IN IF f.used > 1 THEN less
          ELSE IF f.type = "fifo" THEN [less EXCEPT !.bytes[f.data] = <<>>]
          ELSE less

\* Mutant: one less, whatever was left.
FdCloseBelow(st, fd) ==
  IF fd = -1 THEN st
  ELSE IF fd \notin Fds THEN [st EXCEPT !.wild = TRUE]
  ELSE [st EXCEPT !.files[fd].used = @ - 1]

\* fd_close: the use that would make it less than none closes the fifo,
\* whatever the descriptor is.
FdClose(st, fd) ==
  IF fd = -1 THEN st
  ELSE IF fd \notin Fds THEN [st EXCEPT !.wild = TRUE]
  ELSE LET f == st.files[fd] IN
       IF f.used > 0 THEN [st EXCEPT !.files[fd].used = @ - 1]
       ELSE IF f.type = "fifo" THEN [st EXCEPT !.bytes[f.data] = <<>>]
       ELSE [st EXCEPT !.wild = TRUE]

\* The slots from one to another are closed, in order.
FdCloseAll(p, from, to) ==
  LET closed[s \in from - 1 .. to] ==
        IF s = from - 1 THEN State ELSE FdClose(closed[s - 1], table[p][s])
  IN closed[to]

Left(st) == files' = st.files /\ bytes' = st.bytes /\ wild' = st.wild

\* sched_pdup2.  The slot fd1 is the caller's; a -1 that mkfifo gave is one too.
\* Of a program that was killed before its prun, fd2 is closed a second time.
\* Mutant: what was in fd2 is not closed.
Pdup2Kept(pid, fd1, fd2) ==
  IF fd1 \in Slots
  THEN Left(State) /\ table' = [table EXCEPT ![pid][fd2] = table[Shell][fd1]]
  ELSE Left([State EXCEPT !.wild = TRUE]) /\ UNCHANGED table

Pdup2(pid, fd1, fd2) ==
  IF fd1 \in Slots
  THEN /\ Left(FdClose(State, table[pid][fd2]))
       /\ table' = [table EXCEPT ![pid][fd2] = table[Shell][fd1]]
  ELSE Left([State EXCEPT !.wild = TRUE]) /\ UNCHANGED table

-----------------------------------------------------------------------------
(* The shell *)

NewFiles == [files EXCEPT ![Tty].used = @ + 3]
NewTable == [s \in Slots |-> IF s < 3 THEN Tty ELSE -1]

Prompt ==
  /\ sh.todo = <<>>
  /\ \E l \in Lines, cad \in {0, sh.cad} :       \* cad is not initialized
       /\ Len(l) <= Budget - spent
       /\ Len(l) <= Cardinality({p \in Progs : phase[p] = "none"})
       /\ line' = l
       /\ sh' = [todo |-> <<"pcreate">>, pid |-> 0, fd |-> 0, stdin |-> 0,
                 left |-> 0, cad |-> cad, in |-> FALSE, out |-> FALSE, piped |-> FALSE]
  /\ UNCHANGED <<Kernel, table, bytes, phase, slot, waiter, spent, feeder, got, wild>>

If(cond, calls) == IF cond THEN calls ELSE <<>>

\* What is left to do, and the next command when it is done
Rest(todo, piped) == IF todo = <<>> /\ piped THEN <<"pcreate">> ELSE todo

\* create_process, and the calls the shell makes after it.  A redirection
\* stays for the commands after it, and what is redirected is not piped.
Pcreate ==
  LET c     == Head(line)
      in    == sh.in \/ c.in
      out   == sh.out \/ c.out
      piped == Len(line) > 1 /\ ~in /\ ~out
      p     == Cardinality({q \in Progs : phase[q] # "none"}) + 1
      todo  == If(out, <<"out", "dup1">>) \o If(in, <<"in", "dup0">>)
               \o If(sh.stdin # 0, <<"duppipe">>) \o If(piped, <<"mkfifo", "dup1">>)
               \o <<"prun">> \o If(~c.bg /\ ~piped, <<"waitpid", "rm">>)
      then  == [sh EXCEPT !.in = in, !.out = out, !.piped = piped]
  IN /\ sh.todo # <<>> /\ Head(sh.todo) = "pcreate"
     /\ line' = Tail(line)
     /\ c.known => spent < Budget
     /\ IF c.known
        THEN /\ spent' = spent + 1
             /\ files' = NewFiles
             /\ table' = [table EXCEPT ![p] = NewTable]
             /\ phase' = [phase EXCEPT ![p] = "new"]
             /\ sh' = [then EXCEPT !.pid = p, !.todo = todo]
        ELSE sh' = [then EXCEPT !.todo = Rest(<<>>, piped)] /\ UNCHANGED <<files, table, phase, spent>>
     /\ UNCHANGED <<alloc, dir, kind, slip, bytes, slot, waiter, feeder, got, wild>>

Calls(what) == sh.todo # <<>> /\ Head(sh.todo) \in what /\ UNCHANGED line
Then == Rest(Tail(sh.todo), sh.piped)

OpenFile ==
  /\ Calls({"out", "in"}) /\ ~Loops(Shell)
  /\ \E r \in FdOpen("file", DataFile, Head(sh.todo) = "out") :
       /\ Opened(Shell, r)
       /\ sh' = IF r.fd >= 0 THEN [sh EXCEPT !.todo = Tail(@), !.fd = FreeSlot(Shell)]
                             ELSE [sh EXCEPT !.todo = Tail(Tail(@))]
  /\ UNCHANGED <<bytes, phase, slot, waiter, spent, feeder, got, wild>>

OpenPipe ==
  /\ Calls({"mkfifo"}) /\ ~Loops(Shell)
  /\ \E r \in FdOpen("fifo", PipeName(sh.pid), TRUE) :
       /\ Mkfifoed(Shell, r)
       /\ LET stdout == IF r.fd # -1 THEN FreeSlot(Shell) ELSE -1 IN
          sh' = [sh EXCEPT !.todo = Tail(@), !.fd = stdout, !.stdin = stdout,
                           !.cad = PipeName(sh.pid), !.left = sh.pid]
  /\ UNCHANGED <<bytes, phase, slot, waiter, spent, feeder, got, wild>>

\* The kernel looks for a free slot, and the whole system waits for it.
Loop ==
  /\ Calls({"out", "in", "mkfifo"}) /\ Loops(Shell)
  /\ sh' = [sh EXCEPT !.todo = <<"loop">>]
  /\ UNCHANGED <<Kernel, table, bytes, phase, slot, waiter, spent, feeder, got, wild>>

ClosesTwice == slip' = slip \union (IF phase[sh.pid] = "new" THEN {} ELSE {"twice"})

Dup ==
  /\ Calls({"dup0", "dup1"})
  /\ Pdup2(sh.pid, sh.fd, IF Head(sh.todo) = "dup0" THEN 0 ELSE 1)
  /\ ClosesTwice
  /\ sh' = [sh EXCEPT !.todo = Then]
  /\ UNCHANGED <<alloc, dir, kind, phase, slot, waiter, spent, feeder, got>>

DupPipe ==
  /\ Calls({"duppipe"})
  /\ Pdup2(sh.pid, sh.stdin, 0)
  /\ ClosesTwice
  /\ feeder' = [feeder EXCEPT ![sh.pid] = sh.left]
  /\ sh' = [sh EXCEPT !.todo = Then]
  /\ UNCHANGED <<alloc, dir, kind, phase, slot, waiter, spent, got>>

\* The scheduler passes over a zombie that is enqueued.
Prun ==
  /\ Calls({"prun"})
  /\ phase' = [phase EXCEPT ![sh.pid] = IF @ = "new" THEN "run" ELSE @]
  /\ sh' = [sh EXCEPT !.todo = Then]
  /\ UNCHANGED <<Kernel, table, bytes, slot, waiter, spent, feeder, got, wild>>

\* waitpid.  Who waits for a program that has woken its waiters, or that was
\* killed before its prun, is woken by a kill of it, if there is one.
Waitpid ==
  /\ Calls({"waitpid"})
  /\ sh' = [sh EXCEPT !.todo = <<"waiting">> \o Tail(@)]
  /\ waiter' = sh.pid
  /\ UNCHANGED <<Kernel, table, bytes, phase, slot, spent, feeder, got, wild>>

Woken ==
  /\ Calls({"waiting"}) /\ waiter = 0
  /\ sh' = [sh EXCEPT !.todo = Tail(@)]
  /\ UNCHANGED <<Kernel, table, bytes, phase, slot, waiter, spent, feeder, got, wild>>

\* rm(cad), of the name of the last pipe if there was one
Rm ==
  LET i == IF sh.cad = 0 THEN 0 ELSE dir[sh.cad] IN
  /\ Calls({"rm"})
  /\ sh' = [sh EXCEPT !.todo = Then]
  /\ IF i = 0 THEN UNCHANGED <<dir, kind, slip>>
     ELSE /\ dir' = [dir EXCEPT ![sh.cad] = 0]
          /\ kind' = [kind EXCEPT ![i] = "free"]
          /\ slip' = slip \union (IF On(i) # {} \/ bytes[i] # <<>> THEN {"removed"} ELSE {})
  /\ UNCHANGED <<files, alloc, table, bytes, phase, slot, waiter, spent, feeder, got, wild>>

-----------------------------------------------------------------------------
(* The programs *)

Running(p) == phase[p] = "run"
Opens(p)   == Running(p) /\ ~Loops(p) /\ spent < Budget /\ spent' = spent + 1

\* cat, fwrite, touch
ProgOpens(p) ==
  /\ Opens(p)
  /\ \E name \in {NamedFifo, DataFile}, new \in BOOLEAN :
       \E r \in FdOpen("file", name, new) : Opened(p, r)
  /\ UNCHANGED <<bytes, phase, slot, line, sh, waiter, feeder, got, wild>>

\* reader and writer
ProgMkfifo(p) ==
  /\ Opens(p)
  /\ \E r \in FdOpen("fifo", NamedFifo, TRUE) : Mkfifoed(p, r)
  /\ UNCHANGED <<bytes, phase, slot, line, sh, waiter, feeder, got, wild>>

\* fd_read, fd_write: of a slot, wherever it leads
Astray(p) ==
  /\ Running(p) /\ \E s \in Slots : table[p][s] < -1
  /\ wild' = TRUE
  /\ UNCHANGED <<Kernel, table, bytes, phase, slot, line, sh, waiter, spent, feeder, got>>

IsFifo(fd) == fd \in Fds /\ files[fd].type = "fifo"

Read(p) ==
  /\ Running(p)
  /\ \E s \in Slots \ {1, 2} :
       LET fd == table[p][s]  i == files[fd].data IN
       /\ IsFifo(fd) /\ bytes[i] # <<>>
       /\ bytes' = [bytes EXCEPT ![i] = Tail(@)]
       /\ got' = IF s = 0 THEN [got EXCEPT ![p] = @ \union {Head(bytes[i])}] ELSE got
  /\ UNCHANGED <<Kernel, table, phase, slot, line, sh, waiter, spent, feeder, wild>>

Write(p) ==
  /\ Running(p)
  /\ \E s \in Slots \ {0, 2} :
       LET fd == table[p][s]  i == files[fd].data IN
       /\ IsFifo(fd) /\ Len(bytes[i]) < MaxBytes
       /\ bytes' = [bytes EXCEPT ![i] = Append(@, p)]
  /\ UNCHANGED <<Kernel, table, phase, slot, line, sh, waiter, spent, feeder, got, wild>>

Wakes(p) == waiter' = IF waiter = p THEN 0 ELSE waiter

\* process_cleaner: it wakes who waits, and then closes one slot after the
\* other.  Closes of the terminal's descriptor only count, and make one step
\* with the close after them.
End(p) ==
  /\ Running(p)
  /\ phase' = [phase EXCEPT ![p] = "ending"]
  /\ Wakes(p)
  /\ UNCHANGED <<Kernel, table, bytes, slot, line, sh, spent, feeder, got, wild>>

Close(p) ==
  LET pipes == {s \in Slots : s >= slot[p] /\ table[p][s] \notin {-1, Tty}}
      last  == IF pipes = {} THEN NSlots - 1
               ELSE CHOOSE t \in pipes : \A u \in pipes : t <= u
  IN /\ phase[p] = "ending"
     /\ Left(FdCloseAll(p, slot[p], last))
     /\ slot' = [slot EXCEPT ![p] = last + 1]
     /\ phase' = IF pipes = {} THEN [phase EXCEPT ![p] = "zombie"] ELSE phase
     /\ UNCHANGED <<alloc, dir, kind, slip, table, line, sh, waiter, spent, feeder, got>>

\* process_cleanpid, for a signal: a program that is ending, or has ended, is
\* cleaned from the start, and one that the shell has made and not yet run too.
Kill(p) ==
  /\ phase[p] # "none" /\ spent < Budget
  /\ Wakes(p)
  /\ Left(FdCloseAll(p, 0, NSlots - 1))
  /\ phase' = [phase EXCEPT ![p] = "zombie"]
  /\ slip' = slip \union (IF slot[p] > 0 \/ phase[p] = "zombie" THEN {"twice"} ELSE {})
  /\ spent' = spent + 1
  /\ UNCHANGED <<alloc, dir, kind, table, slot, line, sh, feeder, got>>

-----------------------------------------------------------------------------
Init ==
  /\ files = [fd \in Fds |-> IF fd = Tty THEN [type |-> "tty", data |-> 0, used |-> 4]
                             ELSE [type |-> "none", data |-> 0, used |-> 0]]
  /\ alloc = [t \in {"fifo", "file"} |-> [index |-> First(t), size |-> 0]]
  /\ table = [p \in Progs \union {Shell} |->
                IF p = Shell THEN NewTable ELSE [s \in Slots |-> -1]]
  /\ dir = [n \in Names |-> 0] /\ kind = [i \in Inodes |-> "free"]
  /\ bytes = [i \in Inodes |-> <<>>]
  /\ phase = [p \in Progs |-> "none"] /\ slot = [p \in Progs |-> 0]
  /\ line = <<>>
  /\ sh = [todo |-> <<>>, pid |-> 0, fd |-> 0, stdin |-> 0, left |-> 0, cad |-> 0,
           in |-> FALSE, out |-> FALSE, piped |-> FALSE]
  /\ waiter = 0 /\ spent = 0
  /\ feeder = [p \in Progs |-> 0] /\ got = [p \in Progs |-> {}]
  /\ wild = FALSE /\ slip = {}

ShellStep == Prompt \/ Pcreate \/ OpenFile \/ OpenPipe \/ Loop \/ Dup \/ DupPipe
             \/ Prun \/ Waitpid \/ Woken \/ Rm
ProgStep(p) == ProgOpens(p) \/ ProgMkfifo(p) \/ Astray(p) \/ Read(p) \/ Write(p)
               \/ End(p) \/ Close(p) \/ Kill(p)

\* Nothing is known of what runs after a wild access, and nothing runs in a
\* kernel that loops.
Next == /\ ~wild /\ sh.todo # <<"loop">>
        /\ (ShellStep \/ \E p \in Progs : ProgStep(p))

Spec == Init /\ [][Next]_vars

-----------------------------------------------------------------------------
\* The state has the shape the code gives it; a count of uses is not negative.
TypeOK ==
  /\ \A fd \in Fds : /\ files[fd].type \in {"none", "tty", "fifo", "file"}
                     /\ files[fd].used \in Nat
                     /\ files[fd].type = "fifo" => files[fd].used = 0 \/ files[fd].data \in Inodes
  /\ \A p \in Progs \union {Shell}, s \in Slots : table[p][s] \in Fds \union {-1, ERR_PERMS}
  /\ dir \in [Names -> Inodes \union {0}]
  /\ \A i \in Inodes : Len(bytes[i]) <= MaxBytes
  /\ \A t \in {"fifo", "file"} : alloc[t].index \in First(t) .. First(t) + Many(t) - 2

\* The terminal's descriptor has a use for each slot of a program it is in, and
\* four of tty_init and the shell, whenever a program is killed.  It is so until a
\* slot is closed twice: by the kill of a program that is ending or has ended, or by
\* the pdup2 of the shell on a program that was killed before its prun.
TtyCounted ==
  "twice" \notin slip =>
    files[Tty].used = 4 + Cardinality({h \in Holds : table[h[1]][h[2]] = Tty})

\* What is in a fifo goes to a reader, or is dropped when no program that
\* runs has the fifo any more: fd_close drops it at the use after the last, and
\* a pipe has one use for its two programs.
PipeKept ==
  [][slip' = {} => \A i \in Inodes :
       Len(bytes'[i]) < Len(bytes[i]) => (\E p \in Progs : Read(p)) \/ On(i)' = {}]_vars

\* A program reads from its pipe what the program on its left wrote, and
\* nothing of another pipe, an older one included.
PrivatePipes ==
  slip = {} => \A p \in Progs : feeder[p] # 0 => got[p] \subseteq {feeder[p]}

\* A slot leads to a descriptor, and only a fifo is closed as one, unless
\* mkfifo was refused or out of descriptors, or a slot was closed twice.
NoWild == wild => slip # {}
=============================================================================
