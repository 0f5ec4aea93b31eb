-------------------------- MODULE DescriptorProofs --------------------------
(***************************************************************************)
(* The descriptors, for every number of programs, slots, descriptors and    *)
(* inodes, and all command lines.                                           *)
(***************************************************************************)
EXTENDS Descriptors, FiniteSetTheorems, TLAPS

-----------------------------------------------------------------------------
(* The shape of the state *)

Steps  == {"pcreate", "out", "in", "dup0", "dup1", "duppipe", "mkfifo", "prun",
           "waitpid", "waiting", "rm", "loop"}
Before == {"out", "in", "dup0", "dup1", "duppipe", "mkfifo"}
After  == {"waitpid", "waiting", "rm"}
Unrun  == {"new", "zombie"}

\* What the shell may do, sooner or later, after what
Follows(x, y) ==
  /\ x \in {"prun"} \union After => y \in After
  /\ x \notin {"rm", "pcreate", "loop"} /\ y \notin {"pcreate", "loop"}
  /\ x \in {"duppipe", "mkfifo"} => y \notin {"out", "in", "dup0", "duppipe"}
  /\ x = "mkfifo" => y # "mkfifo"

Ordered(t) ==
  /\ \A i, j \in 1 .. Len(t) : i < j => Follows(t[i], t[j])
  /\ \A i \in 1 .. Len(t) :
       /\ t[i] \in {"out", "in"} => i < Len(t) /\ t[i + 1] \in {"dup0", "dup1"}
       /\ t[i] = "mkfifo" => i < Len(t) /\ t[i + 1] = "dup1"
       /\ i < Len(t) /\ t[i + 1] \in {"dup0", "dup1"} => t[i] \in {"out", "in", "mkfifo"}

Has(t, x) == \E i \in 1 .. Len(t) : t[i] = x

File  == [type : {"none", "tty", "fifo", "file"}, data : Inodes \union {0}, used : Nat]
Alloc == [index : Nat, size : Nat]
Shells == [todo : Seq(Steps), pid : Progs \union {0}, fd : Slots \union {-1},
           stdin : Slots \union {-1}, left : Progs \union {0}, cad : Names \union {0},
           in : BOOLEAN, out : BOOLEAN, piped : BOOLEAN]
Tables == [Progs \union {Shell} -> [Slots -> Fds \union {-1, ERR_PERMS}]]

Dirs  == [Names -> Inodes \union {0}]
Kinds == [Inodes -> {"free", "fifo", "file"}]

FilesIn(f) ==
  /\ f \in [Fds -> File] /\ f[Tty].type = "tty"
  /\ \A fd \in Fds : f[fd].type = "fifo" => f[fd].used = 0 \/ f[fd].data # 0
FilesTyped == FilesIn(files)
BytesTyped ==
  /\ bytes \in [Inodes -> Seq(Progs)]
  /\ \A i \in Inodes : Len(bytes[i]) <= MaxBytes
AllocIn(a) ==
  /\ a \in [{"fifo", "file"} -> Alloc]
  /\ \A t \in {"fifo", "file"} : a[t].index \in First(t) .. First(t) + Many(t) - 2
AllocTyped == AllocIn(alloc)

\* The memory of the kernel, of the programs, of the shell
KernelTyped ==
  /\ FilesTyped /\ BytesTyped /\ AllocTyped
  /\ dir \in Dirs /\ kind \in Kinds
  /\ wild \in BOOLEAN
ProgsTyped ==
  /\ table \in Tables
  /\ phase \in [Progs -> {"none", "new", "run", "ending", "zombie"}]
  /\ slot \in [Progs -> 0 .. NSlots]
  /\ feeder \in [Progs -> Progs \union {0}]
ShellTyped == line \in Seq(Commands) /\ sh \in Shells
Typed == KernelTyped /\ ProgsTyped /\ ShellTyped

\* Every inode in use has one name, and every name an inode in use.
NamedIn(d, k) ==
  /\ \A i \in Inodes : k[i] # "free" => \E n \in Names : d[n] = i
  /\ \A n \in Names : d[n] # 0 => k[d[n]] # "free"
  /\ \A n, m \in Names : d[n] = d[m] /\ d[n] # 0 => n = m
Named == NamedIn(dir, kind)

\* The shell works on the program it made last, which does not run yet, and may
\* have been killed.
Planned ==
  /\ Ordered(sh.todo)
  /\ (\E x \in Before : Has(sh.todo, x)) => Has(sh.todo, "prun")
  /\ Has(sh.todo, "prun") => sh.pid \in Progs /\ phase[sh.pid] \in Unrun
  /\ Has(sh.todo, "pcreate") \/ sh.piped => line # <<>>
  /\ Has(sh.todo, "duppipe") => sh.stdin # 0
  /\ Has(sh.todo, "mkfifo") => sh.piped
  /\ Has(sh.todo, "rm") => ~sh.piped
  /\ Has(sh.todo, "pcreate") => sh.stdin = 0 \/ sh.piped

\* What the shell is about to duplicate is not the terminal.
Ready == sh.todo # <<>> /\ sh.todo[1] \in {"dup0", "dup1"}
Redirects ==
  /\ \A s \in Slots : table[Shell][s] = Tty <=> s < 3
  /\ Ready => sh.fd = -1 \/ sh.fd >= 3
  /\ sh.stdin \in {0, -1} \/ sh.stdin >= 3

\* Programs are started one after the other, and there are enough for the line.
Counted ==
  \E k \in 0 .. NProgs :
    /\ \A p \in Progs : phase[p] # "none" <=> p <= k
    /\ k + Len(line) <= NProgs

Unclosed == \A p \in Progs : phase[p] \in {"none", "new", "run"} => slot[p] = 0

Shape == Typed /\ Named /\ Planned /\ Redirects /\ Counted /\ Unclosed

-----------------------------------------------------------------------------
LEMMA Sizes ==
  /\ Slots \subseteq Nat /\ {0, 1, 2, 3} \subseteq Slots /\ NSlots \in Nat
  /\ NProgs \in Nat /\ Progs \subseteq Nat \ {0} /\ MaxBytes \in Nat
  /\ FifoFds \subseteq Nat \ {0} /\ FileFds \subseteq Nat \ {0} /\ Fds \subseteq Nat
  /\ FifoFds \intersect FileFds = {} /\ Tty \in Fds
  /\ Inodes \subseteq Nat \ {0} /\ Names \subseteq Nat \ {0}
  /\ NamedFifo \in Names /\ DataFile \in Names
  /\ NamedFifo \notin Progs /\ DataFile \notin Progs /\ NamedFifo # DataFile
  /\ \A p \in Progs : PipeName(p) = p /\ p \in Names
BY DescriptorsAssumption DEF Slots, Progs, FifoFds, FileFds, Fds, Tty, Inodes, Names,
   NamedFifo, DataFile, PipeName

LEMMA Ranges ==
  /\ First("fifo") .. First("fifo") + Many("fifo") - 1 = FifoFds
  /\ First("file") .. First("file") + Many("file") - 1 = FileFds
  /\ \A t \in {"fifo", "file"} : First(t) \in Nat \ {0} /\ Many(t) \in Nat /\ Many(t) > 2
BY DescriptorsAssumption DEF First, Many, FifoFds, FileFds

-----------------------------------------------------------------------------
(* Closing the slots of a program one after the other *)

LEMMA StepsReach ==
  ASSUME NEW n \in Nat, NEW T, 0 \in T,
         \A k \in 0 .. n : k # n /\ k \in T => k + 1 \in T
  PROVE  0 .. n \subseteq T
<1> SUFFICES ASSUME NEW m \in 0 .. n, m \notin T PROVE FALSE
  OBVIOUS
<1> DEFINE Out == {k \in 0 .. n : k \notin T}
<1>1. PICK k \in Out : \A j \in Out : ~ j < k
  <2>1. Out \subseteq Nat /\ Out # {}
    OBVIOUS
  <2>2. IsWellFoundedOn(OpToRel(<, Nat), Nat)
    BY NatLessThanWellFounded
  <2> HIDE DEF Out
  <2>3. PICK k \in Out : \A j \in Out : ~ (<<j, k>> \in OpToRel(<, Nat))
    BY <2>1, <2>2, WFMin
  <2>4. \A j \in Out : j < k => <<j, k>> \in OpToRel(<, Nat)
    BY <2>1 DEF OpToRel
  <2> QED
    BY <2>3, <2>4
<1>2. k # 0 /\ k \in 1 .. n /\ k \notin T
  BY <1>1
<1>3. k - 1 \in 0 .. n /\ k - 1 # n /\ k - 1 < k /\ (k - 1) + 1 = k
  BY <1>2
<1>4. k - 1 \in T
  BY <1>1, <1>3
<1> QED
  BY <1>2, <1>3, <1>4

\* h gives the next value from the last, for each place.
Recursive(V, n, v0, h) ==
  \E r \in [0 .. n -> V] : r[0] = v0 /\ \A k \in 1 .. n : r[k] = h[k][r[k - 1]]

LEMMA Recursion ==
  ASSUME NEW V, NEW n \in Nat, NEW v0 \in V, NEW h \in [1 .. n -> [V -> V]]
  PROVE  Recursive(V, n, v0, h)
<1> DEFINE Upto(m, r) == r[0] = v0 /\ \A k \in 1 .. m : r[k] = h[k][r[k - 1]]
           T == {m \in 0 .. n : \E r \in [0 .. n -> V] : Upto(m, r)}
<1>1. 0 \in T
  <2> DEFINE c == [k \in 0 .. n |-> v0]
  <2>1. c \in [0 .. n -> V] /\ c[0] = v0
    OBVIOUS
  <2>2. Upto(0, c)
    BY <2>1
  <2>3. 0 \in 0 .. n
    OBVIOUS
  <2> HIDE DEF c, Upto
  <2> QED
    BY <2>1, <2>2, <2>3, Zenon
<1>2. ASSUME NEW m \in 0 .. n, m # n, m \in T PROVE m + 1 \in T
  <2>1. PICK r \in [0 .. n -> V] : Upto(m, r)
    BY <1>2
  <2> DEFINE q == [r EXCEPT ![m + 1] = h[m + 1][r[m]]]
  <2>2. m + 1 \in 1 .. n /\ m \in 0 .. n /\ m + 1 \in 0 .. n
    BY <1>2
  <2>3. h[m + 1][r[m]] \in V
    BY <2>2
  <2>4. q \in [0 .. n -> V]
    BY <2>2, <2>3
  <2>5. q[0] = v0
    BY <2>1
  <2>6. ASSUME NEW k \in 1 .. m + 1 PROVE q[k] = h[k][q[k - 1]]
    <3>1. CASE k = m + 1
      BY <3>1, <2>2
    <3>2. CASE k # m + 1
      <4>1. k \in 1 .. m /\ k - 1 # m + 1 /\ k \in 0 .. n /\ k - 1 \in 0 .. n
        BY <3>2
      <4> QED
        BY <4>1, <3>2, <2>1
    <3> QED
      BY <3>1, <3>2
  <2> QED
    BY <2>2, <2>4, <2>5, <2>6
<1> HIDE DEF T
<1>3. n \in T
  <2>1. 0 .. n \subseteq T
    BY <1>1, <1>2, StepsReach
  <2> QED
    BY <2>1
<1> QED
  BY <1>3 DEF T, Recursive

States == [files : [Fds -> File], bytes : [Inodes -> Seq(Progs)], wild : BOOLEAN]
Entries == Fds \union {-1, ERR_PERMS}

LEMMA EmptiedTyped ==
  ASSUME NEW b \in [Inodes -> Seq(Progs)], NEW i
  PROVE  [b EXCEPT ![i] = <<>>] \in [Inodes -> Seq(Progs)]
<1>1. <<>> \in Seq(Progs)
  OBVIOUS
<1> QED
  BY <1>1, Zenon

LEMMA CloseTyped ==
  ASSUME NEW st \in States, NEW fd \in Entries
  PROVE  FdClose(st, fd) \in States
<1> USE DEF States
<1>1. CASE fd = -1
  BY <1>1 DEF FdClose
<1>2. CASE fd # -1 /\ fd \notin Fds
  BY <1>2 DEF FdClose
<1>3. CASE fd # -1 /\ fd \in Fds
  <2>1. st.files[fd] \in File
    BY <1>3
  <2>2. CASE st.files[fd].used > 0
    <3>1. st.files[fd].used - 1 \in Nat
      BY <2>1, <2>2 DEF File
    <3>2. [st.files EXCEPT ![fd].used = @ - 1] \in [Fds -> File]
      BY <2>1, <3>1, <1>3 DEF File
    <3>3. FdClose(st, fd) = [st EXCEPT !.files = [st.files EXCEPT ![fd].used = @ - 1]]
      BY <1>3, <2>2 DEF FdClose
    <3> QED
      BY <3>2, <3>3
  <2>3. CASE ~(st.files[fd].used > 0) /\ st.files[fd].type = "fifo"
    <3>1. [st.bytes EXCEPT ![st.files[fd].data] = <<>>] \in [Inodes -> Seq(Progs)]
      BY EmptiedTyped
    <3>2. FdClose(st, fd) = [st EXCEPT !.bytes = [st.bytes EXCEPT ![st.files[fd].data] = <<>>]]
      BY <1>3, <2>3 DEF FdClose
    <3> QED
      BY <3>1, <3>2
  <2>4. CASE ~(st.files[fd].used > 0) /\ st.files[fd].type # "fifo"
    BY <1>3, <2>4 DEF FdClose
  <2> QED
    BY <2>2, <2>3, <2>4
<1> QED
  BY <1>1, <1>2, <1>3

\* What holds before the first slot is closed, and is kept by closing a slot,
\* holds when all are closed.
LEMMA CloseAll ==
  ASSUME table \in Tables, State \in States, NEW p \in Progs,
         NEW from \in 0 .. NSlots, NEW to \in from - 1 .. NSlots - 1,
         NEW T, <<from - 1, State>> \in T,
         \A s \in from .. to, st \in States :
           <<s - 1, st>> \in T => <<s, FdClose(st, table[p][s])>> \in T
  PROVE  FdCloseAll(p, from, to) \in States /\ <<to, FdCloseAll(p, from, to)>> \in T
<1> DEFINE n == to - (from - 1)
           at(k) == from - 1 + k
           h == [k \in 1 .. n |-> [v \in States |-> FdClose(v, table[p][at(k)])]]
           Rec(c) == c = [s \in from - 1 .. to |->
                           IF s = from - 1 THEN State ELSE FdClose(c[s - 1], table[p][s])]
           closed == CHOOSE c : Rec(c)
<1>0. NSlots \in Nat /\ from \in Nat /\ to \in Int /\ n \in Nat /\ at(n) = to /\ at(0) = from - 1
  BY Sizes
<1>1. ASSUME NEW s \in from .. to PROVE s \in Slots /\ table[p][s] \in Entries
  <2>1. s \in Slots
    BY <1>0 DEF Slots
  <2> QED
    BY <2>1 DEF Tables, Entries
<1>2. \A k \in 1 .. n : at(k) \in from .. to /\ at(k) - 1 = at(k - 1) /\ k - 1 \in 0 .. n
  BY <1>0
<1>3. h \in [1 .. n -> [States -> States]]
  BY <1>1, <1>2, CloseTyped
<1>4. PICK r \in [0 .. n -> States] : r[0] = State /\ \A k \in 1 .. n : r[k] = h[k][r[k - 1]]
  <2> HIDE DEF n, h
  <2>1. Recursive(States, n, State, h)
    BY <1>0, <1>3, Recursion
  <2> QED
    BY <2>1 DEF Recursive
<1>5. \A k \in 1 .. n : r[k] = FdClose(r[k - 1], table[p][at(k)])
  BY <1>2, <1>4
<1>6. \E c : Rec(c)
  <2> DEFINE c == [s \in from - 1 .. to |-> r[s - (from - 1)]]
  <2>1. ASSUME NEW s \in from - 1 .. to
        PROVE  c[s] = IF s = from - 1 THEN State ELSE FdClose(c[s - 1], table[p][s])
    <3>1. CASE s = from - 1
      <4>1. s - (from - 1) = 0
        BY <3>1, <1>0
      <4>2. c[s] = r[s - (from - 1)]
        OBVIOUS
      <4> HIDE DEF c
      <4> QED
        BY <4>1, <4>2, <3>1, <1>4
    <3>2. CASE s # from - 1
      <4>1. s - (from - 1) \in 1 .. n /\ at(s - (from - 1)) = s /\ s - 1 \in from - 1 .. to
            /\ (s - (from - 1)) - 1 = (s - 1) - (from - 1)
        BY <3>2, <1>0
      <4>2. c[s - 1] = r[(s - 1) - (from - 1)] /\ c[s] = r[s - (from - 1)]
        BY <4>1
      <4> HIDE DEF c, at, n
      <4> QED
        BY <4>1, <4>2, <1>5, <3>2
    <3> QED
      BY <3>1, <3>2
  <2>2. c = [s \in from - 1 .. to |-> c[s]]
    OBVIOUS
  <2> HIDE DEF c
  <2>3. Rec(c)
    BY <2>1, <2>2
  <2> QED
    BY <2>3
<1>7. Rec(closed)
  <2> HIDE DEF Rec
  <2> QED
    BY <1>6
<1>8. FdCloseAll(p, from, to) = closed[to]
  BY DEF FdCloseAll
<1> HIDE DEF closed
<1> DEFINE R == {k \in 0 .. n : closed[at(k)] \in States /\ <<at(k), closed[at(k)]>> \in T}
<1>9. 0 \in R
  <2>1. closed[from - 1] = State
    BY <1>0, <1>7
  <2> QED
    BY <2>1, <1>0
<1>10. ASSUME NEW k \in 0 .. n, k # n, k \in R PROVE k + 1 \in R
  <2> DEFINE s == at(k + 1)
  <2>1. k + 1 \in 0 .. n /\ s \in from .. to /\ s - 1 = at(k) /\ s # from - 1 /\ s \in from - 1 .. to
    BY <1>0, <1>10
  <2>2. closed[s] = FdClose(closed[s - 1], table[p][s])
    <3> HIDE DEF s
    <3> QED
      BY <1>7, <2>1
  <2>3. closed[s - 1] \in States /\ <<s - 1, closed[s - 1]>> \in T
    BY <1>10, <2>1
  <2> HIDE DEF s
  <2>4. closed[s] \in States
    BY <2>1, <2>2, <2>3, <1>1, CloseTyped
  <2>5. <<s, closed[s]>> \in T
    BY <2>1, <2>2, <2>3
  <2> QED
    BY <2>1, <2>4, <2>5 DEF s
<1>11. n \in R
  <2> HIDE DEF R, n
  <2>1. 0 .. n \subseteq R
    BY <1>0, <1>9, <1>10, StepsReach
  <2> QED
    BY <2>1, <1>0
<1> QED
  BY <1>8, <1>11, <1>0

LEMMA CloseGives ==
  ASSUME NEW st \in States, NEW fd \in Entries
  PROVE  LET c == FdClose(st, fd) IN
         /\ \A g \in Fds : /\ c.files[g].type = st.files[g].type
                           /\ c.files[g].data = st.files[g].data
                           /\ c.files[g].used =
                                IF g = fd /\ st.files[g].used > 0
                                THEN st.files[g].used - 1 ELSE st.files[g].used
         /\ \A i \in Inodes : c.bytes[i] \in {st.bytes[i], <<>>}
         /\ fd \in Fds \union {-1}
              /\ (fd \in Fds => st.files[fd].used > 0 \/ st.files[fd].type = "fifo")
              => c.wild = st.wild
<1> USE DEF States
<1>1. CASE fd = -1
  <2>1. fd \notin Fds
    BY <1>1, Sizes
  <2> QED
    BY <1>1, <2>1 DEF FdClose
<1>2. CASE fd # -1 /\ fd \notin Fds
  BY <1>2 DEF FdClose
<1>3. CASE fd # -1 /\ fd \in Fds
  <2>1. st.files[fd] \in File
    BY <1>3
  <2>2. CASE st.files[fd].used > 0
    <3>1. FdClose(st, fd) = [st EXCEPT !.files = [st.files EXCEPT ![fd].used = @ - 1]]
      BY <1>3, <2>2 DEF FdClose
    <3> QED
      BY <1>3, <2>1, <2>2, <3>1 DEF File
  <2>3. CASE ~(st.files[fd].used > 0) /\ st.files[fd].type = "fifo"
    <3>1. FdClose(st, fd) = [st EXCEPT !.bytes = [st.bytes EXCEPT ![st.files[fd].data] = <<>>]]
      BY <1>3, <2>3 DEF FdClose
    <3>2. \A i \in Inodes : [st.bytes EXCEPT ![st.files[fd].data] = <<>>][i] \in {st.bytes[i], <<>>}
      OBVIOUS
    <3> QED
      BY <1>3, <2>1, <2>3, <3>1, <3>2
  <2>4. CASE ~(st.files[fd].used > 0) /\ st.files[fd].type # "fifo"
    BY <1>3, <2>1, <2>4 DEF FdClose
  <2> QED
    BY <2>2, <2>3, <2>4
<1> QED
  BY <1>1, <1>2, <1>3

\* No descriptor becomes another by being closed, and no bytes are added.
Less(st) ==
  /\ \A g \in Fds : /\ st.files[g].type = files[g].type
                    /\ st.files[g].data = files[g].data
                    /\ st.files[g].used <= files[g].used
  /\ \A i \in Inodes : st.bytes[i] \in {bytes[i], <<>>}

LEMMA LessTyped ==
  ASSUME KernelTyped, NEW st \in States, Less(st)
  PROVE  /\ FilesIn(st.files) /\ st.bytes \in [Inodes -> Seq(Progs)] /\ st.wild \in BOOLEAN
         /\ \A i \in Inodes : Len(st.bytes[i]) <= MaxBytes
<1>1. ASSUME NEW g \in Fds PROVE st.files[g].type = "fifo" => st.files[g].used = 0 \/ st.files[g].data # 0
  <2>1. files[g] \in File /\ st.files[g] \in File
    BY DEF KernelTyped, FilesTyped, FilesIn, States
  <2>2. /\ st.files[g].type = files[g].type /\ st.files[g].data = files[g].data
        /\ st.files[g].used <= files[g].used
    BY DEF Less
  <2>3. files[g].type = "fifo" => files[g].used = 0 \/ files[g].data # 0
    BY DEF KernelTyped, FilesTyped, FilesIn
  <2> QED
    BY <2>1, <2>2, <2>3 DEF File
<1>2. ASSUME NEW i \in Inodes PROVE Len(st.bytes[i]) <= MaxBytes
  <2>1. Len(bytes[i]) <= MaxBytes
    BY DEF KernelTyped, BytesTyped
  <2>2. Len(<<>>) <= MaxBytes
    BY Sizes
  <2>3. st.bytes[i] \in {bytes[i], <<>>}
    BY DEF Less
  <2> QED
    BY <2>1, <2>2, <2>3
<1>3. st.files[Tty].type = "tty"
  BY Sizes DEF KernelTyped, FilesTyped, FilesIn, Less
<1> QED
  BY <1>1, <1>2, <1>3 DEF States, FilesIn

LEMMA StateTyped == ASSUME KernelTyped PROVE State \in States /\ Less(State)
<1>1. \A g \in Fds : files[g] \in File
  BY DEF KernelTyped, FilesTyped, FilesIn
<1> QED
  BY <1>1 DEF KernelTyped, FilesTyped, FilesIn, BytesTyped, State, States, Less, File

LEMMA CloseLess ==
  ASSUME KernelTyped, NEW st \in States, Less(st), NEW fd \in Entries
  PROVE  Less(FdClose(st, fd))
<1> DEFINE c == FdClose(st, fd)
<1>1. c \in States
  BY CloseTyped
<1>2. \A g \in Fds : files[g].used \in Nat /\ st.files[g].used \in Nat
  BY DEF KernelTyped, FilesTyped, FilesIn, States, File
<1>3. /\ \A g \in Fds : /\ c.files[g].type = st.files[g].type
                        /\ c.files[g].data = st.files[g].data
                        /\ c.files[g].used \in {st.files[g].used, st.files[g].used - 1}
      /\ \A i \in Inodes : c.bytes[i] \in {st.bytes[i], <<>>}
  BY CloseGives
<1> HIDE DEF c
<1>4. Less(c)
  BY <1>2, <1>3 DEF Less
<1> QED
  BY <1>4 DEF c

LEMMA CloseAllLess ==
  ASSUME KernelTyped, table \in Tables, NEW p \in Progs,
         NEW from \in 0 .. NSlots, NEW to \in from - 1 .. NSlots - 1
  PROVE  FdCloseAll(p, from, to) \in States /\ Less(FdCloseAll(p, from, to))
<1> DEFINE T == (from - 1 .. to) \X {st \in States : Less(st)}
<1>1. State \in States /\ Less(State)
  BY StateTyped
<1>2. from - 1 \in from - 1 .. to
  BY Sizes
<1>3. <<from - 1, State>> \in T
  BY <1>1, <1>2
<1>4. ASSUME NEW s \in from .. to, NEW st \in States, <<s - 1, st>> \in T
      PROVE  <<s, FdClose(st, table[p][s])>> \in T
  <2>1. s \in Slots /\ s \in from - 1 .. to
    BY Sizes DEF Slots
  <2>2. table[p][s] \in Entries
    BY <2>1 DEF Tables, Entries
  <2>3. Less(st)
    BY <1>4
  <2> QED
    BY <2>1, <2>2, <2>3, CloseTyped, CloseLess
<1> HIDE DEF T
<1>5. FdCloseAll(p, from, to) \in States /\ <<to, FdCloseAll(p, from, to)>> \in T
  BY <1>1, <1>3, <1>4, CloseAll
<1> QED
  BY <1>5 DEF T

-----------------------------------------------------------------------------
(* Opening *)

\* There is an inode for each name, and this name has none.
LEMMA FreeInode ==
  ASSUME dir \in Dirs, kind \in Kinds, Named, NEW name \in Names, dir[name] = 0
  PROVE  \E i \in Inodes : kind[i] = "free"
<1>1. SUFFICES ASSUME \A i \in Inodes : kind[i] # "free" PROVE FALSE
  OBVIOUS
<1> DEFINE Others == Names \ {name}
           f == [i \in Inodes |-> CHOOSE n \in Names : dir[n] = i]
<1>2. ASSUME NEW i \in Inodes PROVE f[i] \in Others /\ dir[f[i]] = i
  <2>1. \E n \in Names : dir[n] = i
    BY <1>1 DEF Named, NamedIn
  <2>2. f[i] \in Names /\ dir[f[i]] = i
    BY <2>1
  <2>3. i # 0
    BY Sizes
  <2> QED
    BY <2>2, <2>3
<1>3. IsFiniteSet(Names) /\ Cardinality(Names) = NProgs + 2
  <2>1. NProgs + 2 \in Int /\ NProgs + 2 >= 1
    BY Sizes
  <2>2. IsFiniteSet(1 .. NProgs + 2)
        /\ Cardinality(1 .. NProgs + 2) = IF 1 > NProgs + 2 THEN 0 ELSE (NProgs + 2) - 1 + 1
    BY <2>1, FS_Interval
  <2> QED
    BY <2>1, <2>2, Sizes DEF Names
<1>4. IsFiniteSet(Others) /\ Cardinality(Others) = NProgs + 1
  <2>1. /\ IsFiniteSet(Names \ {name})
        /\ Cardinality(Names \ {name}) = IF name \in Names THEN Cardinality(Names) - 1 ELSE Cardinality(Names)
    BY <1>3, FS_RemoveElement
  <2> QED
    BY <2>1, <1>3, Sizes
<1>5. IsFiniteSet(Inodes) /\ Cardinality(Inodes) = NInodes
  <2>1. NInodes \in Int /\ NInodes >= 1 /\ NInodes - 1 + 1 = NInodes
    BY DescriptorsAssumption
  <2>2. IsFiniteSet(1 .. NInodes)
        /\ Cardinality(1 .. NInodes) = IF 1 > NInodes THEN 0 ELSE NInodes - 1 + 1
    BY <2>1, FS_Interval
  <2> QED
    BY <2>1, <2>2 DEF Inodes
<1>6. f \in [Inodes -> Others]
  BY <1>2
<1>7. Cardinality(Others) < Cardinality(Inodes)
  BY <1>4, <1>5, DescriptorsAssumption
<1>8. \E x, y \in Inodes : x # y /\ f[x] = f[y]
  <2> HIDE DEF f, Others
  <2> QED
    BY <1>4, <1>5, <1>6, <1>7, FS_PigeonHole
<1> HIDE DEF f
<1> QED
  BY <1>2, <1>8

LEMMA Least ==
  ASSUME NEW S \in SUBSET Nat, S # {}
  PROVE  /\ (CHOOSE s \in S : \A t \in S : s <= t) \in S
         /\ \A t \in S : (CHOOSE s \in S : \A u \in S : s <= u) <= t
<1>1. IsWellFoundedOn(OpToRel(<, Nat), Nat)
  BY NatLessThanWellFounded
<1>2. PICK s \in S : \A t \in S : ~ (<<t, s>> \in OpToRel(<, Nat))
  BY <1>1, WFMin
<1>3. \A t \in S : t < s => <<t, s>> \in OpToRel(<, Nat)
  BY DEF OpToRel
<1>4. \E m \in S : \A t \in S : m <= t
  <2>1. \A t \in S : ~(t < s) /\ t \in Nat /\ s \in Nat
    BY <1>2, <1>3
  <2> QED
    BY <2>1
<1> QED
  BY <1>4

\* What fs_open_file gives: the inode of the name, or a new one, or an error.
LEMMA FsOpenGives ==
  ASSUME dir \in Dirs, kind \in Kinds, Named, NEW name \in Names, NEW new \in BOOLEAN,
         NEW type \in {"fifo", "file"}, NEW r \in FsOpen(name, new, type)
  PROVE  /\ r.ino \in Inodes \union {ERR_PERMS, ERR_NO_EXIST}
         /\ r.ino = ERR_NO_EXIST => ~new
         /\ r.ino \in Inodes => r.dir[name] = r.ino
         /\ \/ r.dir = dir /\ r.kind = kind
            \/ /\ r.ino \in Inodes /\ dir[name] = 0 /\ kind[r.ino] = "free"
               /\ r.dir = [dir EXCEPT ![name] = r.ino]
               /\ r.kind = [kind EXCEPT ![r.ino] = type]
<1> USE DEF ERR_PERMS, ERR_NO_EXIST
<1>1. CASE dir[name] # 0
  <2>1. dir[name] \in Inodes
    BY <1>1 DEF Dirs
  <2>2. r.ino \in {dir[name], ERR_PERMS} /\ r.dir = dir /\ r.kind = kind
    BY <1>1 DEF FsOpen
  <2>3. ERR_PERMS # ERR_NO_EXIST /\ ERR_PERMS \notin Inodes /\ ERR_NO_EXIST \notin Inodes
    BY Sizes
  <2> QED
    BY <2>1, <2>2, <2>3
<1>2. CASE dir[name] = 0 /\ ~new
  BY <1>2, Sizes DEF FsOpen
<1>3. CASE dir[name] = 0 /\ new
  <2> DEFINE free == {i \in Inodes : kind[i] = "free"}
             made == CHOOSE i \in free : \A j \in free : i <= j
  <2>1. made \in free
    <3>1. free \in SUBSET Nat /\ free # {}
      BY <1>3, FreeInode, Sizes
    <3> HIDE DEF free
    <3> QED
      BY <3>1, Least
  <2>2. \/ r.ino = ERR_PERMS /\ r.dir = dir /\ r.kind = kind
        \/ r.ino = made /\ r.dir = [dir EXCEPT ![name] = made] /\ r.kind = [kind EXCEPT ![made] = type]
    <3>1. r \in {[ino |-> ERR_PERMS, dir |-> dir, kind |-> kind],
                 [ino |-> made, dir |-> [dir EXCEPT ![name] = made],
                  kind |-> [kind EXCEPT ![made] = type]]}
      BY <1>3, Zenon DEF FsOpen
    <3> HIDE DEF made
    <3> QED
      BY <3>1
  <2> HIDE DEF made
  <2>3. CASE r.ino = ERR_PERMS /\ r.dir = dir /\ r.kind = kind
    BY <2>3, <1>3, Sizes
  <2>4. CASE r.ino = made /\ r.dir = [dir EXCEPT ![name] = made] /\ r.kind = [kind EXCEPT ![made] = type]
    BY <2>4, <2>1, <1>3, Sizes DEF Dirs
  <2> QED
    BY <2>2, <2>3, <2>4
<1> QED
  BY <1>1, <1>2, <1>3

LEMMA MadeNamed ==
  ASSUME dir \in Dirs, kind \in Kinds, Named, NEW name \in Names, NEW i \in Inodes,
         NEW type \in {"fifo", "file"}, dir[name] = 0, kind[i] = "free"
  PROVE  /\ [dir EXCEPT ![name] = i] \in Dirs /\ [kind EXCEPT ![i] = type] \in Kinds
         /\ NamedIn([dir EXCEPT ![name] = i], [kind EXCEPT ![i] = type])
<1> DEFINE d == [dir EXCEPT ![name] = i]
           k == [kind EXCEPT ![i] = type]
<1>1. d \in Dirs /\ k \in Kinds
  BY DEF Dirs, Kinds
<1>2. /\ d[name] = i /\ \A n \in Names : n # name => d[n] = dir[n]
      /\ k[i] = type /\ \A j \in Inodes : j # i => k[j] = kind[j]
  BY DEF Dirs, Kinds
<1>3. \A n \in Names : dir[n] # i
  BY Sizes DEF Named, NamedIn
<1>4. i # 0 /\ type # "free"
  BY Sizes
<1> HIDE DEF d, k
<1>5. ASSUME NEW j \in Inodes, k[j] # "free" PROVE \E n \in Names : d[n] = j
  <2>1. CASE j = i
    BY <2>1, <1>2
  <2>2. CASE j # i
    <3>1. PICK n \in Names : dir[n] = j
      BY <2>2, <1>2, <1>5 DEF Named, NamedIn
    <3>2. n # name
      BY <3>1, Sizes
    <3> QED
      BY <3>1, <3>2, <1>2
  <2> QED
    BY <2>1, <2>2
<1>6. ASSUME NEW n \in Names, d[n] # 0 PROVE k[d[n]] # "free"
  <2>1. CASE n = name
    BY <2>1, <1>2, <1>4
  <2>2. CASE n # name
    <3>1. d[n] = dir[n] /\ dir[n] # i /\ dir[n] \in Inodes
      BY <2>2, <1>2, <1>3, <1>6 DEF Dirs
    <3> QED
      BY <3>1, <1>2, <1>6 DEF Named, NamedIn
  <2> QED
    BY <2>1, <2>2
<1>7. ASSUME NEW n \in Names, NEW m \in Names, d[n] = d[m], d[n] # 0 PROVE n = m
  BY <1>2, <1>3, <1>7 DEF Named, NamedIn
<1>8. NamedIn(d, k)
  BY <1>5, <1>6, <1>7 DEF NamedIn
<1> QED
  BY <1>1, <1>8 DEF d, k

FdsOf(type) == IF type = "fifo" THEN FifoFds ELSE FileFds

LEMMA AllocatedGives ==
  ASSUME AllocIn(alloc), NEW type \in {"fifo", "file"}
  PROVE  /\ AllocIn(Allocated(type).alloc)
         /\ Allocated(type).fd \in FdsOf(type) \union {-1}
         /\ Allocated(type).fd # -1 => Allocated(type).fd = alloc[type].index
<1> DEFINE a == alloc[type]
           next == IF a.index + 1 = First(type) + Many(type) - 1 THEN First(type) ELSE a.index + 1
<1>1. /\ a \in Alloc /\ a.index \in Nat /\ a.size \in Nat
      /\ a.index \in First(type) .. First(type) + Many(type) - 2
      /\ First(type) \in Nat /\ Many(type) \in Nat /\ Many(type) > 2
  BY Ranges DEF AllocIn, Alloc
<1>2. a.index \in FdsOf(type)
  <2>1. a.index \in First(type) .. First(type) + Many(type) - 1
    BY <1>1
  <2> QED
    BY <2>1, Ranges DEF FdsOf
<1>3. next \in First(type) .. First(type) + Many(type) - 2
  BY <1>1
<1>4. CASE a.size + 1 = Many(type) - 1
  <2>1. Allocated(type) = [fd |-> -1, alloc |-> [alloc EXCEPT ![type].size = @ + 1]]
    BY <1>4 DEF Allocated
  <2>2. AllocIn([alloc EXCEPT ![type].size = @ + 1])
    BY <1>1 DEF AllocIn, Alloc
  <2> QED
    BY <2>1, <2>2
<1>5. CASE a.size + 1 # Many(type) - 1
  <2>1. Allocated(type) = [fd |-> a.index,
                           alloc |-> [alloc EXCEPT ![type] = [index |-> next, size |-> a.size + 1]]]
    BY <1>5 DEF Allocated
  <2> HIDE DEF next
  <2>2. next \in Nat
    BY <1>1, <1>3
  <2>3. [index |-> next, size |-> a.size + 1] \in Alloc
    BY <1>1, <2>2 DEF Alloc
  <2>4. AllocIn([alloc EXCEPT ![type] = [index |-> next, size |-> a.size + 1]])
    BY <1>1, <1>3, <2>3 DEF AllocIn
  <2> QED
    BY <2>1, <2>4, <1>2
<1> QED
  BY <1>4, <1>5

Led(fd) == \E h \in Holds : table[h[1]][h[2]] = fd

\* What fd_open makes of the descriptor whose turn it is
OpenedAs(type, o) ==
  [type |-> IF o.ino > 0 /\ o.kind[o.ino] = "fifo" THEN "fifo" ELSE type,
   data |-> IF o.ino > 0 THEN o.ino ELSE 0,
   used |-> IF o.ino > 0 THEN 1 ELSE 0]

NoneLeft(type, r) ==
  /\ Allocated(type).fd = -1
  /\ r.fd = -1 /\ r.files = files /\ r.dir = dir /\ r.kind = kind
  /\ r.slip = slip \union (IF type = "fifo" THEN {"full"} ELSE {})
Shared(type, r) ==
  /\ Allocated(type).fd # -1 /\ files[Allocated(type).fd].used > 0
  /\ r.fd = Allocated(type).fd /\ r.dir = dir /\ r.kind = kind
  /\ r.files = [files EXCEPT ![Allocated(type).fd].used = @ + 1]
  /\ r.slip = slip \union {"wrapped"}
Made(type, name, new, r) ==
  /\ Allocated(type).fd # -1 /\ ~(files[Allocated(type).fd].used > 0)
  /\ r.slip = slip \union (IF Led(Allocated(type).fd) THEN {"wrapped"} ELSE {})
  /\ \E o \in FsOpen(name, new, type) :
       /\ r.fd = IF o.ino > 0 THEN Allocated(type).fd ELSE o.ino
       /\ r.files = [files EXCEPT ![Allocated(type).fd] = OpenedAs(type, o)]
       /\ r.dir = o.dir /\ r.kind = o.kind

LEMMA FdOpenCases ==
  ASSUME NEW type, NEW name, NEW new, NEW r \in FdOpen(type, name, new)
  PROVE  /\ r.alloc = Allocated(type).alloc
         /\ NoneLeft(type, r) \/ Shared(type, r) \/ Made(type, name, new, r)
<1> DEFINE a == Allocated(type)
<1>1. CASE a.fd = -1
  <2>1. r = [fd |-> -1, files |-> files, alloc |-> a.alloc, dir |-> dir, kind |-> kind,
             slip |-> slip \union (IF type = "fifo" THEN {"full"} ELSE {})]
    BY <1>1 DEF FdOpen
  <2> QED
    BY <1>1, <2>1 DEF NoneLeft
<1>2. CASE a.fd # -1 /\ files[a.fd].used > 0
  <2>1. r = [fd |-> a.fd, files |-> [files EXCEPT ![a.fd].used = @ + 1], alloc |-> a.alloc,
             dir |-> dir, kind |-> kind, slip |-> slip \union {"wrapped"}]
    BY <1>2 DEF FdOpen
  <2> QED
    BY <1>2, <2>1 DEF Shared
<1>3. CASE a.fd # -1 /\ ~(files[a.fd].used > 0)
  <2>1. PICK o \in FsOpen(name, new, type) :
          r = [fd |-> IF o.ino > 0 THEN a.fd ELSE o.ino,
               files |-> [files EXCEPT ![a.fd] = OpenedAs(type, o)],
               alloc |-> a.alloc, dir |-> o.dir, kind |-> o.kind,
               slip |-> slip \union (IF Led(a.fd) THEN {"wrapped"} ELSE {})]
    BY <1>3, Zenon DEF FdOpen, OpenedAs, Led
  <2> HIDE DEF a
  <2>2. /\ r.fd = IF o.ino > 0 THEN a.fd ELSE o.ino
        /\ r.files = [files EXCEPT ![a.fd] = OpenedAs(type, o)]
        /\ r.alloc = a.alloc /\ r.dir = o.dir /\ r.kind = o.kind
        /\ r.slip = slip \union (IF Led(a.fd) THEN {"wrapped"} ELSE {})
    BY <2>1, Zenon
  <2> QED
    BY <1>3, <2>2, Zenon DEF Made, a
<1> QED
  BY <1>1, <1>2, <1>3

LEMMA OpenedAsTyped ==
  ASSUME dir \in Dirs, kind \in Kinds, Named, NEW name \in Names, NEW new \in BOOLEAN,
         NEW type \in {"fifo", "file"}, NEW o \in FsOpen(name, new, type)
  PROVE  /\ OpenedAs(type, o) \in File
         /\ OpenedAs(type, o).used = 0 \/ OpenedAs(type, o).data # 0
         /\ o.ino > 0 => o.ino \in Inodes
         /\ o.ino \in Inodes => o.ino > 0
<1>1. o.ino \in Inodes \/ o.ino = -2 \/ o.ino = -3
  BY FsOpenGives DEF ERR_PERMS, ERR_NO_EXIST
<1>2. \A i \in Inodes : i \in Nat /\ i > 0
  BY Sizes
<1> QED
  BY <1>1, <1>2 DEF OpenedAs, File

\* What an open leaves, for the kernel's own memory
OpenKeeps(type, new, r) ==
  /\ r.fd \in FdsOf(type) \union {-1, ERR_PERMS, ERR_NO_EXIST}
  /\ r.fd = ERR_NO_EXIST => ~new
  /\ FilesIn(r.files) /\ AllocIn(r.alloc)
  /\ r.dir \in Dirs /\ r.kind \in Kinds /\ NamedIn(r.dir, r.kind)
  /\ \A g \in Fds \ FdsOf(type) : r.files[g] = files[g]
  /\ slip \subseteq r.slip

LEMMA FdOpenKeeps ==
  ASSUME KernelTyped, Named, NEW name \in Names, NEW new \in BOOLEAN,
         NEW type \in {"fifo", "file"}, NEW r \in FdOpen(type, name, new)
  PROVE  OpenKeeps(type, new, r)
<1> DEFINE fd == Allocated(type).fd
<1>0. /\ AllocIn(r.alloc)
      /\ NoneLeft(type, r) \/ Shared(type, r) \/ Made(type, name, new, r)
      /\ fd \in FdsOf(type) \union {-1}
  BY FdOpenCases, AllocatedGives DEF KernelTyped, AllocTyped
<1>1. /\ files \in [Fds -> File] /\ dir \in Dirs /\ kind \in Kinds /\ FilesIn(files)
      /\ FdsOf(type) \subseteq Fds /\ Tty \in Fds /\ Tty \notin FdsOf(type) /\ files[Tty].type = "tty"
  BY Sizes DEF KernelTyped, FilesTyped, FilesIn, FdsOf, Fds, Tty
<1> HIDE DEF fd
<1>2. CASE NoneLeft(type, r)
  BY <1>0, <1>1, <1>2 DEF OpenKeeps, NoneLeft, ERR_NO_EXIST, Named
<1>3. CASE Shared(type, r)
  <2>1. fd \in FdsOf(type) /\ r.fd = fd /\ r.files = [files EXCEPT ![fd].used = @ + 1]
    BY <1>0, <1>3 DEF Shared, fd
  <2>2. files[fd] \in File /\ files[fd].used + 1 \in Nat
    BY <1>1, <2>1 DEF File
  <2>3. r.files \in [Fds -> File]
    BY <1>1, <2>1, <2>2 DEF File
  <2>4. fd \in Fds /\ fd \in Nat
    BY <1>1, <2>1, Sizes
  <2>5. fd # ERR_NO_EXIST
    BY <2>4 DEF ERR_NO_EXIST
  <2>6. r.dir = dir /\ r.kind = kind /\ slip \subseteq r.slip
    BY <1>3 DEF Shared
  <2>7. /\ r.files[fd].type = files[fd].type /\ r.files[fd].data = files[fd].data
        /\ \A g \in Fds : g # fd => r.files[g] = files[g]
    BY <1>1, <2>1, <2>2, <2>4 DEF File
  <2>9. FilesIn(r.files)
    <3>1. SUFFICES ASSUME NEW g \in Fds, r.files[g].type = "fifo"
                   PROVE  r.files[g].used = 0 \/ r.files[g].data # 0
      BY <1>1, <2>1, <2>3, <2>7 DEF FilesIn
    <3>2. CASE g # fd
      BY <2>7, <3>1, <3>2, <1>1 DEF FilesIn
    <3>3. CASE g = fd
      <4>1. files[fd].used > 0 /\ files[fd].used \in Nat
        BY <1>3, <2>2 DEF Shared, fd, File
      <4>2. files[fd].used = 0 \/ files[fd].data # 0
        BY <2>4, <2>7, <3>1, <3>3, <1>1 DEF FilesIn
      <4> QED
        BY <4>1, <4>2, <2>7, <3>3
    <3> QED
      BY <3>2, <3>3
  <2> QED
    BY <1>0, <1>1, <2>1, <2>5, <2>6, <2>7, <2>9 DEF OpenKeeps, Named
<1>4. CASE Made(type, name, new, r)
  <2>1. PICK o \in FsOpen(name, new, type) :
          /\ r.fd = IF o.ino > 0 THEN fd ELSE o.ino
          /\ r.files = [files EXCEPT ![fd] = OpenedAs(type, o)]
          /\ r.dir = o.dir /\ r.kind = o.kind
    BY <1>4 DEF Made, fd
  <2>2. fd \in FdsOf(type) /\ slip \subseteq r.slip
    BY <1>0, <1>4 DEF Made, fd
  <2>3. /\ OpenedAs(type, o) \in File
        /\ OpenedAs(type, o).used = 0 \/ OpenedAs(type, o).data # 0
        /\ o.ino > 0 => o.ino \in Inodes
        /\ o.ino \in Inodes => o.ino > 0
    BY <1>1, OpenedAsTyped
  <2>4. FilesIn(r.files) /\ \A g \in Fds \ FdsOf(type) : r.files[g] = files[g]
    BY <1>1, <2>1, <2>2, <2>3 DEF FilesIn
  <2>5. /\ o.ino \in Inodes \union {ERR_PERMS, ERR_NO_EXIST}
        /\ o.ino = ERR_NO_EXIST => ~new
        /\ \/ o.dir = dir /\ o.kind = kind
           \/ /\ o.ino \in Inodes /\ dir[name] = 0 /\ kind[o.ino] = "free"
              /\ o.dir = [dir EXCEPT ![name] = o.ino]
              /\ o.kind = [kind EXCEPT ![o.ino] = type]
    BY <1>1, FsOpenGives
  <2>6. o.dir \in Dirs /\ o.kind \in Kinds /\ NamedIn(o.dir, o.kind)
    <3>1. CASE o.dir = dir /\ o.kind = kind
      BY <3>1, <1>1 DEF Named
    <3>2. CASE /\ o.ino \in Inodes /\ dir[name] = 0 /\ kind[o.ino] = "free"
               /\ o.dir = [dir EXCEPT ![name] = o.ino]
               /\ o.kind = [kind EXCEPT ![o.ino] = type]
      <4>1. /\ [dir EXCEPT ![name] = o.ino] \in Dirs /\ [kind EXCEPT ![o.ino] = type] \in Kinds
            /\ NamedIn([dir EXCEPT ![name] = o.ino], [kind EXCEPT ![o.ino] = type])
        BY <3>2, <1>1, MadeNamed
      <4> QED
        BY <3>2, <4>1, Zenon
    <3> QED
      BY <2>5, <3>1, <3>2
  <2>7. r.fd \in FdsOf(type) \union {-1, ERR_PERMS, ERR_NO_EXIST} /\ (r.fd = ERR_NO_EXIST => ~new)
    <3>1. CASE o.ino > 0
      <4>1. r.fd \in Nat
        BY <3>1, <2>1, <2>2, <1>1, Sizes
      <4> QED
        BY <4>1, <3>1, <2>1, <2>2 DEF ERR_NO_EXIST
    <3>2. CASE ~(o.ino > 0)
      BY <3>2, <2>1, <2>3, <2>5
    <3> QED
      BY <3>1, <3>2
  <2> QED
    BY <1>0, <2>1, <2>2, <2>4, <2>6, <2>7 DEF OpenKeeps
<1> QED
  BY <1>0, <1>2, <1>3, <1>4

LEMMA FreeSlotIs ==
  ASSUME NEW p, ~Loops(p)
  PROVE  FreeSlot(p) \in Slots /\ table[p][FreeSlot(p)] = -1
<1> DEFINE S == FreeSlots(p)
<1>1. S \in SUBSET Nat /\ S # {}
  BY Sizes DEF FreeSlots, Loops
<1>2. FreeSlot(p) = CHOOSE s \in S : \A t \in S : s <= t
  BY DEF FreeSlot
<1> HIDE DEF S
<1>3. FreeSlot(p) \in S
  BY <1>1, <1>2, Least
<1> QED
  BY <1>3 DEF S, FreeSlots

LEMMA TableSet ==
  ASSUME table \in Tables, NEW p \in Progs \union {Shell}, NEW s \in Slots, NEW e \in Entries,
         NEW new, new = [table EXCEPT ![p][s] = e]
  PROVE  /\ new \in Tables /\ new[p][s] = e
         /\ \A q \in Progs \union {Shell}, u \in Slots :
              q # p \/ u # s => new[q][u] = table[q][u]
BY DEF Tables, Entries

\* What a call that opens leaves
OpenLeaves(p, type) ==
  /\ KernelTyped' /\ Named' /\ table' \in Tables
  /\ files'[Tty] = files[Tty]
  /\ \A g \in Fds \ FdsOf(type) : files'[g] = files[g]
  /\ slip \subseteq slip'
  /\ \/ table' = table
     \/ /\ FreeSlot(p) \in Slots /\ table[p][FreeSlot(p)] = -1
        /\ table'[p][FreeSlot(p)] \in FdsOf(type) \union {ERR_PERMS}
        /\ \A q \in Progs \union {Shell}, u \in Slots :
             q # p \/ u # FreeSlot(p) => table'[q][u] = table[q][u]

LEMMA OpenCall ==
  ASSUME KernelTyped, Named, table \in Tables, NEW p \in Progs \union {Shell}, ~Loops(p),
         NEW name \in Names, NEW new \in BOOLEAN,
         NEW type \in {"fifo", "file"}, NEW r \in FdOpen(type, name, new),
         Opened(p, r) \/ (Mkfifoed(p, r) /\ new), UNCHANGED <<bytes, wild>>
  PROVE  OpenLeaves(p, type)
<1>1. OpenKeeps(type, new, r)
  BY FdOpenKeeps
<1>2. /\ files' = r.files /\ alloc' = r.alloc /\ dir' = r.dir /\ kind' = r.kind
      /\ bytes' = bytes /\ wild' = wild /\ slip \subseteq slip'
  BY <1>1 DEF Opened, Mkfifoed, Becomes, OpenKeeps
<1>3. KernelTyped' /\ Named'
  BY <1>1, <1>2 DEF KernelTyped, OpenKeeps, FilesTyped, BytesTyped, AllocTyped, Named
<1>4. /\ \A g \in Fds \ FdsOf(type) : files'[g] = files[g]
      /\ files'[Tty] = files[Tty]
  <2>1. Tty \in Fds \ FdsOf(type)
    BY Sizes DEF FdsOf, Tty
  <2> QED
    BY <1>1, <1>2, <2>1 DEF OpenKeeps
<1>5. FreeSlot(p) \in Slots /\ table[p][FreeSlot(p)] = -1
  BY FreeSlotIs
<1>6. \A n \in Fds : n >= 0 /\ n # -1
  BY Sizes
<1>7. FdsOf(type) \subseteq Fds
  BY DEF FdsOf, Fds
<1>8. \/ table' = table
      \/ /\ table' = [table EXCEPT ![p][FreeSlot(p)] = r.fd]
         /\ r.fd \in FdsOf(type) \union {ERR_PERMS}
  BY <1>1, <1>6, <1>7 DEF Opened, Mkfifoed, OpenKeeps, ERR_PERMS, ERR_NO_EXIST
<1>9. CASE table' = table
  BY <1>2, <1>3, <1>4, <1>9 DEF OpenLeaves
<1>10. CASE /\ table' = [table EXCEPT ![p][FreeSlot(p)] = r.fd]
            /\ r.fd \in FdsOf(type) \union {ERR_PERMS}
  <2>1. r.fd \in Entries
    BY <1>7, <1>10 DEF Entries
  <2>2. /\ table' \in Tables /\ table'[p][FreeSlot(p)] = r.fd
        /\ \A q \in Progs \union {Shell}, u \in Slots :
             q # p \/ u # FreeSlot(p) => table'[q][u] = table[q][u]
    BY <1>5, <1>10, <2>1 DEF Tables, Entries
  <2> QED
    BY <1>2, <1>3, <1>4, <1>5, <1>10, <2>2 DEF OpenLeaves
<1> QED
  BY <1>8, <1>9, <1>10

\* What a call that duplicates leaves
DupLeaves(pid, fd1, fd2) ==
  /\ KernelTyped' /\ table' \in Tables
  /\ \/ /\ fd1 \notin Slots /\ table' = table /\ files' = files /\ bytes' = bytes
     \/ /\ fd1 \in Slots /\ table'[pid][fd2] = table[Shell][fd1]
        /\ \A q \in Progs \union {Shell}, u \in Slots :
             q # pid \/ u # fd2 => table'[q][u] = table[q][u]
        /\ LET c == FdClose(State, table[pid][fd2]) IN
             files' = c.files /\ bytes' = c.bytes /\ wild' = c.wild

LEMMA DupCall ==
  ASSUME KernelTyped, table \in Tables, NEW pid \in Progs, NEW fd1, NEW fd2 \in {0, 1},
         Pdup2(pid, fd1, fd2), UNCHANGED <<alloc, dir, kind>>
  PROVE  DupLeaves(pid, fd1, fd2)
<1>1. State \in States /\ Less(State)
  BY StateTyped
<1>2. CASE fd1 \notin Slots
  <2>1. files' = files /\ bytes' = bytes /\ wild' = TRUE /\ table' = table
    BY <1>2 DEF Pdup2, Left, State
  <2> QED
    BY <1>2, <2>1 DEF DupLeaves, KernelTyped, FilesTyped, BytesTyped, AllocTyped
<1>3. CASE fd1 \in Slots
  <2> DEFINE c == FdClose(State, table[pid][fd2])
  <2>1. table[pid][fd2] \in Entries /\ table[Shell][fd1] \in Entries /\ fd2 \in Slots
    BY <1>3, Sizes DEF Tables, Entries
  <2>2. c \in States /\ Less(c)
    BY <1>1, <2>1, CloseTyped, CloseLess
  <2>3. /\ files' = c.files /\ bytes' = c.bytes /\ wild' = c.wild
        /\ table' = [table EXCEPT ![pid][fd2] = table[Shell][fd1]]
    BY <1>3 DEF Pdup2, Left
  <2>4. /\ table' \in Tables /\ table'[pid][fd2] = table[Shell][fd1]
        /\ \A q \in Progs \union {Shell}, u \in Slots :
             q # pid \/ u # fd2 => table'[q][u] = table[q][u]
    BY <2>1, <2>3, Sizes DEF Tables, Entries
  <2>5. KernelTyped'
    <3> HIDE DEF c
    <3>1. /\ FilesIn(c.files) /\ c.bytes \in [Inodes -> Seq(Progs)] /\ c.wild \in BOOLEAN
          /\ \A i \in Inodes : Len(c.bytes[i]) <= MaxBytes
      BY <2>2, LessTyped
    <3> QED
      BY <2>3, <3>1 DEF KernelTyped, FilesTyped, BytesTyped, AllocTyped
  <2> QED
    BY <1>3, <2>3, <2>4, <2>5 DEF DupLeaves
<1> QED
  BY <1>2, <1>3

-----------------------------------------------------------------------------
(* What the shell has to do *)

LEMMA HasIn ==
  ASSUME NEW X, NEW t \in Seq(X), NEW x, Has(t, x)
  PROVE  x \in X
BY DEF Has

LEMMA TailOrdered ==
  ASSUME NEW t \in Seq(Steps), t # <<>>, Ordered(t)
  PROVE  /\ Tail(t) \in Seq(Steps) /\ Ordered(Tail(t)) /\ Head(t) = t[1]
         /\ \A x : Has(Tail(t), x) => Has(t, x) /\ Follows(Head(t), x)
         /\ \A x : Has(t, x) => x = Head(t) \/ Has(Tail(t), x)
         /\ Head(t) \in {"out", "in"} => Tail(t) # <<>> /\ Tail(t)[1] \in {"dup0", "dup1"}
         /\ Head(t) = "mkfifo" => Tail(t) # <<>> /\ Tail(t)[1] = "dup1"
         /\ Tail(t) # <<>> /\ Tail(t)[1] \in {"dup0", "dup1"} => Head(t) \in {"out", "in", "mkfifo"}
<1>1. /\ Tail(t) \in Seq(Steps) /\ Len(Tail(t)) = Len(t) - 1 /\ Len(t) \in Nat \ {0}
      /\ \A i \in 1 .. Len(t) - 1 : Tail(t)[i] = t[i + 1]
      /\ Head(t) = t[1]
  OBVIOUS
<1>2. \A i \in 1 .. Len(t) - 1 : i + 1 \in 1 .. Len(t) /\ 1 < i + 1
  BY <1>1
<1>3. \A i \in 1 .. Len(t) : i # 1 => i - 1 \in 1 .. Len(t) - 1 /\ (i - 1) + 1 = i
  BY <1>1
<1> DEFINE u == Tail(t)
<1> HIDE DEF u
<1>4. Len(u) = Len(t) - 1 /\ \A i \in 1 .. Len(u) : u[i] = t[i + 1] /\ i + 1 \in 1 .. Len(t)
  BY <1>1, <1>2 DEF u
<1>5. Ordered(u)
  <2>1. ASSUME NEW i \in 1 .. Len(u), NEW j \in 1 .. Len(u), i < j
        PROVE  Follows(u[i], u[j])
    <3>1. i + 1 < j + 1
      BY <1>1, <1>4, <2>1
    <3> QED
      BY <3>1, <1>4 DEF Ordered
  <2>2. ASSUME NEW i \in 1 .. Len(u)
        PROVE  /\ u[i] \in {"out", "in"} => i < Len(u) /\ u[i + 1] \in {"dup0", "dup1"}
               /\ u[i] = "mkfifo" => i < Len(u) /\ u[i + 1] = "dup1"
               /\ i < Len(u) /\ u[i + 1] \in {"dup0", "dup1"} => u[i] \in {"out", "in", "mkfifo"}
    <3>1. /\ t[i + 1] \in {"out", "in"} => i + 1 < Len(t) /\ t[i + 1 + 1] \in {"dup0", "dup1"}
          /\ t[i + 1] = "mkfifo" => i + 1 < Len(t) /\ t[i + 1 + 1] = "dup1"
          /\ i + 1 < Len(t) /\ t[i + 1 + 1] \in {"dup0", "dup1"} => t[i + 1] \in {"out", "in", "mkfifo"}
      BY <1>4 DEF Ordered
    <3>2. i + 1 < Len(t) <=> i < Len(u)
      BY <1>1, <1>4
    <3>3. i < Len(u) => i + 1 \in 1 .. Len(u)
      BY <1>1, <1>4
    <3> QED
      BY <1>4, <3>1, <3>2, <3>3
  <2> QED
    BY <2>1, <2>2 DEF Ordered
<1>6. ASSUME NEW x, Has(u, x) PROVE Has(t, x) /\ Follows(t[1], x)
  <2>1. PICK i \in 1 .. Len(u) : u[i] = x
    BY <1>6 DEF Has
  <2>2. i + 1 \in 1 .. Len(t) /\ t[i + 1] = x /\ 1 \in 1 .. Len(t) /\ 1 < i + 1
    BY <1>1, <1>4, <2>1
  <2> QED
    BY <2>2 DEF Has, Ordered
<1>7. ASSUME NEW x, Has(t, x) PROVE x = t[1] \/ Has(u, x)
  <2>1. PICK i \in 1 .. Len(t) : t[i] = x
    BY <1>7 DEF Has
  <2>2. CASE i # 1
    <3>1. i - 1 \in 1 .. Len(u) /\ u[i - 1] = t[(i - 1) + 1] /\ (i - 1) + 1 = i
      BY <1>3, <1>4, <2>2
    <3>2. u[i - 1] = x
      BY <2>1, <3>1
    <3> QED
      BY <3>1, <3>2 DEF Has
  <2> QED
    BY <2>1, <2>2
<1>8. /\ t[1] \in {"out", "in"} => u # <<>> /\ u[1] \in {"dup0", "dup1"}
      /\ t[1] = "mkfifo" => u # <<>> /\ u[1] = "dup1"
      /\ u # <<>> /\ u[1] \in {"dup0", "dup1"} => t[1] \in {"out", "in", "mkfifo"}
  <2>0. u # <<>> => 1 \in 1 .. Len(u)
    BY <1>1 DEF u
  <2>1. 1 \in 1 .. Len(t) /\ (1 < Len(t) <=> 1 \in 1 .. Len(u)) /\ (1 < Len(t) => u[1] = t[1 + 1])
    BY <1>1, <1>4
  <2>2. /\ t[1] \in {"out", "in"} => 1 < Len(t) /\ t[1 + 1] \in {"dup0", "dup1"}
        /\ t[1] = "mkfifo" => 1 < Len(t) /\ t[1 + 1] = "dup1"
        /\ 1 < Len(t) /\ t[1 + 1] \in {"dup0", "dup1"} => t[1] \in {"out", "in", "mkfifo"}
    BY <2>1 DEF Ordered
  <2>3. 1 \in 1 .. Len(u) => u # <<>>
    OBVIOUS
  <2> QED
    BY <2>0, <2>1, <2>2, <2>3
<1> QED
  BY <1>1, <1>5, <1>6, <1>7, <1>8 DEF u

\* A plan of steps in X that does not start with a dup.
PlanOf(X, t) ==
  /\ X \subseteq Steps /\ t \in Seq(X) /\ Ordered(t)
  /\ t = <<>> \/ t[1] \notin {"dup0", "dup1"}

LEMMA JoinedOrdered ==
  ASSUME NEW X \in SUBSET Steps, NEW Y \in SUBSET Steps, NEW s, NEW t,
         PlanOf(X, s), PlanOf(Y, t), \A x \in X, y \in Y : Follows(x, y)
  PROVE  /\ PlanOf(X \union Y, s \o t)
         /\ \A x : Has(s, x) \/ Has(t, x) => Has(s \o t, x)
<1>0. s \in Seq(X) /\ t \in Seq(Y) /\ Ordered(s) /\ Ordered(t)
  BY DEF PlanOf
<1> DEFINE u == s \o t
<1>1. /\ Len(u) = Len(s) + Len(t) /\ Len(s) \in Nat /\ Len(t) \in Nat
      /\ \A i \in 1 .. Len(u) : u[i] = IF i <= Len(s) THEN s[i] ELSE t[i - Len(s)]
  BY <1>0
<1>2. u \in Seq(X \union Y)
  <2>1. s \in Seq(X \union Y) /\ t \in Seq(X \union Y)
    BY <1>0
  <2> QED
    BY <2>1
<1> HIDE DEF u
<1>3. \A i \in 1 .. Len(s) : s[i] \in X
  BY <1>0
<1>4. \A i \in 1 .. Len(t) : t[i] \in Y
  BY <1>0
<1>5. ASSUME NEW i \in 1 .. Len(u), NEW j \in 1 .. Len(u), i < j
      PROVE  Follows(u[i], u[j])
  <2>1. CASE j <= Len(s)
    <3>1. i \in 1 .. Len(s) /\ j \in 1 .. Len(s) /\ u[i] = s[i] /\ u[j] = s[j]
      BY <2>1, <1>1, <1>5
    <3>2. \A k, l \in 1 .. Len(s) : k < l => Follows(s[k], s[l])
      BY <1>0 DEF Ordered
    <3> QED
      BY <3>1, <3>2, <1>5
  <2>2. CASE i > Len(s)
    <3>1. /\ i - Len(s) \in 1 .. Len(t) /\ j - Len(s) \in 1 .. Len(t)
          /\ i - Len(s) < j - Len(s) /\ u[i] = t[i - Len(s)] /\ u[j] = t[j - Len(s)]
      BY <2>2, <1>1, <1>5
    <3>2. \A k, l \in 1 .. Len(t) : k < l => Follows(t[k], t[l])
      BY <1>0 DEF Ordered
    <3> QED
      BY <3>1, <3>2
  <2>3. CASE i <= Len(s) /\ ~(j <= Len(s))
    <3>1. i \in 1 .. Len(s) /\ j - Len(s) \in 1 .. Len(t)
      BY <2>3, <1>1
    <3> QED
      BY <3>1, <2>3, <1>1, <1>3, <1>4
  <2> QED
    BY <1>1, <1>5, <2>1, <2>2, <2>3
<1>6. ASSUME NEW i \in 1 .. Len(u)
      PROVE  /\ u[i] \in {"out", "in"} => i < Len(u) /\ u[i + 1] \in {"dup0", "dup1"}
             /\ u[i] = "mkfifo" => i < Len(u) /\ u[i + 1] = "dup1"
             /\ i < Len(u) /\ u[i + 1] \in {"dup0", "dup1"} => u[i] \in {"out", "in", "mkfifo"}
  <2>1. CASE i < Len(s)
    <3>1. /\ s[i] \in {"out", "in"} => s[i + 1] \in {"dup0", "dup1"}
          /\ s[i] = "mkfifo" => s[i + 1] = "dup1"
          /\ s[i + 1] \in {"dup0", "dup1"} => s[i] \in {"out", "in", "mkfifo"}
      BY <2>1, <1>0, <1>1 DEF Ordered
    <3>2. i + 1 \in 1 .. Len(u) /\ i + 1 <= Len(s) /\ i < Len(u)
      BY <2>1, <1>1
    <3> QED
      BY <2>1, <3>1, <3>2, <1>1
  <2>2. CASE i = Len(s)
    <3>1. s[i] \notin {"out", "in", "mkfifo"}
      BY <2>2, <1>0, <1>1 DEF Ordered
    <3>2. i < Len(u) => /\ i + 1 \in 1 .. Len(u) /\ ~(i + 1 <= Len(s)) /\ (i + 1) - Len(s) = 1
                        /\ 1 \in 1 .. Len(t)
      BY <2>2, <1>1
    <3>3. i < Len(u) => u[i + 1] = t[1] /\ t # <<>>
      BY <3>2, <1>1
    <3> QED
      BY <2>2, <3>1, <3>3, <1>1 DEF PlanOf
  <2>3. CASE i > Len(s)
    <3>1. i - Len(s) \in 1 .. Len(t) /\ ~(i <= Len(s))
      BY <2>3, <1>1
    <3>2. /\ t[i - Len(s)] \in {"out", "in"}
             => i - Len(s) < Len(t) /\ t[(i - Len(s)) + 1] \in {"dup0", "dup1"}
          /\ t[i - Len(s)] = "mkfifo"
             => i - Len(s) < Len(t) /\ t[(i - Len(s)) + 1] = "dup1"
          /\ i - Len(s) < Len(t) /\ t[(i - Len(s)) + 1] \in {"dup0", "dup1"}
             => t[i - Len(s)] \in {"out", "in", "mkfifo"}
      BY <3>1, <1>0 DEF Ordered
    <3>3. /\ i - Len(s) < Len(t) <=> i < Len(u)
          /\ i < Len(u) =>
               i + 1 \in 1 .. Len(u) /\ ~(i + 1 <= Len(s)) /\ (i + 1) - Len(s) = (i - Len(s)) + 1
      BY <2>3, <3>1, <1>1
    <3> QED
      BY <3>1, <3>2, <3>3, <1>1
  <2> QED
    BY <1>1, <2>1, <2>2, <2>3
<1>7. Ordered(u)
  BY <1>5, <1>6 DEF Ordered
<1>8. ASSUME NEW x, Has(s, x) \/ Has(t, x) PROVE Has(u, x)
  <2>1. CASE Has(s, x)
    <3>1. PICK i \in 1 .. Len(s) : s[i] = x
      BY <2>1 DEF Has
    <3>2. i \in 1 .. Len(u) /\ u[i] = x
      BY <1>1, <3>1
    <3> QED
      BY <3>2 DEF Has
  <2>2. CASE Has(t, x)
    <3>1. PICK i \in 1 .. Len(t) : t[i] = x
      BY <2>2 DEF Has
    <3>2. i + Len(s) \in 1 .. Len(u) /\ ~(i + Len(s) <= Len(s)) /\ (i + Len(s)) - Len(s) = i
      BY <1>1
    <3>3. u[i + Len(s)] = x
      BY <1>1, <3>1, <3>2
    <3> QED
      BY <3>2, <3>3 DEF Has
  <2> QED
    BY <1>8, <2>1, <2>2
<1>9. u = <<>> \/ u[1] \notin {"dup0", "dup1"}
  <2>1. CASE s # <<>>
    <3>1. 1 \in 1 .. Len(u) /\ 1 <= Len(s)
      BY <2>1, <1>0, <1>1
    <3> QED
      BY <2>1, <3>1, <1>1 DEF PlanOf
  <2>2. CASE s = <<>>
    <3>1. u = t
      BY <2>2, <1>0 DEF u
    <3> QED
      BY <3>1 DEF PlanOf
  <2> QED
    BY <2>1, <2>2
<1> QED
  BY <1>2, <1>7, <1>8, <1>9 DEF u, PlanOf

LEMMA OnePlan ==
  ASSUME NEW x \in Steps \ {"out", "in", "mkfifo", "dup0", "dup1"}
  PROVE  PlanOf({x}, <<x>>) /\ Has(<<x>>, x)
<1>1. Len(<<x>>) = 1 /\ <<x>>[1] = x /\ <<x>> \in Seq({x})
  OBVIOUS
<1> QED
  BY <1>1 DEF PlanOf, Ordered, Has

LEMMA TwoPlan ==
  ASSUME NEW x \in Steps \ {"dup0", "dup1"}, NEW y \in Steps \ {"out", "in", "mkfifo"},
         Follows(x, y), x \in {"out", "in"} => y \in {"dup0", "dup1"}, x = "mkfifo" => y = "dup1",
         y \in {"dup0", "dup1"} => x \in {"out", "in", "mkfifo"}
  PROVE  PlanOf({x, y}, <<x, y>>)
<1> DEFINE t == <<x, y>>
<1>1. Len(t) = 2 /\ t[1] = x /\ t[2] = y /\ t \in Seq({x, y}) /\ t # <<>>
  OBVIOUS
<1> HIDE DEF t
<1>2. Ordered(t)
  BY <1>1 DEF Ordered
<1>3. PlanOf({x, y}, t)
  BY <1>1, <1>2 DEF PlanOf
<1> QED
  BY <1>3 DEF t

LEMMA IfPlan ==
  ASSUME NEW c \in BOOLEAN, NEW X, NEW t, PlanOf(X, t)
  PROVE  PlanOf(IF c THEN X ELSE {}, If(c, t))
<1>1. PlanOf({}, <<>>)
  BY DEF PlanOf, Ordered
<1> QED
  BY <1>1 DEF If

\* The calls after a create_process, if the program writes to a file, reads a
\* file, reads a pipe, writes to a pipe, and is waited for
PlanFor(a, b, c, d, e) ==
  If(a, <<"out", "dup1">>) \o If(b, <<"in", "dup0">>) \o If(c, <<"duppipe">>)
  \o If(d, <<"mkfifo", "dup1">>) \o <<"prun">> \o If(e, <<"waitpid", "rm">>)

GoodPlan(t, c, d, e) ==
  /\ t \in Seq(Steps) /\ Ordered(t) /\ Has(t, "prun") /\ ~Has(t, "pcreate") /\ t # <<>>
  /\ t[1] \notin {"dup0", "dup1"}
  /\ Has(t, "duppipe") => c
  /\ Has(t, "mkfifo") => d
  /\ Has(t, "rm") => e

LEMMA NewPlan ==
  ASSUME NEW a \in BOOLEAN, NEW b \in BOOLEAN, NEW c \in BOOLEAN, NEW d \in BOOLEAN, NEW e \in BOOLEAN
  PROVE  GoodPlan(PlanFor(a, b, c, d, e), c, d, e)
<1> DEFINE A == IF a THEN {"out", "dup1"} ELSE {}
           B == IF b THEN {"in", "dup0"} ELSE {}
           C == IF c THEN {"duppipe"} ELSE {}
           D == IF d THEN {"mkfifo", "dup1"} ELSE {}
           E == IF e THEN {"waitpid", "rm"} ELSE {}
           s1 == If(a, <<"out", "dup1">>)
           s2 == s1 \o If(b, <<"in", "dup0">>)
           s3 == s2 \o If(c, <<"duppipe">>)
           s4 == s3 \o If(d, <<"mkfifo", "dup1">>)
           s5 == s4 \o <<"prun">>
           t == s5 \o If(e, <<"waitpid", "rm">>)
<1>0. t = PlanFor(a, b, c, d, e)
  BY DEF PlanFor
<1>1. PlanOf(A, s1)
  <2>1. PlanOf({"out", "dup1"}, <<"out", "dup1">>)
    BY TwoPlan DEF Steps, Follows, After
  <2> QED
    BY <2>1, IfPlan
<1>2. PlanOf(B, If(b, <<"in", "dup0">>))
  <2>1. PlanOf({"in", "dup0"}, <<"in", "dup0">>)
    BY TwoPlan DEF Steps, Follows, After
  <2> QED
    BY <2>1, IfPlan
<1>3. PlanOf(C, If(c, <<"duppipe">>))
  <2>1. PlanOf({"duppipe"}, <<"duppipe">>)
    BY OnePlan DEF Steps
  <2> QED
    BY <2>1, IfPlan
<1>4. PlanOf(D, If(d, <<"mkfifo", "dup1">>))
  <2>1. PlanOf({"mkfifo", "dup1"}, <<"mkfifo", "dup1">>)
    BY TwoPlan DEF Steps, Follows, After
  <2> QED
    BY <2>1, IfPlan
<1>5. PlanOf({"prun"}, <<"prun">>) /\ Has(<<"prun">>, "prun")
  BY OnePlan DEF Steps
<1>6. PlanOf(E, If(e, <<"waitpid", "rm">>))
  <2>1. PlanOf({"waitpid", "rm"}, <<"waitpid", "rm">>)
    BY TwoPlan DEF Steps, Follows, After
  <2> QED
    BY <2>1, IfPlan
<1> DEFINE X2 == A \union B
           X3 == X2 \union C
           X4 == X3 \union D
           X5 == X4 \union {"prun"}
           X  == X5 \union E
<1>7. /\ \A x \in A, y \in B : Follows(x, y)
      /\ \A x \in X2, y \in C : Follows(x, y)
      /\ \A x \in X3, y \in D : Follows(x, y)
      /\ \A x \in X4, y \in {"prun"} : Follows(x, y)
      /\ \A x \in X5, y \in E : Follows(x, y)
  BY DEF Follows, After
<1>8. /\ "pcreate" \notin X /\ ("duppipe" \in X => c) /\ ("mkfifo" \in X => d) /\ ("rm" \in X => e)
      /\ X \in SUBSET Steps
  BY DEF Steps
<1>9. /\ A \in SUBSET Steps /\ B \in SUBSET Steps /\ C \in SUBSET Steps /\ D \in SUBSET Steps
      /\ {"prun"} \in SUBSET Steps /\ E \in SUBSET Steps
      /\ X2 \in SUBSET Steps /\ X3 \in SUBSET Steps /\ X4 \in SUBSET Steps /\ X5 \in SUBSET Steps
  BY <1>8 DEF Steps
<1> HIDE DEF A, B, C, D, E
<1>10. PlanOf(X2, s2)
  <2> HIDE DEF s1
  <2> QED
    BY <1>1, <1>2, <1>7, <1>9, JoinedOrdered
<1> HIDE DEF X2, s2
<1>11. PlanOf(X3, s3)
  BY <1>3, <1>7, <1>9, <1>10, JoinedOrdered
<1> HIDE DEF X3, s3
<1>12. PlanOf(X4, s4)
  <2> DEFINE u == If(d, <<"mkfifo", "dup1">>)
  <2>1. PlanOf(D, u) /\ (\A x \in X3, y \in D : Follows(x, y)) /\ D \in SUBSET Steps /\ X3 \in SUBSET Steps
    BY <1>4, <1>7, <1>9
  <2> HIDE DEF u
  <2>2. PlanOf(X3 \union D, s3 \o u)
    BY <2>1, <1>11, JoinedOrdered
  <2> QED
    BY <2>2 DEF u
<1> HIDE DEF X4, s4
<1>13. PlanOf(X5, s5) /\ Has(s5, "prun")
  BY <1>5, <1>7, <1>9, <1>12, JoinedOrdered
<1> HIDE DEF X5, s5
<1>14. PlanOf(X, t) /\ Has(t, "prun")
  BY <1>6, <1>7, <1>9, <1>13, JoinedOrdered
<1> HIDE DEF t, X
<1>15. t \in Seq(X) /\ t \in Seq(Steps) /\ Ordered(t) /\ (t = <<>> \/ t[1] \notin {"dup0", "dup1"})
  BY <1>8, <1>14 DEF PlanOf
<1>16. \A x : Has(t, x) => x \in X
  BY <1>15, HasIn
<1>17. t # <<>>
  BY <1>14 DEF Has
<1> QED
  BY <1>0, <1>8, <1>14, <1>15, <1>16, <1>17 DEF GoodPlan

LEMMA CountedCards ==
  ASSUME Counted
  PROVE  \E k \in 0 .. NProgs :
           /\ \A p \in Progs : phase[p] # "none" <=> p <= k
           /\ k + Len(line) <= NProgs
           /\ Cardinality({q \in Progs : phase[q] # "none"}) = k
           /\ Cardinality({q \in Progs : phase[q] = "none"}) = NProgs - k
<1>1. PICK k \in 0 .. NProgs :
        (\A p \in Progs : phase[p] # "none" <=> p <= k) /\ k + Len(line) <= NProgs
  BY DEF Counted
<1>2. k \in Nat /\ NProgs \in Nat /\ k <= NProgs
  BY Sizes
<1>3. {q \in Progs : phase[q] # "none"} = 1 .. k
  BY <1>1, <1>2 DEF Progs
<1>4. {q \in Progs : phase[q] = "none"} = k + 1 .. NProgs
  BY <1>1, <1>2 DEF Progs
<1>5. Cardinality(1 .. k) = k
  BY <1>2, FS_Interval
<1>6. Cardinality(k + 1 .. NProgs) = NProgs - k
  <2>1. Cardinality(k + 1 .. NProgs) = IF k + 1 > NProgs THEN 0 ELSE NProgs - (k + 1) + 1
    BY <1>2, FS_Interval
  <2> QED
    BY <2>1, <1>2
<1> QED
  BY <1>1, <1>3, <1>4, <1>5, <1>6

\* The shell goes on with t, a part of what it had to do.
LEMMA LessToDo ==
  ASSUME Planned, ShellTyped, NEW t \in Seq(Steps), sh'.todo = t,
         sh'.pid = sh.pid, sh'.piped = sh.piped, line' = line,
         Ordered(t), \A x : Has(t, x) => Has(sh.todo, x), ~Has(t, "pcreate"),
         Has(sh.todo, "prun") /\ (\E x \in Before : Has(t, x)) => Has(t, "prun"),
         sh'.stdin = sh.stdin \/ ~Has(t, "duppipe"),
         Has(t, "prun") /\ sh.pid \in Progs /\ phase[sh.pid] \in Unrun => phase'[sh.pid] \in Unrun
  PROVE  Planned'
<1>1. /\ (\E x \in Before : Has(t, x)) => Has(t, "prun")
      /\ Has(t, "prun") => sh.pid \in Progs /\ phase'[sh.pid] \in Unrun
      /\ sh.piped => line # <<>>
      /\ Has(t, "duppipe") => sh'.stdin # 0
      /\ Has(t, "mkfifo") => sh.piped
      /\ Has(t, "rm") => ~sh.piped
  BY DEF Planned
<1> QED
  BY <1>1 DEF Planned

LEMMA PcreateNext ==
  ASSUME Planned, ShellTyped, sh'.todo = <<"pcreate">>, sh.piped,
         sh'.piped = sh.piped, line' = line
  PROVE  Planned'
<1> DEFINE t == <<"pcreate">>
<1>1. \A x : Has(t, x) => x = "pcreate"
  BY DEF Has
<1>2. Ordered(t)
  BY OnePlan DEF PlanOf, Steps
<1> HIDE DEF t
<1>3. sh'.todo = t
  BY DEF t
<1>4. line # <<>>
  BY DEF Planned
<1> QED
  BY <1>1, <1>2, <1>3, <1>4 DEF Planned, Before

\* The shell has done the first step.
LEMMA StepDone ==
  ASSUME Planned, ShellTyped, sh.todo # <<>>, sh'.todo \in {Tail(sh.todo), Then},
         sh'.pid = sh.pid, sh'.piped = sh.piped, line' = line,
         sh'.stdin = sh.stdin \/ sh.todo[1] = "mkfifo",
         \A p \in Progs : phase[p] \in Unrun => phase'[p] \in Unrun \/ (p = sh.pid /\ sh.todo[1] = "prun")
  PROVE  /\ Planned' /\ sh'.todo \in Seq(Steps)
         /\ Ready' => sh.todo[1] \in {"out", "in", "mkfifo"}
<1> DEFINE t == Tail(sh.todo)
<1>1. sh.todo \in Seq(Steps) /\ sh.piped \in BOOLEAN
  BY DEF ShellTyped, Shells
<1>2. /\ t \in Seq(Steps) /\ Ordered(t) /\ Head(sh.todo) = sh.todo[1]
      /\ \A x : Has(t, x) => Has(sh.todo, x) /\ Follows(Head(sh.todo), x)
      /\ \A x : Has(sh.todo, x) => x = Head(sh.todo) \/ Has(t, x)
      /\ t # <<>> /\ t[1] \in {"dup0", "dup1"} => Head(sh.todo) \in {"out", "in", "mkfifo"}
  BY <1>1, TailOrdered DEF Planned
<1>3. sh'.todo = t \/ (sh'.todo = <<"pcreate">> /\ sh.piped)
  BY <1>1 DEF Then, Rest
<1> HIDE DEF t
<1>4. CASE sh'.todo = t
  <2>1. ~Has(t, "pcreate") /\ (Has(t, "duppipe") => sh.todo[1] # "mkfifo")
    BY <1>2 DEF Follows
  <2>2. ASSUME Has(sh.todo, "prun"), NEW x \in Before, Has(t, x) PROVE Has(t, "prun")
    BY <1>2, <2>2 DEF Follows, Before, After
  <2>3. Has(t, "prun") => sh.todo[1] # "prun"
    BY <1>2 DEF Follows, After
  <2>4. Planned'
    BY <1>2, <1>4, <2>1, <2>2, <2>3, LessToDo
  <2> QED
    BY <2>4, <1>2, <1>4 DEF Ready
<1>5. CASE sh'.todo = <<"pcreate">> /\ sh.piped
  <2>1. <<"pcreate">> \in Seq(Steps)
    BY DEF Steps
  <2>2. ~Ready'
    BY <1>5 DEF Ready
  <2> QED
    BY <1>5, <2>1, <2>2, PcreateNext
<1> QED
  BY <1>3, <1>4, <1>5

\* The shell could not open a file, and does not duplicate it.
LEMMA StepSkipped ==
  ASSUME Planned, ShellTyped, sh.todo # <<>>, sh.todo[1] \in {"out", "in"},
         sh'.todo = Tail(Tail(sh.todo)),
         sh'.pid = sh.pid, sh'.piped = sh.piped, line' = line, sh'.stdin = sh.stdin, phase' = phase
  PROVE  Planned' /\ sh'.todo \in Seq(Steps) /\ ~Ready'
<1> DEFINE t == Tail(sh.todo)
           u == Tail(t)
<1>1. sh.todo \in Seq(Steps) /\ sh.piped \in BOOLEAN
  BY DEF ShellTyped, Shells
<1>2. /\ t \in Seq(Steps) /\ Ordered(t) /\ Head(sh.todo) = sh.todo[1]
      /\ \A x : Has(t, x) => Has(sh.todo, x) /\ Follows(Head(sh.todo), x)
      /\ \A x : Has(sh.todo, x) => x = Head(sh.todo) \/ Has(t, x)
      /\ t # <<>> /\ t[1] \in {"dup0", "dup1"}
  BY <1>1, TailOrdered DEF Planned
<1> HIDE DEF t
<1>3. /\ u \in Seq(Steps) /\ Ordered(u) /\ Head(t) = t[1]
      /\ \A x : Has(u, x) => Has(t, x)
      /\ \A x : Has(t, x) => x = Head(t) \/ Has(u, x)
      /\ u # <<>> /\ u[1] \in {"dup0", "dup1"} => Head(t) \in {"out", "in", "mkfifo"}
  BY <1>2, TailOrdered
<1> HIDE DEF u
<1>4. sh'.todo = u
  BY DEF u, t
<1>5. ~Has(u, "pcreate")
  BY <1>2, <1>3 DEF Follows
<1>6. Has(sh.todo, "prun") => Has(u, "prun")
  BY <1>2, <1>3
<1>7. Planned'
  BY <1>2, <1>3, <1>4, <1>5, <1>6, LessToDo
<1>8. ~Ready'
  BY <1>2, <1>3, <1>4 DEF Ready
<1> QED
  BY <1>3, <1>4, <1>7, <1>8

-----------------------------------------------------------------------------
(* Each step keeps the shape: first the shell *)

LEMMA ShellFacts ==
  ASSUME Shape
  PROVE  /\ sh.todo \in Seq(Steps) /\ sh.pid \in Progs \union {0} /\ sh.fd \in Slots \union {-1}
         /\ sh.stdin \in Slots \union {-1} /\ sh.left \in Progs \union {0} /\ sh.cad \in Names \union {0}
         /\ sh.in \in BOOLEAN /\ sh.out \in BOOLEAN /\ sh.piped \in BOOLEAN
         /\ sh.todo # <<>> => Head(sh.todo) = sh.todo[1]
         /\ \A x : sh.todo # <<>> /\ sh.todo[1] = x => Has(sh.todo, x)
         /\ sh.todo # <<>> /\ sh.todo[1] \in Before \union {"prun"} =>
              /\ sh.pid \in Progs /\ phase[sh.pid] \in Unrun
              /\ phase[sh.pid] = "new" => slot[sh.pid] = 0
<1>1. sh \in Shells
  BY DEF Shape, Typed, ShellTyped
<1>2. sh.todo \in Seq(Steps)
  BY <1>1 DEF Shells
<1>3. sh.todo # <<>> => Head(sh.todo) = sh.todo[1] /\ 1 \in 1 .. Len(sh.todo)
  BY <1>2
<1>4. \A x : sh.todo # <<>> /\ sh.todo[1] = x => Has(sh.todo, x)
  BY <1>3 DEF Has
<1>5. sh.todo # <<>> /\ sh.todo[1] \in Before \union {"prun"} =>
              sh.pid \in Progs /\ phase[sh.pid] \in Unrun
  BY <1>4 DEF Shape, Planned
<1>6. sh.todo # <<>> /\ sh.todo[1] \in Before \union {"prun"} /\ phase[sh.pid] = "new" =>
              slot[sh.pid] = 0
  BY <1>5 DEF Shape, Unclosed
<1> QED
  BY <1>1, <1>2, <1>3, <1>4, <1>5, <1>6 DEF Shells

LEMMA PromptShape == ASSUME Shape, Prompt PROVE Shape'
<1>1. PICK l \in Lines, cad \in {0, sh.cad} :
        /\ Len(l) <= Cardinality({p \in Progs : phase[p] = "none"})
        /\ line' = l
        /\ sh' = [todo |-> <<"pcreate">>, pid |-> 0, fd |-> 0, stdin |-> 0,
                  left |-> 0, cad |-> cad, in |-> FALSE, out |-> FALSE, piped |-> FALSE]
  BY DEF Prompt
<1>2. UNCHANGED <<files, alloc, dir, kind, table, bytes, phase, slot, feeder, wild>>
  BY DEF Prompt, Kernel
<1>3. l \in Seq(Commands) /\ l # <<>> /\ Len(l) \in Nat
  BY DescriptorsAssumption
<1>4. PICK k \in 0 .. NProgs :
           /\ \A p \in Progs : phase[p] # "none" <=> p <= k
           /\ Cardinality({q \in Progs : phase[q] = "none"}) = NProgs - k
  BY CountedCards DEF Shape
<1>5. Counted'
  <2>1. k + Len(l) <= NProgs
    BY <1>1, <1>3, <1>4, Sizes
  <2> QED
    BY <1>1, <1>2, <1>4, <2>1 DEF Counted
<1>6. Typed' /\ Named' /\ Unclosed'
  <2>1. sh' \in Shells
    <3>1. <<"pcreate">> \in Seq(Steps)
      BY DEF Steps
    <3>2. cad \in Names \union {0} /\ 0 \in Slots
      BY <1>1, ShellFacts, Sizes
    <3> QED
      BY <1>1, <3>1, <3>2 DEF Shells
  <2>2. ShellTyped'
    BY <1>1, <1>3, <2>1 DEF ShellTyped
  <2>3. KernelTyped' /\ ProgsTyped' /\ Named' /\ Unclosed'
    BY <1>2 DEF Shape, Typed, KernelTyped, FilesTyped, BytesTyped, AllocTyped, ProgsTyped, Named, Unclosed
  <2> QED
    BY <2>2, <2>3 DEF Typed
<1>7. Planned'
  <2> DEFINE t == <<"pcreate">>
  <2>1. \A x : Has(t, x) => x = "pcreate"
    BY DEF Has
  <2>2. Ordered(t)
    BY OnePlan DEF PlanOf, Steps
  <2> HIDE DEF t
  <2>3. sh'.todo = t /\ sh'.stdin = 0 /\ sh'.piped = FALSE
    BY <1>1 DEF t
  <2> QED
    BY <1>1, <1>3, <2>1, <2>2, <2>3 DEF Planned, Before
<1>8. Redirects'
  <2>1. sh'.todo[1] = "pcreate" /\ sh'.stdin = 0
    BY <1>1
  <2> QED
    BY <1>2, <2>1 DEF Redirects, Ready, Shape
<1> QED
  BY <1>5, <1>6, <1>7, <1>8 DEF Shape

\* The next command, and what it makes of the shell.
Command    == Head(line)
PipedNow   == Len(line) > 1 /\ ~(sh.in \/ Command.in) /\ ~(sh.out \/ Command.out)
PcreatePlan == PlanFor(sh.out \/ Command.out, sh.in \/ Command.in, sh.stdin # 0, PipedNow,
                       ~Command.bg /\ ~PipedNow)
PcreateKnown(p) ==
  /\ files' = NewFiles /\ table' = [table EXCEPT ![p] = NewTable]
  /\ phase' = [phase EXCEPT ![p] = "new"]
  /\ sh'.pid = p /\ sh'.todo = PcreatePlan
PcreateUnknown ==
  /\ UNCHANGED <<files, table, phase>>
  /\ sh'.pid = sh.pid /\ sh'.todo = IF PipedNow THEN <<"pcreate">> ELSE <<>>

LEMMA PcreateIs ==
  ASSUME Shape, Pcreate
  PROVE  /\ sh.todo # <<>> /\ sh.todo[1] = "pcreate" /\ line # <<>>
         /\ line' = Tail(line) /\ Command \in Commands /\ PipedNow \in BOOLEAN
         /\ sh' \in [todo : Seq(Steps), pid : Progs \union {0}, fd : {sh.fd}, stdin : {sh.stdin},
                     left : {sh.left}, cad : {sh.cad}, in : BOOLEAN, out : BOOLEAN, piped : {PipedNow}]
         /\ PcreateUnknown \/ \E p \in Progs :
              /\ PcreateKnown(p)
              /\ \A q \in Progs : phase[q] # "none" <=> q < p
         /\ UNCHANGED <<alloc, dir, kind, slip, bytes, slot, feeder, got, wild>>
<1> DEFINE in    == sh.in \/ Command.in
           out   == sh.out \/ Command.out
           p     == Cardinality({q \in Progs : phase[q] # "none"}) + 1
<1>1. sh.todo # <<>> /\ sh.todo[1] = "pcreate" /\ line' = Tail(line)
  BY ShellFacts DEF Pcreate
<1>2. line # <<>> /\ line \in Seq(Commands)
  BY <1>1, ShellFacts DEF Shape, Planned, Typed, ShellTyped
<1>3. Command \in Commands
  BY <1>2 DEF Command
<1>4. in \in BOOLEAN /\ out \in BOOLEAN /\ PipedNow \in BOOLEAN /\ Command.bg \in BOOLEAN
      /\ (sh.stdin # 0) \in BOOLEAN /\ (~Command.bg /\ ~PipedNow) \in BOOLEAN
  BY <1>3, ShellFacts DEF Commands, PipedNow
<1>5. PICK k \in 0 .. NProgs :
           /\ \A q \in Progs : phase[q] # "none" <=> q <= k
           /\ k + Len(line) <= NProgs
           /\ Cardinality({q \in Progs : phase[q] # "none"}) = k
  BY CountedCards DEF Shape
<1>6. Len(line) \in Nat /\ Len(line) >= 1
  BY <1>2
<1>7. p \in Progs /\ \A q \in Progs : phase[q] # "none" <=> q < p
  <2>1. p = k + 1
    BY <1>5
  <2> HIDE DEF p
  <2>2. k + 1 \in Progs /\ \A q \in Progs : q \in Nat
    BY <1>5, <1>6, Sizes DEF Progs
  <2> QED
    BY <1>5, <2>1, <2>2
<1>8. PcreatePlan \in Seq(Steps)
  BY <1>4, NewPlan DEF PcreatePlan, GoodPlan
<1>9. sh \in Shells
  BY DEF Shape, Typed, ShellTyped
<1> DEFINE then == [sh EXCEPT !.in = in, !.out = out, !.piped = PipedNow]
<1>10. CASE Command.known
  <2>1. /\ files' = NewFiles /\ table' = [table EXCEPT ![p] = NewTable]
        /\ phase' = [phase EXCEPT ![p] = "new"]
        /\ sh' = [then EXCEPT !.pid = p, !.todo = PcreatePlan]
    BY <1>10 DEF Pcreate, Command, PipedNow, PcreatePlan, PlanFor
  <2> HIDE DEF p, in, out
  <2>2. PcreateKnown(p)
    BY <1>9, <2>1 DEF PcreateKnown, Shells
  <2>3. sh' \in [todo : Seq(Steps), pid : Progs \union {0}, fd : {sh.fd}, stdin : {sh.stdin},
                 left : {sh.left}, cad : {sh.cad}, in : BOOLEAN, out : BOOLEAN, piped : {PipedNow}]
    BY <1>4, <1>7, <1>8, <1>9, <2>1 DEF Shells
  <2>4. UNCHANGED <<alloc, dir, kind, slip, bytes, slot, feeder, got, wild>>
    BY DEF Pcreate
  <2> QED
    BY <1>1, <1>2, <1>3, <1>4, <1>7, <2>2, <2>3, <2>4
<1>11. CASE ~Command.known
  <2>1. /\ UNCHANGED <<files, table, phase>>
        /\ sh' = [then EXCEPT !.todo = Rest(<<>>, PipedNow)]
    BY <1>11 DEF Pcreate, Command, PipedNow
  <2>2. Rest(<<>>, PipedNow) = IF PipedNow THEN <<"pcreate">> ELSE <<>>
    BY <1>4 DEF Rest
  <2>3. Rest(<<>>, PipedNow) \in Seq(Steps)
    <3>1. <<"pcreate">> \in Seq(Steps) /\ <<>> \in Seq(Steps)
      BY DEF Steps
    <3> QED
      BY <2>2, <3>1, Zenon
  <2> HIDE DEF in, out
  <2>4. PcreateUnknown
    BY <1>9, <2>1, <2>2 DEF PcreateUnknown, Shells
  <2>5. sh' \in [todo : Seq(Steps), pid : Progs \union {0}, fd : {sh.fd}, stdin : {sh.stdin},
                 left : {sh.left}, cad : {sh.cad}, in : BOOLEAN, out : BOOLEAN, piped : {PipedNow}]
    BY <1>4, <1>9, <2>1, <2>3 DEF Shells
  <2>6. UNCHANGED <<alloc, dir, kind, slip, bytes, slot, feeder, got, wild>>
    BY DEF Pcreate
  <2> QED
    BY <1>1, <1>2, <1>3, <1>4, <2>4, <2>5, <2>6
<1> QED
  BY <1>10, <1>11

LEMMA NewFilesTyped ==
  ASSUME KernelTyped
  PROVE  /\ FilesIn(NewFiles)
         /\ NewFiles[Tty].used = files[Tty].used + 3
         /\ \A g \in Fds : g # Tty => NewFiles[g] = files[g]
         /\ NewFiles[Tty].type = files[Tty].type /\ NewFiles[Tty].data = files[Tty].data
<1>1. files \in [Fds -> File] /\ files[Tty] \in File /\ Tty \in Fds /\ files[Tty].used \in Nat
  BY Sizes DEF KernelTyped, FilesTyped, FilesIn, File
<1>2. NewFiles \in [Fds -> File]
  BY <1>1 DEF NewFiles, File
<1>3. /\ NewFiles[Tty].used = files[Tty].used + 3
      /\ NewFiles[Tty].type = files[Tty].type /\ NewFiles[Tty].data = files[Tty].data
      /\ \A g \in Fds : g # Tty => NewFiles[g] = files[g]
  BY <1>1 DEF NewFiles, File
<1> HIDE DEF Tty
<1>5. FilesIn(NewFiles)
  <2>1. SUFFICES ASSUME NEW g \in Fds, NewFiles[g].type = "fifo"
                 PROVE  NewFiles[g].used = 0 \/ NewFiles[g].data # 0
    BY <1>2, <1>3 DEF KernelTyped, FilesTyped, FilesIn
  <2>2. CASE g # Tty
    BY <1>3, <2>1, <2>2 DEF KernelTyped, FilesTyped, FilesIn
  <2>3. CASE g = Tty
    BY <1>3, <2>1, <2>3 DEF KernelTyped, FilesTyped, FilesIn
  <2> QED
    BY <2>2, <2>3
<1> QED
  BY <1>3, <1>5

LEMMA PcreateShape == ASSUME Shape, Pcreate PROVE Shape'
<1>1. /\ sh.todo # <<>> /\ sh.todo[1] = "pcreate" /\ line # <<>>
      /\ line' = Tail(line) /\ Command \in Commands /\ PipedNow \in BOOLEAN
      /\ sh' \in [todo : Seq(Steps), pid : Progs \union {0}, fd : {sh.fd}, stdin : {sh.stdin},
                  left : {sh.left}, cad : {sh.cad}, in : BOOLEAN, out : BOOLEAN, piped : {PipedNow}]
      /\ PcreateUnknown \/ \E p \in Progs :
           /\ PcreateKnown(p)
           /\ \A q \in Progs : phase[q] # "none" <=> q < p
      /\ UNCHANGED <<alloc, dir, kind, slip, bytes, slot, feeder, got, wild>>
  BY PcreateIs
<1>2. /\ sh'.fd = sh.fd /\ sh'.stdin = sh.stdin /\ sh'.left = sh.left /\ sh'.cad = sh.cad
      /\ sh'.piped = PipedNow
  BY <1>1
<1>3. line \in Seq(Commands)
  BY DEF Shape, Typed, ShellTyped
<1>4. line' \in Seq(Commands) /\ Len(line') = Len(line) - 1 /\ Len(line) \in Nat \ {0}
  BY <1>1, <1>3
<1>5. PipedNow => line' # <<>>
  <2>1. PipedNow => Len(line') > 0
    BY <1>4 DEF PipedNow
  <2> QED
    BY <2>1, <1>4
<1>6. ShellTyped'
  <2>1. /\ sh.fd \in Slots \union {-1} /\ sh.stdin \in Slots \union {-1}
        /\ sh.left \in Progs \union {0} /\ sh.cad \in Names \union {0}
    BY ShellFacts
  <2>2. sh' \in Shells
    BY <1>1, <2>1 DEF Shells
  <2> QED
    BY <1>4, <2>2 DEF ShellTyped
<1>7. PICK k \in 0 .. NProgs :
        (\A p \in Progs : phase[p] # "none" <=> p <= k) /\ k + Len(line) <= NProgs
  BY DEF Shape, Counted
<1>8. Named'
  BY <1>1 DEF Shape, Named
<1>9. CASE PcreateUnknown
  <2>1. UNCHANGED <<files, table, phase>> /\ sh'.pid = sh.pid
        /\ sh'.todo = IF PipedNow THEN <<"pcreate">> ELSE <<>>
    BY <1>9 DEF PcreateUnknown
  <2>2. KernelTyped' /\ ProgsTyped' /\ Unclosed'
    BY <1>1, <2>1 DEF Shape, Typed, KernelTyped, FilesTyped, BytesTyped, AllocTyped, ProgsTyped, Unclosed
  <2>3. Counted'
    <3>1. k + Len(line') <= NProgs
      BY <1>4, <1>7, Sizes
    <3> QED
      BY <2>1, <1>7, <3>1 DEF Counted
  <2>4. Planned'
    <3> DEFINE t == sh'.todo
    <3>1. \A x : Has(t, x) => x = "pcreate" /\ PipedNow
      BY <2>1 DEF Has
    <3>2. Ordered(t)
      <4>1. Ordered(<<"pcreate">>) /\ Ordered(<<>>)
        <5>1. Ordered(<<>>)
          BY DEF Ordered
        <5> QED
          BY <5>1, OnePlan DEF PlanOf, Steps
      <4> QED
        BY <4>1, <2>1
    <3>3. t = sh'.todo
      OBVIOUS
    <3> HIDE DEF t
    <3> QED
      BY <1>2, <1>5, <3>1, <3>2, <3>3 DEF Planned, Before
  <2>5. Redirects'
    <3>1. ~Ready'
      BY <1>1, <2>1 DEF Ready
    <3> QED
      BY <2>1, <3>1, <1>2 DEF Shape, Redirects
  <2> QED
    BY <1>6, <1>8, <2>2, <2>3, <2>4, <2>5 DEF Shape, Typed
<1>10. CASE \E p \in Progs :
              /\ PcreateKnown(p)
              /\ \A q \in Progs : phase[q] # "none" <=> q < p
  <2>1. PICK p \in Progs : PcreateKnown(p) /\ \A q \in Progs : phase[q] # "none" <=> q < p
    BY <1>10
  <2>2. /\ files' = NewFiles /\ table' = [table EXCEPT ![p] = NewTable]
        /\ phase' = [phase EXCEPT ![p] = "new"]
        /\ sh'.pid = p /\ sh'.todo = PcreatePlan
    BY <2>1 DEF PcreateKnown
  <2>3. phase[p] = "none" /\ phase \in [Progs -> {"none", "new", "run", "ending", "zombie"}]
    BY <2>1, Sizes DEF Shape, Typed, ProgsTyped
  <2>4. p = k + 1
    <3>1. p > k
      BY <2>1, <2>3, <1>7, Sizes
    <3>2. k + 1 \in Progs
      BY <1>7, <1>4, Sizes DEF Progs
    <3>3. ~(k + 1 < p)
      BY <2>1, <1>7, <3>2, Sizes
    <3> QED
      BY <3>1, <3>3, <1>7, Sizes
  <2>5. Counted'
    <3>1. k + 1 \in 0 .. NProgs /\ (k + 1) + Len(line') <= NProgs
      BY <1>4, <1>7, Sizes
    <3>2. \A q \in Progs : phase'[q] # "none" <=> q <= k + 1
      BY <2>1, <2>2, <2>3, <2>4, Sizes
    <3> QED
      BY <3>1, <3>2 DEF Counted
  <2>6. Typed'
    <3>1. KernelTyped'
      <4>1. FilesIn(NewFiles)
        BY NewFilesTyped DEF Shape, Typed
      <4> QED
        BY <1>1, <2>2, <4>1 DEF Shape, Typed, KernelTyped, FilesTyped, BytesTyped, AllocTyped
    <3>2. table' \in Tables
      <4>1. NewTable \in [Slots -> Entries]
        BY Sizes DEF NewTable, Entries
      <4> QED
        BY <2>2, <4>1 DEF Shape, Typed, ProgsTyped, Tables, Entries
    <3>3. ProgsTyped'
      BY <1>1, <2>2, <2>3, <3>2 DEF Shape, Typed, ProgsTyped
    <3> QED
      BY <1>6, <3>1, <3>3 DEF Typed
  <2>7. Planned' /\ ~Ready'
    <3> DEFINE a == sh.out \/ Command.out
               b == sh.in \/ Command.in
               c == sh.stdin # 0
               e == ~Command.bg /\ ~PipedNow
    <3>1. a \in BOOLEAN /\ b \in BOOLEAN /\ c \in BOOLEAN /\ e \in BOOLEAN
      BY <1>1, ShellFacts DEF Commands
    <3>2. PcreatePlan = PlanFor(a, b, c, PipedNow, e)
      BY DEF PcreatePlan
    <3> HIDE DEF a, b, c, e
    <3>3. GoodPlan(PcreatePlan, c, PipedNow, e)
      <4>1. PipedNow \in BOOLEAN
        BY <1>1
      <4> QED
        BY <4>1, <3>1, <3>2, NewPlan, Zenon
    <3>4. phase'[p] = "new"
      BY <2>2, <2>3
    <3> QED
      BY <1>2, <1>5, <2>2, <3>3, <3>4 DEF Planned, Ready, GoodPlan, Unrun, c, e
  <2>8. Unclosed'
    BY <1>1, <2>2, <2>3 DEF Shape, Unclosed
  <2>9. Redirects'
    <3>1. table'[Shell] = table[Shell]
      BY <2>2, Sizes DEF Shape, Typed, ProgsTyped, Tables, Shell
    <3> QED
      BY <2>7, <3>1, <1>2 DEF Shape, Redirects
  <2> QED
    BY <1>8, <2>5, <2>6, <2>7, <2>8, <2>9 DEF Shape
<1> QED
  BY <1>1, <1>9, <1>10

LEMMA PcreateNotReady == ASSUME Shape, Pcreate, sh'.todo = PcreatePlan PROVE ~Ready'
<1>1. Command \in Commands /\ PipedNow \in BOOLEAN
  BY PcreateIs
<1> DEFINE a == sh.out \/ Command.out
           b == sh.in \/ Command.in
           c == sh.stdin # 0
           e == ~Command.bg /\ ~PipedNow
<1>2. a \in BOOLEAN /\ b \in BOOLEAN /\ c \in BOOLEAN /\ e \in BOOLEAN
  BY <1>1, ShellFacts DEF Commands
<1>3. PcreatePlan = PlanFor(a, b, c, PipedNow, e)
  BY DEF PcreatePlan
<1> HIDE DEF a, b, c, e
<1>4. GoodPlan(PcreatePlan, c, PipedNow, e)
  BY <1>1, <1>2, <1>3, NewPlan, Zenon
<1> QED
  BY <1>4 DEF Ready, GoodPlan

\* A new descriptor of the shell is not in a slot of the terminal's.
LEMMA ShellSlot ==
  ASSUME Shape, ~Loops(Shell)
  PROVE  FreeSlot(Shell) \in Slots /\ FreeSlot(Shell) >= 3 /\ table[Shell][FreeSlot(Shell)] = -1
<1>1. FreeSlot(Shell) \in Slots /\ table[Shell][FreeSlot(Shell)] = -1
  BY FreeSlotIs
<1>2. Slots \subseteq Nat /\ -1 # Tty
  BY Sizes DEF Tty
<1>3. \A s \in Slots : table[Shell][s] = Tty <=> s < 3
  BY DEF Shape, Redirects
<1>4. ~(FreeSlot(Shell) < 3)
  BY <1>1, <1>2, <1>3
<1>5. FreeSlot(Shell) \in Nat
  BY <1>1, <1>2
<1> QED
  BY <1>1, <1>4, <1>5

LEMMA OpenFileLeaves == ASSUME Shape, OpenFile PROVE OpenLeaves(Shell, "file")
<1>1. Head(sh.todo) = sh.todo[1] /\ ~Loops(Shell) /\ UNCHANGED <<bytes, wild>>
  BY ShellFacts DEF OpenFile, Calls
<1>2. PICK r \in FdOpen("file", DataFile, Head(sh.todo) = "out") : Opened(Shell, r)
  BY DEF OpenFile
<1>3. DataFile \in Names /\ (Head(sh.todo) = "out") \in BOOLEAN /\ "file" \in {"fifo", "file"}
  BY Sizes
<1> QED
  BY <1>1, <1>2, <1>3, OpenCall DEF Shape, Typed, ProgsTyped

LEMMA OpenPipeLeaves == ASSUME Shape, OpenPipe PROVE OpenLeaves(Shell, "fifo")
<1>1. sh.pid \in Progs /\ ~Loops(Shell) /\ UNCHANGED <<bytes, wild>>
  BY ShellFacts DEF OpenPipe, Calls, Before
<1>2. PICK r \in FdOpen("fifo", PipeName(sh.pid), TRUE) : Mkfifoed(Shell, r)
  BY DEF OpenPipe
<1>3. PipeName(sh.pid) \in Names /\ TRUE \in BOOLEAN /\ "fifo" \in {"fifo", "file"}
  BY <1>1, Sizes
<1> QED
  BY <1>1, <1>2, <1>3, OpenCall DEF Shape, Typed, ProgsTyped

LEMMA OpenFileShape == ASSUME Shape, OpenFile PROVE Shape'
<1>1. /\ sh.todo # <<>> /\ Head(sh.todo) = sh.todo[1] /\ sh.todo[1] \in {"out", "in"} /\ ~Loops(Shell)
      /\ UNCHANGED <<line, bytes, phase, slot, feeder, wild>>
  BY ShellFacts DEF OpenFile, Calls
<1>2. PICK r \in FdOpen("file", DataFile, Head(sh.todo) = "out") :
        /\ Opened(Shell, r)
        /\ sh' = IF r.fd >= 0 THEN [sh EXCEPT !.todo = Tail(@), !.fd = FreeSlot(Shell)]
                              ELSE [sh EXCEPT !.todo = Tail(Tail(@))]
  BY DEF OpenFile
<1>3. OpenLeaves(Shell, "file")
  BY OpenFileLeaves
<1>4. sh \in Shells /\ FreeSlot(Shell) \in Slots /\ table[Shell][FreeSlot(Shell)] = -1
  BY <1>1, FreeSlotIs DEF Shape, Typed, ShellTyped
<1>5. /\ KernelTyped' /\ Named' /\ table' \in Tables
      /\ \/ table' = table
         \/ /\ table'[Shell][FreeSlot(Shell)] \in FileFds \union {ERR_PERMS}
            /\ \A u \in Slots : u # FreeSlot(Shell) => table'[Shell][u] = table[Shell][u]
  BY <1>3 DEF OpenLeaves, FdsOf
<1>6. FreeSlot(Shell) >= 3
  BY <1>1, ShellSlot
<1>7. \A s \in Slots : table'[Shell][s] = Tty <=> s < 3
  <2>1. Tty \notin FileFds /\ Tty # ERR_PERMS /\ \A s \in Slots : s \in Nat
    BY Sizes DEF Tty, ERR_PERMS
  <2>2. \A s \in Slots : table[Shell][s] = Tty <=> s < 3
    BY DEF Shape, Redirects
  <2> QED
    BY <1>4, <1>5, <1>6, <2>1, <2>2
<1>8. Planned' /\ sh' \in Shells /\ (Ready' => sh'.fd >= 3) /\ sh'.stdin = sh.stdin
  <2>1. CASE sh' = [sh EXCEPT !.todo = Tail(@), !.fd = FreeSlot(Shell)]
    <3>1. /\ sh'.todo = Tail(sh.todo) /\ sh'.pid = sh.pid /\ sh'.piped = sh.piped
          /\ sh'.stdin = sh.stdin /\ sh'.fd = FreeSlot(Shell)
      BY <1>4, <2>1 DEF Shells
    <3>2. Planned' /\ sh'.todo \in Seq(Steps)
      BY <1>1, <3>1, StepDone DEF Shape, Typed
    <3>3. sh' \in Shells
      BY <1>4, <2>1, <3>1, <3>2 DEF Shells
    <3> QED
      BY <3>1, <3>2, <3>3, <1>6
  <2>2. CASE sh' = [sh EXCEPT !.todo = Tail(Tail(@))]
    <3>1. /\ sh'.todo = Tail(Tail(sh.todo)) /\ sh'.pid = sh.pid /\ sh'.piped = sh.piped
          /\ sh'.stdin = sh.stdin
      BY <1>4, <2>2 DEF Shells
    <3>2. Planned' /\ sh'.todo \in Seq(Steps) /\ ~Ready'
      BY <1>1, <3>1, StepSkipped DEF Shape, Typed
    <3>3. sh' \in Shells
      BY <1>4, <2>2, <3>1, <3>2 DEF Shells
    <3> QED
      BY <3>1, <3>2, <3>3
  <2> QED
    BY <1>2, <2>1, <2>2
<1>9. Redirects'
  BY <1>7, <1>8 DEF Shape, Redirects
<1>10. Typed' /\ Counted' /\ Unclosed'
  BY <1>1, <1>5, <1>8 DEF Shape, Typed, ProgsTyped, ShellTyped, Counted, Unclosed
<1> QED
  BY <1>5, <1>8, <1>9, <1>10 DEF Shape

LEMMA OpenPipeShape == ASSUME Shape, OpenPipe PROVE Shape'
<1>1. /\ sh.todo # <<>> /\ Head(sh.todo) = sh.todo[1] /\ sh.todo[1] = "mkfifo" /\ ~Loops(Shell)
      /\ UNCHANGED <<line, bytes, phase, slot, feeder, wild>>
      /\ sh.pid \in Progs
  BY ShellFacts DEF OpenPipe, Calls, Before
<1>2. PICK r \in FdOpen("fifo", PipeName(sh.pid), TRUE) :
        /\ Mkfifoed(Shell, r)
        /\ LET stdout == IF r.fd # -1 THEN FreeSlot(Shell) ELSE -1 IN
           sh' = [sh EXCEPT !.todo = Tail(@), !.fd = stdout, !.stdin = stdout,
                            !.cad = PipeName(sh.pid), !.left = sh.pid]
  BY DEF OpenPipe
<1>3. OpenLeaves(Shell, "fifo")
  BY OpenPipeLeaves
<1>4. sh \in Shells /\ FreeSlot(Shell) \in Slots /\ FreeSlot(Shell) >= 3
  BY <1>1, ShellSlot DEF Shape, Typed, ShellTyped
<1>5. /\ KernelTyped' /\ Named' /\ table' \in Tables
      /\ \/ table' = table
         \/ /\ table'[Shell][FreeSlot(Shell)] \in FifoFds \union {ERR_PERMS}
            /\ \A u \in Slots : u # FreeSlot(Shell) => table'[Shell][u] = table[Shell][u]
  BY <1>3 DEF OpenLeaves, FdsOf
<1>6. \A s \in Slots : table'[Shell][s] = Tty <=> s < 3
  <2>1. Tty \notin FifoFds /\ Tty # ERR_PERMS /\ \A s \in Slots : s \in Nat
    BY Sizes DEF Tty, ERR_PERMS
  <2>2. \A s \in Slots : table[Shell][s] = Tty <=> s < 3
    BY DEF Shape, Redirects
  <2> QED
    BY <1>4, <1>5, <2>1, <2>2
<1> DEFINE stdout == IF r.fd # -1 THEN FreeSlot(Shell) ELSE -1
<1>7. /\ stdout \in Slots \union {-1} /\ (stdout = -1 \/ stdout >= 3)
      /\ PipeName(sh.pid) \in Names
      /\ sh' = [sh EXCEPT !.todo = Tail(@), !.fd = stdout, !.stdin = stdout,
                            !.cad = PipeName(sh.pid), !.left = sh.pid]
  BY <1>1, <1>2, <1>4, Sizes
<1> HIDE DEF stdout
<1>8. /\ sh'.todo = Tail(sh.todo) /\ sh'.pid = sh.pid /\ sh'.piped = sh.piped
      /\ sh'.fd = stdout /\ sh'.stdin = stdout
  BY <1>4, <1>7 DEF Shells
<1>9. Planned' /\ sh'.todo \in Seq(Steps)
  BY <1>1, <1>8, StepDone DEF Shape, Typed
<1>10. sh' \in Shells
  BY <1>1, <1>4, <1>7, <1>8, <1>9 DEF Shells
<1>11. Redirects'
  BY <1>6, <1>7, <1>8 DEF Redirects
<1>12. Typed' /\ Counted' /\ Unclosed'
  BY <1>1, <1>5, <1>10 DEF Shape, Typed, ProgsTyped, ShellTyped, Counted, Unclosed
<1> QED
  BY <1>5, <1>9, <1>11, <1>12 DEF Shape

LEMMA LoopShape == ASSUME Shape, Loop PROVE Shape'
<1>1. /\ UNCHANGED <<Kernel, table, bytes, phase, slot, feeder, wild, line>>
      /\ sh' = [sh EXCEPT !.todo = <<"loop">>]
      /\ sh.todo # <<>> /\ sh.todo[1] \in Before
  BY ShellFacts DEF Loop, Calls, Before
<1>2. sh \in Shells
  BY DEF Shape, Typed, ShellTyped
<1>3. /\ sh'.todo = <<"loop">> /\ sh'.pid = sh.pid /\ sh'.piped = sh.piped /\ sh'.stdin = sh.stdin
      /\ sh'.fd = sh.fd
  BY <1>1, <1>2 DEF Shells
<1>4. sh' \in Shells
  <2>1. <<"loop">> \in Seq(Steps)
    BY DEF Steps
  <2> QED
    BY <1>1, <1>2, <2>1 DEF Shells
<1>5. Planned'
  <2> DEFINE t == <<"loop">>
  <2>1. t \in Seq(Steps) /\ Ordered(t)
    BY OnePlan DEF PlanOf, Steps
  <2>2. \A x : Has(t, x) => x = "loop"
    BY DEF Has
  <2>3. sh'.todo = t
    BY <1>3
  <2> HIDE DEF t
  <2>4. sh.piped => line # <<>>
    BY DEF Shape, Planned
  <2> QED
    BY <1>1, <1>3, <2>1, <2>2, <2>3, <2>4 DEF Planned, Before
<1>6. Redirects'
  BY <1>1, <1>3 DEF Shape, Redirects, Ready
<1>7. KernelTyped' /\ ProgsTyped' /\ Named' /\ Counted' /\ Unclosed'
  BY <1>1 DEF Shape, Typed, Kernel, KernelTyped, FilesTyped, BytesTyped, AllocTyped,
     ProgsTyped, Named, Counted, Unclosed
<1> QED
  BY <1>1, <1>4, <1>5, <1>6, <1>7 DEF Shape, Typed, ShellTyped

\* The shell goes on, and of the shell only the step changes.
LEMMA ShellGoesOn ==
  ASSUME Shape, sh.todo # <<>>, sh.todo[1] \notin {"out", "in", "mkfifo"}, line' = line,
         sh' = [sh EXCEPT !.todo = Tail(@)] \/ sh' = [sh EXCEPT !.todo = Then],
         table'[Shell] = table[Shell],
         \A p \in Progs : phase[p] \in Unrun => phase'[p] \in Unrun \/ (p = sh.pid /\ sh.todo[1] = "prun")
  PROVE  ShellTyped' /\ Planned' /\ Redirects' /\ ~Ready'
<1>1. sh \in Shells
  BY DEF Shape, Typed, ShellTyped
<1>2. /\ sh'.todo \in {Tail(sh.todo), Then} /\ sh'.pid = sh.pid /\ sh'.piped = sh.piped
      /\ sh'.stdin = sh.stdin
  BY <1>1 DEF Shells
<1>3. Planned' /\ sh'.todo \in Seq(Steps) /\ ~Ready'
  BY <1>2, StepDone DEF Shape, Typed
<1>4. sh' \in Shells
  BY <1>1, <1>2, <1>3 DEF Shells
<1>5. Redirects'
  BY <1>2, <1>3 DEF Shape, Redirects
<1> QED
  BY <1>3, <1>4, <1>5 DEF ShellTyped, Shape, Typed

LEMMA DupsShape ==
  ASSUME Shape, Dup \/ DupPipe
  PROVE  Shape' /\ sh.pid \in Progs
<1>1. /\ sh.todo # <<>> /\ sh.todo[1] \in {"dup0", "dup1", "duppipe"} /\ sh.pid \in Progs
      /\ sh' = [sh EXCEPT !.todo = Then]
      /\ UNCHANGED <<alloc, dir, kind, phase, slot, line>>
      /\ feeder' \in [Progs -> Progs \union {0}]
  <2>1. feeder \in [Progs -> Progs \union {0}] /\ sh.left \in Progs \union {0}
    BY ShellFacts DEF Shape, Typed, ProgsTyped
  <2> QED
    BY <2>1, ShellFacts DEF Dup, DupPipe, Calls, Before
<1>2. PICK fd1 \in {sh.fd, sh.stdin}, fd2 \in {0, 1} : Pdup2(sh.pid, fd1, fd2)
  BY DEF Dup, DupPipe
<1>3. DupLeaves(sh.pid, fd1, fd2)
  BY <1>1, <1>2, DupCall DEF Shape, Typed, ProgsTyped
<1>4. KernelTyped' /\ table' \in Tables /\ table'[Shell] = table[Shell]
  <2>1. KernelTyped' /\ table' \in Tables
    BY <1>3 DEF DupLeaves
  <2>2. table \in Tables /\ Shell # sh.pid
    BY <1>1, Sizes DEF Shape, Typed, ProgsTyped, Shell
  <2>3. \A u \in Slots : table'[Shell][u] = table[Shell][u]
    BY <1>3, <2>2 DEF DupLeaves
  <2>4. table'[Shell] = table[Shell]
    <3>1. table[Shell] \in [Slots -> Entries] /\ table'[Shell] \in [Slots -> Entries]
      BY <2>1, <2>2 DEF Tables, Entries
    <3> QED
      BY <3>1, <2>3
  <2> QED
    BY <2>1, <2>4
<1>5. ShellTyped' /\ Planned' /\ Redirects'
  BY <1>1, <1>4, ShellGoesOn
<1>6. Typed' /\ Named' /\ Counted' /\ Unclosed'
  BY <1>1, <1>4, <1>5 DEF Shape, Typed, ProgsTyped, Named, Counted, Unclosed
<1> QED
  BY <1>1, <1>5, <1>6 DEF Shape

LEMMA PrunShape == ASSUME Shape, Prun PROVE Shape'
<1>1. /\ sh.todo # <<>> /\ sh.todo[1] = "prun" /\ sh.pid \in Progs
      /\ phase' = [phase EXCEPT ![sh.pid] = IF @ = "new" THEN "run" ELSE @]
      /\ sh' = [sh EXCEPT !.todo = Then]
      /\ UNCHANGED <<Kernel, table, bytes, slot, line, feeder, wild>>
      /\ phase[sh.pid] \in Unrun
  BY ShellFacts DEF Prun, Calls
<1>2. phase \in [Progs -> {"none", "new", "run", "ending", "zombie"}]
  BY DEF Shape, Typed, ProgsTyped
<1>3. \A p \in Progs : phase[p] \in Unrun => phase'[p] \in Unrun \/ (p = sh.pid /\ sh.todo[1] = "prun")
  BY <1>1, <1>2
<1>4. ShellTyped' /\ Planned' /\ Redirects'
  BY <1>1, <1>3, ShellGoesOn
<1>5. KernelTyped' /\ ProgsTyped' /\ Named'
  BY <1>1, <1>2 DEF Shape, Typed, Kernel, KernelTyped, FilesTyped, BytesTyped, AllocTyped,
     ProgsTyped, Named
<1>6. Counted'
  <2>1. \A p \in Progs : phase'[p] # "none" <=> phase[p] # "none"
    BY <1>1, <1>2
  <2> QED
    BY <1>1, <2>1 DEF Shape, Counted
<1>7. Unclosed'
  BY <1>1, <1>2 DEF Shape, Unclosed
<1> QED
  BY <1>4, <1>5, <1>6, <1>7 DEF Shape, Typed

LEMMA WaitingPlan ==
  ASSUME NEW t \in Seq(Steps), t # <<>>, Ordered(t), t[1] = "waitpid"
  PROVE  LET u == <<"waiting">> \o Tail(t) IN
         /\ u \in Seq(Steps) /\ Ordered(u) /\ u # <<>> /\ u[1] = "waiting"
         /\ \A x : Has(u, x) => x \in After /\ (x = "waiting" \/ Has(t, x))
<1> DEFINE s == Tail(t)
           u == <<"waiting">> \o s
<1>1. /\ s \in Seq(Steps) /\ Ordered(s)
      /\ \A x : Has(s, x) => Has(t, x) /\ Follows("waitpid", x)
      /\ s # <<>> => s[1] \notin {"dup0", "dup1"}
  BY TailOrdered
<1> HIDE DEF s
<1>2. \A i \in 1 .. Len(s) : s[i] \in After
  BY <1>1 DEF Has, Follows, After
<1>3. s \in Seq(After)
  BY <1>1, <1>2
<1>4. /\ u \in Seq(Steps) /\ Len(u) = Len(s) + 1 /\ Len(s) \in Nat
      /\ \A i \in 1 .. Len(u) : u[i] = IF i = 1 THEN "waiting" ELSE s[i - 1]
  <2>1. <<"waiting">> \in Seq(Steps) /\ Len(<<"waiting">>) = 1 /\ <<"waiting">>[1] = "waiting"
    BY DEF Steps
  <2> QED
    BY <1>1, <2>1
<1>5. \A x : Has(u, x) => x = "waiting" \/ (Has(s, x) /\ x \in After)
  <2>1. \A i \in 1 .. Len(u) : i # 1 => i - 1 \in 1 .. Len(s)
    BY <1>4
  <2> HIDE DEF u
  <2> QED
    BY <1>2, <1>4, <2>1 DEF Has
<1>6. PlanOf({"waiting"}, <<"waiting">>)
  BY OnePlan DEF Steps
<1>7. PlanOf(After, s)
  BY <1>1, <1>3 DEF PlanOf, After, Steps
<1>8. Ordered(u)
  <2>1. \A x \in {"waiting"}, y \in After : Follows(x, y)
    BY DEF Follows, After
  <2>2. {"waiting"} \in SUBSET Steps /\ After \in SUBSET Steps
    BY DEF Steps, After
  <2>3. PlanOf({"waiting"} \union After, u)
    BY <1>6, <1>7, <2>1, <2>2, JoinedOrdered
  <2> HIDE DEF u
  <2> QED
    BY <2>3 DEF PlanOf
<1>9. u # <<>> /\ u[1] = "waiting"
  BY <1>4
<1> QED
  BY <1>1, <1>4, <1>5, <1>8, <1>9 DEF s, After

LEMMA WaitpidShape == ASSUME Shape, Waitpid PROVE Shape'
<1> DEFINE u == <<"waiting">> \o Tail(sh.todo)
<1>1. /\ sh.todo # <<>> /\ sh.todo[1] = "waitpid"
      /\ sh' = [sh EXCEPT !.todo = u]
      /\ UNCHANGED <<Kernel, table, bytes, phase, slot, line, feeder, wild>>
  BY ShellFacts DEF Waitpid, Calls
<1>2. sh \in Shells /\ sh.todo \in Seq(Steps) /\ Ordered(sh.todo)
  BY DEF Shape, Typed, ShellTyped, Planned, Shells
<1>3. /\ u \in Seq(Steps) /\ Ordered(u) /\ u # <<>> /\ u[1] = "waiting"
      /\ \A x : Has(u, x) => x \in After /\ (x = "waiting" \/ Has(sh.todo, x))
  BY <1>1, <1>2, WaitingPlan
<1> HIDE DEF u
<1>4. /\ sh'.todo = u /\ sh'.pid = sh.pid /\ sh'.piped = sh.piped /\ sh'.stdin = sh.stdin
  BY <1>1, <1>2 DEF Shells
<1>5. Planned'
  <2>1. /\ \A x \in Before : ~Has(u, x)
        /\ ~Has(u, "prun") /\ ~Has(u, "pcreate") /\ ~Has(u, "duppipe") /\ ~Has(u, "mkfifo")
        /\ Has(u, "rm") => Has(sh.todo, "rm")
    BY <1>3 DEF After, Before
  <2>2. (sh.piped => line # <<>>) /\ (Has(sh.todo, "rm") => ~sh.piped)
    BY DEF Shape, Planned
  <2> QED
    BY <1>1, <1>3, <1>4, <2>1, <2>2 DEF Planned
<1>6. Redirects'
  BY <1>1, <1>3, <1>4 DEF Shape, Redirects, Ready
<1>7. KernelTyped' /\ ProgsTyped' /\ ShellTyped' /\ Named' /\ Counted' /\ Unclosed'
  <2>1. sh' \in Shells
    BY <1>1, <1>2, <1>3 DEF Shells
  <2> QED
    BY <1>1, <2>1 DEF Shape, Typed, Kernel, KernelTyped, FilesTyped, BytesTyped, AllocTyped,
       ProgsTyped, ShellTyped, Named, Counted, Unclosed
<1> QED
  BY <1>5, <1>6, <1>7 DEF Shape, Typed

LEMMA WokenShape == ASSUME Shape, Woken PROVE Shape'
<1>1. /\ sh.todo # <<>> /\ sh.todo[1] = "waiting"
      /\ sh' = [sh EXCEPT !.todo = Tail(@)]
      /\ UNCHANGED <<Kernel, table, bytes, phase, slot, line, feeder, wild>>
  BY ShellFacts DEF Woken, Calls
<1>2. ShellTyped' /\ Planned' /\ Redirects'
  BY <1>1, ShellGoesOn
<1>3. KernelTyped' /\ ProgsTyped' /\ Named' /\ Counted' /\ Unclosed'
  BY <1>1 DEF Shape, Typed, Kernel, KernelTyped, FilesTyped, BytesTyped, AllocTyped,
     ProgsTyped, Named, Counted, Unclosed
<1> QED
  BY <1>2, <1>3 DEF Shape, Typed

\* A name is removed with its inode.
LEMMA RemovedNamed ==
  ASSUME dir \in Dirs, kind \in Kinds, Named, NEW n \in Names, dir[n] # 0
  PROVE  /\ [dir EXCEPT ![n] = 0] \in Dirs /\ [kind EXCEPT ![dir[n]] = "free"] \in Kinds
         /\ NamedIn([dir EXCEPT ![n] = 0], [kind EXCEPT ![dir[n]] = "free"])
<1> DEFINE i == dir[n]
           d == [dir EXCEPT ![n] = 0]
           k == [kind EXCEPT ![i] = "free"]
<1>1. i \in Inodes /\ i # 0
  BY DEF Dirs
<1>2. d \in Dirs /\ k \in Kinds
  BY DEF Dirs, Kinds
<1>3. /\ d[n] = 0 /\ \A m \in Names : m # n => d[m] = dir[m]
      /\ k[i] = "free" /\ \A j \in Inodes : j # i => k[j] = kind[j]
  BY <1>1 DEF Dirs, Kinds
<1>4. \A m \in Names : m # n => dir[m] # i
  BY <1>1 DEF Named, NamedIn
<1> HIDE DEF d, k
<1>5. ASSUME NEW j \in Inodes, k[j] # "free" PROVE \E m \in Names : d[m] = j
  <2>1. j # i /\ kind[j] # "free"
    BY <1>3, <1>5
  <2>2. PICK m \in Names : dir[m] = j
    BY <2>1 DEF Named, NamedIn
  <2> QED
    BY <2>1, <2>2, <1>3
<1>6. ASSUME NEW m \in Names, d[m] # 0 PROVE k[d[m]] # "free"
  <2>1. m # n /\ d[m] = dir[m] /\ dir[m] # i /\ dir[m] \in Inodes
    BY <1>3, <1>4, <1>6 DEF Dirs
  <2>2. kind[dir[m]] # "free"
    BY <2>1, <1>6 DEF Named, NamedIn
  <2> QED
    BY <2>1, <2>2, <1>3
<1>7. \A m, q \in Names : d[m] = d[q] /\ d[m] # 0 => m = q
  BY <1>3 DEF Named, NamedIn
<1> QED
  BY <1>2, <1>5, <1>6, <1>7 DEF NamedIn, d, k

LEMMA RmShape == ASSUME Shape, Rm PROVE Shape'
<1> DEFINE i == IF sh.cad = 0 THEN 0 ELSE dir[sh.cad]
<1>1. /\ sh.todo # <<>> /\ sh.todo[1] = "rm"
      /\ sh' = [sh EXCEPT !.todo = Then]
      /\ UNCHANGED <<files, alloc, table, bytes, phase, slot, line, feeder, wild>>
      /\ IF i = 0 THEN UNCHANGED <<dir, kind>>
         ELSE dir' = [dir EXCEPT ![sh.cad] = 0] /\ kind' = [kind EXCEPT ![i] = "free"]
  BY ShellFacts DEF Rm, Calls
<1>2. ShellTyped' /\ Planned' /\ Redirects'
  BY <1>1, ShellGoesOn
<1>3. dir' \in Dirs /\ kind' \in Kinds /\ Named'
  <2>1. dir \in Dirs /\ kind \in Kinds /\ Named /\ sh.cad \in Names \union {0}
    BY ShellFacts DEF Shape, Typed, KernelTyped
  <2>2. CASE i = 0
    BY <1>1, <2>1, <2>2 DEF Named
  <2>3. CASE i # 0
    <3>1. sh.cad # 0 /\ sh.cad \in Names /\ dir[sh.cad] # 0 /\ i = dir[sh.cad]
      BY <2>1, <2>3
    <3>2. dir' = [dir EXCEPT ![sh.cad] = 0] /\ kind' = [kind EXCEPT ![dir[sh.cad]] = "free"]
      BY <1>1, <2>3, <3>1
    <3> QED
      BY <2>1, <3>1, <3>2, RemovedNamed DEF Named
  <2> QED
    BY <2>2, <2>3
<1>4. KernelTyped' /\ ProgsTyped' /\ Counted' /\ Unclosed'
  BY <1>1, <1>3 DEF Shape, Typed, KernelTyped, FilesTyped, BytesTyped, AllocTyped,
     ProgsTyped, Counted, Unclosed
<1> QED
  BY <1>2, <1>3, <1>4 DEF Shape, Typed

-----------------------------------------------------------------------------
(* Then the programs.  None of their steps is the shell's. *)

LEMMA ShellStays ==
  ASSUME Shape, UNCHANGED <<line, sh>>, table'[Shell] = table[Shell],
         \A p \in Progs : phase[p] \in Unrun => phase'[p] \in Unrun
  PROVE  ShellTyped' /\ Planned' /\ Redirects'
<1>1. ShellTyped'
  BY DEF Shape, Typed, ShellTyped
<1>2. Planned'
  BY DEF Shape, Planned
<1>3. Redirects'
  BY DEF Shape, Redirects, Ready
<1> QED
  BY <1>1, <1>2, <1>3

LEMMA ProgOpensLeaves ==
  ASSUME Shape, NEW p \in Progs, ProgOpens(p) \/ ProgMkfifo(p)
  PROVE  \E type \in {"fifo", "file"} : OpenLeaves(p, type)
<1>1. KernelTyped /\ Named /\ table \in Tables /\ ~Loops(p) /\ p \in Progs \union {Shell}
      /\ UNCHANGED <<bytes, wild>>
  BY DEF Shape, Typed, ProgsTyped, ProgOpens, ProgMkfifo, Opens
<1>2. CASE ProgOpens(p)
  <2>1. PICK name \in {NamedFifo, DataFile}, new \in BOOLEAN :
               \E r \in FdOpen("file", name, new) : Opened(p, r)
    BY <1>2 DEF ProgOpens
  <2>2. PICK r \in FdOpen("file", name, new) : Opened(p, r)
    BY <2>1
  <2>3. name \in Names /\ "file" \in {"fifo", "file"}
    BY Sizes
  <2>4. OpenLeaves(p, "file")
    BY <1>1, <2>2, <2>3, OpenCall
  <2> QED
    BY <2>4
<1>3. CASE ProgMkfifo(p)
  <2>1. PICK r \in FdOpen("fifo", NamedFifo, TRUE) : Mkfifoed(p, r)
    BY <1>3 DEF ProgMkfifo
  <2>2. NamedFifo \in Names /\ "fifo" \in {"fifo", "file"} /\ TRUE \in BOOLEAN
    BY Sizes
  <2>3. OpenLeaves(p, "fifo")
    BY <1>1, <2>1, <2>2, OpenCall
  <2> QED
    BY <2>3
<1> QED
  BY <1>2, <1>3

LEMMA ProgOpensShape ==
  ASSUME Shape, NEW p \in Progs, ProgOpens(p) \/ ProgMkfifo(p)
  PROVE  Shape'
<1>1. UNCHANGED <<bytes, phase, slot, line, sh, feeder, wild>>
  BY DEF ProgOpens, ProgMkfifo
<1>2. PICK type \in {"fifo", "file"} : OpenLeaves(p, type)
  BY ProgOpensLeaves
<1>3. KernelTyped' /\ Named' /\ table' \in Tables
  BY <1>2 DEF OpenLeaves
<1>4. table'[Shell] = table[Shell]
  <2>1. table \in Tables /\ Shell # p
    BY Sizes DEF Shape, Typed, ProgsTyped, Shell
  <2>2. \A u \in Slots : table'[Shell][u] = table[Shell][u]
    BY <1>2, <2>1 DEF OpenLeaves
  <2>3. table[Shell] \in [Slots -> Entries] /\ table'[Shell] \in [Slots -> Entries]
    BY <1>3, <2>1 DEF Tables, Entries
  <2> QED
    BY <2>2, <2>3
<1>5. ShellTyped' /\ Planned' /\ Redirects'
  BY <1>1, <1>4, ShellStays DEF Unrun
<1>6. ProgsTyped' /\ Counted' /\ Unclosed'
  BY <1>1, <1>3 DEF Shape, Typed, ProgsTyped, Counted, Unclosed
<1> QED
  BY <1>3, <1>5, <1>6 DEF Shape, Typed

LEMMA AstrayShape == ASSUME Shape, NEW p \in Progs, Astray(p) PROVE Shape'
<1>1. UNCHANGED <<Kernel, table, bytes, phase, slot, line, sh, feeder>> /\ wild' = TRUE
  BY DEF Astray
<1>2. ShellTyped' /\ Planned' /\ Redirects'
  BY <1>1, ShellStays
<1>3. KernelTyped' /\ ProgsTyped' /\ Named' /\ Counted' /\ Unclosed'
  BY <1>1 DEF Shape, Typed, Kernel, KernelTyped, FilesTyped, BytesTyped, AllocTyped,
     ProgsTyped, Named, Counted, Unclosed
<1> QED
  BY <1>2, <1>3 DEF Shape, Typed


LEMMA BytesShape ==
  ASSUME Shape, NEW i, NEW b, i \in Inodes => b \in Seq(Progs) /\ Len(b) <= MaxBytes,
         bytes' = [bytes EXCEPT ![i] = b],
         UNCHANGED <<Kernel, table, phase, slot, line, sh, feeder, wild>>
  PROVE  Shape'
<1>1. ShellTyped' /\ Planned' /\ Redirects'
  BY ShellStays
<1>2. BytesTyped'
  <2>1. bytes \in [Inodes -> Seq(Progs)] /\ \A j \in Inodes : Len(bytes[j]) <= MaxBytes
    BY DEF Shape, Typed, KernelTyped, BytesTyped
  <2>2. bytes' \in [Inodes -> Seq(Progs)]
    BY <2>1
  <2>3. \A j \in Inodes : bytes'[j] = IF j = i THEN b ELSE bytes[j]
    BY <2>1
  <2> QED
    BY <2>1, <2>2, <2>3 DEF BytesTyped
<1>3. KernelTyped' /\ ProgsTyped' /\ Named' /\ Counted' /\ Unclosed'
  BY <1>2 DEF Shape, Typed, Kernel, KernelTyped, FilesTyped, AllocTyped,
     ProgsTyped, Named, Counted, Unclosed
<1> QED
  BY <1>1, <1>3 DEF Shape, Typed

LEMMA ReadShape == ASSUME Shape, NEW p \in Progs, Read(p) PROVE Shape'
<1>1. PICK s \in Slots \ {1, 2} :
        LET fd == table[p][s]  i == files[fd].data IN
        bytes[i] # <<>> /\ bytes' = [bytes EXCEPT ![i] = Tail(@)]
  BY DEF Read
<1> DEFINE i == files[table[p][s]].data
<1>2. bytes[i] # <<>> /\ bytes' = [bytes EXCEPT ![i] = Tail(bytes[i])]
  BY <1>1
<1>3. UNCHANGED <<Kernel, table, phase, slot, line, sh, feeder, wild>>
  BY DEF Read
<1> HIDE DEF i
<1>4. i \in Inodes => Tail(bytes[i]) \in Seq(Progs) /\ Len(Tail(bytes[i])) <= MaxBytes
  <2>1. i \in Inodes => bytes[i] \in Seq(Progs) /\ Len(bytes[i]) <= MaxBytes
    BY DEF Shape, Typed, KernelTyped, BytesTyped
  <2> QED
    BY <1>2, <2>1, Sizes
<1> QED
  BY <1>2, <1>3, <1>4, BytesShape

LEMMA WriteShape == ASSUME Shape, NEW p \in Progs, Write(p) PROVE Shape'
<1>1. PICK s \in Slots \ {0, 2} :
        LET fd == table[p][s]  i == files[fd].data IN
        Len(bytes[i]) < MaxBytes /\ bytes' = [bytes EXCEPT ![i] = Append(@, p)]
  BY DEF Write
<1> DEFINE i == files[table[p][s]].data
<1>2. Len(bytes[i]) < MaxBytes /\ bytes' = [bytes EXCEPT ![i] = Append(bytes[i], p)]
  BY <1>1
<1>3. UNCHANGED <<Kernel, table, phase, slot, line, sh, feeder, wild>>
  BY DEF Write
<1> HIDE DEF i
<1>4. i \in Inodes => Append(bytes[i], p) \in Seq(Progs) /\ Len(Append(bytes[i], p)) <= MaxBytes
  <2>1. i \in Inodes => bytes[i] \in Seq(Progs) /\ Len(bytes[i]) <= MaxBytes
    BY DEF Shape, Typed, KernelTyped, BytesTyped
  <2> QED
    BY <1>2, <2>1, Sizes
<1> QED
  BY <1>2, <1>3, <1>4, BytesShape

LEMMA EndShape == ASSUME Shape, NEW p \in Progs, End(p) PROVE Shape'
<1>1. /\ UNCHANGED <<Kernel, table, bytes, slot, line, sh, feeder, wild>>
      /\ phase[p] = "run" /\ phase' = [phase EXCEPT ![p] = "ending"]
  BY DEF End, Running
<1>2. phase \in [Progs -> {"none", "new", "run", "ending", "zombie"}]
  BY DEF Shape, Typed, ProgsTyped
<1>3. ShellTyped' /\ Planned' /\ Redirects'
  BY <1>1, <1>2, ShellStays DEF Unrun
<1>4. KernelTyped' /\ ProgsTyped' /\ Named'
  BY <1>1, <1>2 DEF Shape, Typed, Kernel, KernelTyped, FilesTyped, BytesTyped, AllocTyped,
     ProgsTyped, Named
<1>5. Counted'
  <2>1. \A q \in Progs : phase'[q] # "none" <=> phase[q] # "none"
    BY <1>1, <1>2
  <2> QED
    BY <1>1, <2>1 DEF Shape, Counted
<1>6. Unclosed'
  BY <1>1, <1>2 DEF Shape, Unclosed
<1> QED
  BY <1>3, <1>4, <1>5, <1>6 DEF Shape, Typed

\* The slots that one step of process_cleaner closes
Pipes(p) == {s \in Slots : s >= slot[p] /\ table[p][s] \notin {-1, Tty}}
Last(p)  == IF Pipes(p) = {} THEN NSlots - 1
            ELSE CHOOSE t \in Pipes(p) : \A u \in Pipes(p) : t <= u

LEMMA CloseIs ==
  ASSUME ProgsTyped, NEW p \in Progs, Close(p)
  PROVE  /\ phase[p] = "ending" /\ Left(FdCloseAll(p, slot[p], Last(p)))
         /\ slot' = [slot EXCEPT ![p] = Last(p) + 1]
         /\ phase' = IF Pipes(p) = {} THEN [phase EXCEPT ![p] = "zombie"] ELSE phase
         /\ UNCHANGED <<alloc, dir, kind, slip, table, line, sh, spent, feeder, got>>
         /\ slot[p] \in 0 .. NSlots /\ Last(p) \in slot[p] - 1 .. NSlots - 1
         /\ Pipes(p) # {} => Last(p) \in Pipes(p)
         /\ \A s \in slot[p] .. Last(p) : s = Last(p) \/ table[p][s] \in {-1, Tty}
<1>1. /\ phase[p] = "ending" /\ Left(FdCloseAll(p, slot[p], Last(p)))
      /\ slot' = [slot EXCEPT ![p] = Last(p) + 1]
      /\ phase' = IF Pipes(p) = {} THEN [phase EXCEPT ![p] = "zombie"] ELSE phase
      /\ UNCHANGED <<alloc, dir, kind, slip, table, line, sh, spent, feeder, got>>
  BY DEF Close, Last, Pipes
<1>2. slot[p] \in 0 .. NSlots /\ NSlots \in Nat
  BY Sizes DEF ProgsTyped
<1>3. Pipes(p) \in SUBSET Nat /\ \A s \in Pipes(p) : s \in slot[p] .. NSlots - 1
  BY <1>2 DEF Pipes, Slots
<1>4. CASE Pipes(p) = {}
  <2>1. Last(p) = NSlots - 1
    BY <1>4 DEF Last
  <2>2. \A s \in slot[p] .. NSlots - 1 : table[p][s] \in {-1, Tty}
    <3>1. \A s \in slot[p] .. NSlots - 1 : s \in Slots /\ s >= slot[p]
      BY <1>2 DEF Slots
    <3> QED
      BY <1>4, <3>1 DEF Pipes
  <2> QED
    BY <1>1, <1>2, <1>4, <2>1, <2>2
<1>5. CASE Pipes(p) # {}
  <2>1. Last(p) = CHOOSE t \in Pipes(p) : \A u \in Pipes(p) : t <= u
    BY <1>5 DEF Last
  <2>2. Last(p) \in Pipes(p) /\ \A t \in Pipes(p) : Last(p) <= t
    BY <1>3, <1>5, <2>1, Least
  <2>3. Last(p) \in slot[p] .. NSlots - 1
    BY <1>3, <2>2
  <2>4. ASSUME NEW s \in slot[p] .. Last(p), s # Last(p) PROVE table[p][s] \in {-1, Tty}
    <3>1. s \in Slots /\ s >= slot[p] /\ ~(Last(p) <= s)
      BY <1>2, <2>3, <2>4 DEF Slots
    <3>2. s \notin Pipes(p)
      BY <2>2, <3>1
    <3> QED
      BY <3>1, <3>2 DEF Pipes
  <2> QED
    BY <1>1, <1>2, <1>5, <2>2, <2>3, <2>4
<1> QED
  BY <1>4, <1>5

\* Closing leaves the kernel's memory in its shape.
LEMMA LeftTyped ==
  ASSUME Shape, NEW p \in Progs, NEW from \in 0 .. NSlots, NEW to \in from - 1 .. NSlots - 1,
         Left(FdCloseAll(p, from, to)), UNCHANGED <<alloc, dir, kind>>
  PROVE  KernelTyped' /\ Named' /\ \A i \in Inodes : bytes'[i] \in {bytes[i], <<>>}
<1> DEFINE c == FdCloseAll(p, from, to)
<1>1. c \in States /\ Less(c)
  BY CloseAllLess DEF Shape, Typed, ProgsTyped
<1>2. files' = c.files /\ bytes' = c.bytes /\ wild' = c.wild
  BY DEF Left
<1> HIDE DEF c
<1>3. /\ FilesIn(c.files) /\ c.bytes \in [Inodes -> Seq(Progs)] /\ c.wild \in BOOLEAN
      /\ \A i \in Inodes : Len(c.bytes[i]) <= MaxBytes
  BY <1>1, LessTyped DEF Shape, Typed
<1> QED
  BY <1>1, <1>2, <1>3 DEF Less, Shape, Typed, KernelTyped, FilesTyped, BytesTyped, AllocTyped, Named

LEMMA CloseShape == ASSUME Shape, NEW p \in Progs, Close(p) PROVE Shape'
<1>1. /\ phase[p] = "ending" /\ Left(FdCloseAll(p, slot[p], Last(p)))
      /\ slot' = [slot EXCEPT ![p] = Last(p) + 1]
      /\ phase' = IF Pipes(p) = {} THEN [phase EXCEPT ![p] = "zombie"] ELSE phase
      /\ UNCHANGED <<alloc, dir, kind, slip, table, line, sh, spent, feeder, got>>
      /\ slot[p] \in 0 .. NSlots /\ Last(p) \in slot[p] - 1 .. NSlots - 1
  BY CloseIs DEF Shape, Typed
<1>2. phase \in [Progs -> {"none", "new", "run", "ending", "zombie"}] /\ slot \in [Progs -> 0 .. NSlots]
      /\ table \in Tables /\ feeder \in [Progs -> Progs \union {0}]
  BY DEF Shape, Typed, ProgsTyped
<1>3. KernelTyped' /\ Named'
  BY <1>1, LeftTyped
<1>4. phase' \in [Progs -> {"none", "new", "run", "ending", "zombie"}]
      /\ \A q \in Progs : phase'[q] = phase[q] \/ (q = p /\ phase'[q] = "zombie")
  BY <1>1, <1>2
<1>5. slot' \in [Progs -> 0 .. NSlots] /\ \A q \in Progs : q # p => slot'[q] = slot[q]
  <2>1. Last(p) + 1 \in 0 .. NSlots
    BY <1>1, Sizes
  <2> QED
    BY <1>1, <1>2, <2>1
<1>6. ShellTyped' /\ Planned' /\ Redirects'
  BY <1>1, <1>4, ShellStays DEF Unrun
<1>7. ProgsTyped'
  BY <1>1, <1>2, <1>4, <1>5 DEF ProgsTyped
<1>8. Counted'
  <2>1. \A q \in Progs : phase'[q] # "none" <=> phase[q] # "none"
    BY <1>1, <1>4
  <2> QED
    BY <1>1, <2>1 DEF Shape, Counted
<1>9. Unclosed'
  BY <1>1, <1>4, <1>5 DEF Shape, Unclosed
<1> QED
  BY <1>3, <1>6, <1>7, <1>8, <1>9 DEF Shape, Typed

LEMMA KillShape == ASSUME Shape, NEW p \in Progs, Kill(p) PROVE Shape'
<1>1. /\ phase[p] # "none" /\ Left(FdCloseAll(p, 0, NSlots - 1))
      /\ phase' = [phase EXCEPT ![p] = "zombie"]
      /\ UNCHANGED <<alloc, dir, kind, table, slot, line, sh, feeder, got>>
  BY DEF Kill
<1>2. phase \in [Progs -> {"none", "new", "run", "ending", "zombie"}]
  BY DEF Shape, Typed, ProgsTyped
<1>3. KernelTyped' /\ Named'
  <2>1. 0 \in 0 .. NSlots /\ NSlots - 1 \in 0 - 1 .. NSlots - 1
    BY Sizes
  <2> QED
    BY <1>1, <2>1, LeftTyped
<1>4. \A q \in Progs : phase'[q] = phase[q] \/ (q = p /\ phase'[q] = "zombie")
  BY <1>1, <1>2
<1>5. ShellTyped' /\ Planned' /\ Redirects'
  BY <1>1, <1>4, ShellStays DEF Unrun
<1>6. ProgsTyped'
  BY <1>1, <1>2 DEF Shape, Typed, ProgsTyped
<1>7. Counted'
  <2>1. \A q \in Progs : phase'[q] # "none" <=> phase[q] # "none"
    BY <1>1, <1>4
  <2> QED
    BY <1>1, <2>1 DEF Shape, Counted
<1>8. Unclosed'
  BY <1>1, <1>4 DEF Shape, Unclosed
<1> QED
  BY <1>3, <1>5, <1>6, <1>7, <1>8 DEF Shape, Typed

-----------------------------------------------------------------------------
(* The shape is always kept *)

LEMMA ShapeStart == Init => Shape
<1> SUFFICES ASSUME Init PROVE Shape
  OBVIOUS
<1>1. /\ files = [fd \in Fds |-> IF fd = Tty THEN [type |-> "tty", data |-> 0, used |-> 4]
                                 ELSE [type |-> "none", data |-> 0, used |-> 0]]
      /\ alloc = [t \in {"fifo", "file"} |-> [index |-> First(t), size |-> 0]]
      /\ table = [p \in Progs \union {Shell} |->
                    IF p = Shell THEN NewTable ELSE [s \in Slots |-> -1]]
      /\ dir = [n \in Names |-> 0] /\ kind = [i \in Inodes |-> "free"]
      /\ bytes = [i \in Inodes |-> <<>>]
      /\ phase = [p \in Progs |-> "none"] /\ slot = [p \in Progs |-> 0]
      /\ line = <<>>
      /\ sh = [todo |-> <<>>, pid |-> 0, fd |-> 0, stdin |-> 0, left |-> 0, cad |-> 0,
               in |-> FALSE, out |-> FALSE, piped |-> FALSE]
      /\ feeder = [p \in Progs |-> 0] /\ wild = FALSE
  BY DEF Init
<1>2. KernelTyped
  <2>1. FilesTyped
    <3>1. files \in [Fds -> File]
      BY <1>1 DEF File
    <3>2. files[Tty].type = "tty" /\ \A fd \in Fds : files[fd].type # "fifo"
      BY <1>1, Sizes
    <3> QED
      BY <3>1, <3>2 DEF FilesTyped, FilesIn
  <2>2. BytesTyped
    <3>1. <<>> \in Seq(Progs) /\ Len(<<>>) = 0 /\ 0 <= MaxBytes
      BY Sizes
    <3> QED
      BY <1>1, <3>1 DEF BytesTyped
  <2>3. AllocTyped
    <3>1. \A t \in {"fifo", "file"} : First(t) \in Nat /\ First(t) \in First(t) .. First(t) + Many(t) - 2
      BY Ranges
    <3> HIDE DEF First, Many
    <3> QED
      BY <1>1, <3>1 DEF AllocTyped, AllocIn, Alloc
  <2>4. dir \in Dirs /\ kind \in Kinds /\ wild \in BOOLEAN
    BY <1>1 DEF Dirs, Kinds
  <2> QED
    BY <2>1, <2>2, <2>3, <2>4 DEF KernelTyped
<1>3. NewTable \in [Slots -> Entries] /\ [s \in Slots |-> -1] \in [Slots -> Entries]
      /\ \A s \in Slots : NewTable[s] = Tty <=> s < 3
  BY Sizes DEF NewTable, Entries, Tty
<1>4. ProgsTyped
  <2>1. table \in Tables
    BY <1>1, <1>3 DEF Tables, Entries
  <2>2. 0 \in 0 .. NSlots
    BY Sizes
  <2> QED
    BY <1>1, <2>1, <2>2 DEF ProgsTyped
<1>5. ShellTyped
  <2>1. <<>> \in Seq(Steps) /\ 0 \in Slots /\ <<>> \in Seq(Commands)
    BY Sizes
  <2> QED
    BY <1>1, <2>1 DEF ShellTyped, Shells
<1>6. Named
  BY <1>1 DEF Named, NamedIn
<1>7. Planned
  <2>1. sh.todo = <<>> /\ Len(<<>>) = 0 /\ ~sh.piped
    BY <1>1
  <2> QED
    BY <2>1 DEF Planned, Ordered, Has
<1>8. Redirects
  <2>1. table[Shell] = NewTable
    BY <1>1
  <2> QED
    BY <1>1, <1>3, <2>1 DEF Redirects, Ready
<1>9. Counted
  <2>1. 0 \in 0 .. NProgs /\ 0 + Len(line) <= NProgs
    BY <1>1, Sizes
  <2>2. \A p \in Progs : phase[p] # "none" <=> p <= 0
    BY <1>1, Sizes
  <2> QED
    BY <2>1, <2>2 DEF Counted
<1>10. Unclosed
  BY <1>1 DEF Unclosed
<1> QED
  BY <1>2, <1>4, <1>5, <1>6, <1>7, <1>8, <1>9, <1>10 DEF Shape, Typed

LEMMA ShapeSame == ASSUME Shape, UNCHANGED vars PROVE Shape'
<1>1. UNCHANGED <<files, alloc, table, dir, kind, bytes, phase, slot, line, sh, feeder, wild>>
  BY DEF vars
<1>2. Typed' /\ Named' /\ Counted' /\ Unclosed'
  BY <1>1 DEF Shape, Typed, KernelTyped, FilesTyped, BytesTyped, AllocTyped, ProgsTyped,
     ShellTyped, Named, Counted, Unclosed
<1>3. Planned' /\ Redirects'
  BY <1>1 DEF Shape, Planned, Redirects, Ready
<1> QED
  BY <1>2, <1>3 DEF Shape

LEMMA ShapeStep == ASSUME Shape, [Next]_vars PROVE Shape'
<1>1. CASE ShellStep
  BY <1>1, PromptShape, PcreateShape, OpenFileShape, OpenPipeShape, LoopShape, DupsShape,
     PrunShape, WaitpidShape, WokenShape, RmShape DEF ShellStep
<1>2. ASSUME NEW p \in Progs, ProgStep(p) PROVE Shape'
  BY <1>2, ProgOpensShape, AstrayShape, ReadShape, WriteShape, EndShape, CloseShape, KillShape
     DEF ProgStep
<1>3. CASE UNCHANGED vars
  BY <1>3, ShapeSame
<1> QED
  BY <1>1, <1>2, <1>3 DEF Next

LEMMA ShapeAlways == Spec => []Shape
<1>1. Init => Shape
  BY ShapeStart
<1>2. Shape /\ [Next]_vars => Shape'
  BY ShapeStep
<1> QED
  BY <1>1, <1>2, PTL DEF Spec

LEMMA ShapeGivesTypeOK == ASSUME Shape PROVE TypeOK
<1>1. ASSUME NEW fd \in Fds
      PROVE  /\ files[fd].type \in {"none", "tty", "fifo", "file"} /\ files[fd].used \in Nat
             /\ files[fd].type = "fifo" => files[fd].used = 0 \/ files[fd].data \in Inodes
  <2>1. files[fd] \in File /\ (files[fd].type = "fifo" => files[fd].used = 0 \/ files[fd].data # 0)
    BY DEF Shape, Typed, KernelTyped, FilesTyped, FilesIn
  <2> QED
    BY <2>1 DEF File
<1>2. \A p \in Progs \union {Shell}, s \in Slots : table[p][s] \in Fds \union {-1, ERR_PERMS}
  BY DEF Shape, Typed, ProgsTyped, Tables
<1>3. dir \in [Names -> Inodes \union {0}] /\ \A i \in Inodes : Len(bytes[i]) <= MaxBytes
  BY DEF Shape, Typed, KernelTyped, BytesTyped, Dirs
<1>4. \A t \in {"fifo", "file"} : alloc[t].index \in First(t) .. First(t) + Many(t) - 2
  BY DEF Shape, Typed, KernelTyped, AllocTyped, AllocIn
<1> QED
  BY <1>1, <1>2, <1>3, <1>4 DEF TypeOK

\* The state always has the shape the code gives it: a count of uses is never
\* negative, a slot holds a descriptor, none, or the error of a mkfifo, and an
\* allocator never points past its descriptors.
THEOREM DescriptorsTypeOK == Spec => []TypeOK
<1>1. Shape => TypeOK
  BY ShapeGivesTypeOK
<1> QED
  BY <1>1, ShapeAlways, PTL

-----------------------------------------------------------------------------
(* The uses of the terminal's descriptor *)

TtyHeld == {h \in Holds : table[h[1]][h[2]] = Tty}

LEMMA TtyHeldIs ==
  /\ IsFiniteSet(TtyHeld) /\ Cardinality(TtyHeld) \in Nat
  /\ TtyHeld \subseteq Progs \X Slots
  /\ \A p \in Progs, s \in Slots :
       <<p, s>> \in TtyHeld <=>
         phase[p] \in {"new", "run", "ending"} /\ s >= slot[p] /\ table[p][s] = Tty
<1>1. TtyHeld \subseteq Progs \X Slots
  BY DEF TtyHeld, Holds
<1>2. IsFiniteSet(Progs) /\ IsFiniteSet(Slots)
  <2>1. NProgs \in Int /\ NSlots - 1 \in Int /\ 0 \in Int /\ 1 \in Int
    BY Sizes
  <2>2. IsFiniteSet(1 .. NProgs)
    BY <2>1, FS_Interval
  <2>3. IsFiniteSet(0 .. NSlots - 1)
    BY <2>1, FS_Interval
  <2> QED
    BY <2>2, <2>3 DEF Progs, Slots
<1>3. IsFiniteSet(Progs \X Slots)
  BY <1>2, FS_Product
<1>4. IsFiniteSet(TtyHeld)
  BY <1>1, <1>3, FS_Subset
<1>5. Cardinality(TtyHeld) \in Nat
  BY <1>4, FS_CardinalityType
<1>6. ASSUME NEW p \in Progs, NEW s \in Slots
      PROVE  <<p, s>> \in TtyHeld <=>
               phase[p] \in {"new", "run", "ending"} /\ s >= slot[p] /\ table[p][s] = Tty
  <2>1. p # Shell /\ Tty # -1
    BY Sizes DEF Shell, Tty
  <2>2. <<p, s>> \in Progs \X Slots /\ <<p, s>>[1] = p /\ <<p, s>>[2] = s
    OBVIOUS
  <2>3. <<p, s>> \in Holds <=> Live(p) /\ s >= slot[p] /\ table[p][s] # -1
    BY <2>2 DEF Holds
  <2>4. Live(p) <=> phase[p] \in {"new", "run", "ending"}
    BY <2>1 DEF Live
  <2> QED
    BY <2>1, <2>2, <2>3, <2>4 DEF TtyHeld
<1> QED
  BY <1>1, <1>4, <1>5, <1>6

\* The same, after a step
LEMMA TtyHeldNext ==
  /\ TtyHeld' \subseteq Progs \X Slots
  /\ \A p \in Progs, s \in Slots :
       <<p, s>> \in TtyHeld' <=>
         phase'[p] \in {"new", "run", "ending"} /\ s >= slot'[p] /\ table'[p][s] = Tty
<1>1. TtyHeld' \subseteq Progs \X Slots
  BY DEF TtyHeld, Holds
<1>2. ASSUME NEW p \in Progs, NEW s \in Slots
      PROVE  <<p, s>> \in TtyHeld' <=>
               phase'[p] \in {"new", "run", "ending"} /\ s >= slot'[p] /\ table'[p][s] = Tty
  <2>1. p # Shell /\ Tty # -1
    BY Sizes DEF Shell, Tty
  <2>2. <<p, s>> \in Progs \X Slots /\ <<p, s>>[1] = p /\ <<p, s>>[2] = s
    OBVIOUS
  <2>3. <<p, s>> \in Holds' <=> Live(p)' /\ s >= slot'[p] /\ table'[p][s] # -1
    BY <2>2 DEF Holds, Live
  <2>4. Live(p)' <=> phase'[p] \in {"new", "run", "ending"}
    BY <2>1 DEF Live
  <2> QED
    BY <2>1, <2>2, <2>3, <2>4 DEF TtyHeld
<1> QED
  BY <1>1, <1>2

LEMMA TtyStays ==
  ASSUME TtyCounted, slip \subseteq slip', files'[Tty].used = files[Tty].used,
         \A p \in Progs, s \in Slots : <<p, s>> \in TtyHeld' <=> <<p, s>> \in TtyHeld
  PROVE  TtyCounted'
<1>1. TtyHeld' = TtyHeld
  <2>1. TtyHeld' \subseteq Progs \X Slots /\ TtyHeld \subseteq Progs \X Slots
    BY TtyHeldIs, TtyHeldNext
  <2>2. ASSUME NEW h \in Progs \X Slots PROVE h \in TtyHeld' <=> h \in TtyHeld
    <3>1. h = <<h[1], h[2]>> /\ h[1] \in Progs /\ h[2] \in Slots
      OBVIOUS
    <3> QED
      BY <3>1
  <2> QED
    BY <2>1, <2>2
<1>2. "twice" \notin slip' => files'[Tty].used = 4 + Cardinality(TtyHeld')
  BY <1>1 DEF TtyCounted, TtyHeld
<1> QED
  BY <1>2 DEF TtyCounted, TtyHeld

\* A step that changes neither what programs hold nor a count.
LEMMA TtyUntouched ==
  ASSUME TtyCounted, slip \subseteq slip', UNCHANGED <<files, table, slot>>,
         \A p \in Progs : phase'[p] \in {"new", "run", "ending"} <=> phase[p] \in {"new", "run", "ending"}
  PROVE  TtyCounted'
<1>1. \A p \in Progs, s \in Slots : <<p, s>> \in TtyHeld' <=> <<p, s>> \in TtyHeld
  BY TtyHeldIs, TtyHeldNext
<1> QED
  BY <1>1, TtyStays

\* A step that opens a descriptor
LEMMA TtyOpens ==
  ASSUME TtyCounted, NEW p \in Progs \union {Shell}, NEW type \in {"fifo", "file"},
         OpenLeaves(p, type), UNCHANGED <<phase, slot>>
  PROVE  TtyCounted'
<1>1. slip \subseteq slip' /\ files'[Tty].used = files[Tty].used
  BY DEF OpenLeaves
<1>2. \A q \in Progs, s \in Slots : table'[q][s] = Tty <=> table[q][s] = Tty
  <2>1. -1 # Tty /\ Tty \notin FdsOf(type) /\ Tty # ERR_PERMS
    BY Sizes DEF Tty, FdsOf, ERR_PERMS
  <2> QED
    BY <2>1 DEF OpenLeaves
<1>3. \A q \in Progs, s \in Slots : <<q, s>> \in TtyHeld' <=> <<q, s>> \in TtyHeld
  BY <1>2, TtyHeldIs, TtyHeldNext
<1> QED
  BY <1>1, <1>3, TtyStays

\* A new program has the terminal three times.
LEMMA TtyPcreate == ASSUME Shape, TtyCounted, Pcreate PROVE TtyCounted'
<1>1. /\ PcreateUnknown \/ \E p \in Progs :
           /\ PcreateKnown(p)
           /\ \A q \in Progs : phase[q] # "none" <=> q < p
      /\ UNCHANGED <<slip, slot>>
  BY PcreateIs
<1>2. CASE PcreateUnknown
  BY <1>1, <1>2, TtyUntouched DEF PcreateUnknown
<1>3. CASE ~PcreateUnknown
  <2>1. PICK p \in Progs : PcreateKnown(p) /\ \A q \in Progs : phase[q] # "none" <=> q < p
    BY <1>1, <1>3
  <2>2. /\ files' = NewFiles /\ table' = [table EXCEPT ![p] = NewTable]
        /\ phase' = [phase EXCEPT ![p] = "new"]
    BY <2>1 DEF PcreateKnown
  <2>3. phase[p] = "none" /\ slot[p] = 0
        /\ phase \in [Progs -> {"none", "new", "run", "ending", "zombie"}] /\ table \in Tables
    BY <2>1, Sizes DEF Shape, Typed, ProgsTyped, Unclosed
  <2>4. files'[Tty].used = files[Tty].used + 3 /\ files[Tty].used \in Nat
    BY <2>2, NewFilesTyped, Sizes DEF Shape, Typed, KernelTyped, FilesTyped, FilesIn, File
  <2> DEFINE New == {<<p, 0>>, <<p, 1>>, <<p, 2>>}
  <2>5. ASSUME NEW q \in Progs, NEW s \in Slots
        PROVE  <<q, s>> \in TtyHeld' <=> <<q, s>> \in TtyHeld \/ <<q, s>> \in New
    <3>1. CASE q = p
      <4>1. phase'[q] = "new" /\ slot'[q] = 0 /\ table'[q] = NewTable /\ <<q, s>> \notin TtyHeld
        BY <3>1, <1>1, <2>2, <2>3, TtyHeldIs DEF Tables
      <4>2. s \in Nat /\ (NewTable[s] = Tty <=> s < 3)
        BY Sizes DEF NewTable, Tty
      <4>3. <<q, s>> \in TtyHeld' <=> s < 3
        BY <4>1, <4>2, TtyHeldNext
      <4>4. s < 3 <=> <<q, s>> \in New
        BY <3>1, <4>2
      <4> QED
        BY <4>1, <4>3, <4>4
    <3>2. CASE q # p
      <4>1. phase'[q] = phase[q] /\ slot'[q] = slot[q] /\ table'[q] = table[q]
        BY <3>2, <1>1, <2>2, <2>3 DEF Tables
      <4>2. <<q, s>> \notin New
        BY <3>2
      <4> QED
        BY <4>1, <4>2, TtyHeldIs, TtyHeldNext
    <3> QED
      BY <3>1, <3>2
  <2>6. New \subseteq Progs \X Slots /\ \A h \in New : h \notin TtyHeld
    BY <2>3, Sizes, TtyHeldIs
  <2>7. IsFiniteSet(New) /\ Cardinality(New) = 3
    <3>1. IsFiniteSet({<<p, 0>>, <<p, 1>>}) /\ Cardinality({<<p, 0>>, <<p, 1>>}) = 2
      <4>1. IsFiniteSet({<<p, 0>>}) /\ Cardinality({<<p, 0>>}) = 1
        BY FS_Singleton
      <4>2. {<<p, 0>>} \union {<<p, 1>>} = {<<p, 0>>, <<p, 1>>} /\ <<p, 1>> \notin {<<p, 0>>}
        OBVIOUS
      <4>3. IsFiniteSet({<<p, 0>>} \union {<<p, 1>>}) /\ Cardinality({<<p, 0>>} \union {<<p, 1>>}) = 1 + 1
        BY <4>1, <4>2, FS_AddElement
      <4> QED
        BY <4>2, <4>3
    <3>2. {<<p, 0>>, <<p, 1>>} \union {<<p, 2>>} = New /\ <<p, 2>> \notin {<<p, 0>>, <<p, 1>>}
      OBVIOUS
    <3> HIDE DEF New
    <3>3. IsFiniteSet(New) /\ Cardinality(New) = 2 + 1
      BY <3>1, <3>2, FS_AddElement
    <3> QED
      BY <3>3
  <2> HIDE DEF New
  <2>8. TtyHeld' = TtyHeld \union New /\ TtyHeld \intersect New = {}
    <3>1. TtyHeld' \subseteq Progs \X Slots /\ TtyHeld \subseteq Progs \X Slots
      BY TtyHeldIs, TtyHeldNext
    <3>2. ASSUME NEW h \in Progs \X Slots PROVE h \in TtyHeld' <=> h \in TtyHeld \union New
      <4>1. h = <<h[1], h[2]>> /\ h[1] \in Progs /\ h[2] \in Slots
        OBVIOUS
      <4> QED
        BY <4>1, <2>5
    <3> QED
      BY <2>6, <3>1, <3>2
  <2>9. Cardinality(TtyHeld') = Cardinality(TtyHeld) + 3
    <3>1. Cardinality(TtyHeld \union New)
            = Cardinality(TtyHeld) + Cardinality(New) - Cardinality(TtyHeld \intersect New)
      BY <2>7, TtyHeldIs, FS_Union
    <3>2. Cardinality(TtyHeld \intersect New) = 0
      BY <2>8, FS_EmptySet
    <3>3. Cardinality(TtyHeld) \in Nat
      BY TtyHeldIs
    <3>4. Cardinality(TtyHeld') = Cardinality(TtyHeld \union New)
      BY <2>8
    <3> QED
      BY <3>1, <3>2, <3>3, <3>4, <2>7
  <2>10. "twice" \notin slip' => files'[Tty].used = 4 + Cardinality(TtyHeld')
    BY <1>1, <2>4, <2>9, TtyHeldIs DEF TtyCounted, TtyHeld
  <2> QED
    BY <2>10 DEF TtyCounted, TtyHeld
<1> QED
  BY <1>2, <1>3

LEMMA TtyClose ==
  ASSUME NEW st \in States, NEW fd \in Entries
  PROVE  /\ st.files[Tty].used \in Nat
         /\ FdClose(st, fd).files[Tty].used =
              IF fd = Tty /\ st.files[Tty].used > 0
              THEN st.files[Tty].used - 1 ELSE st.files[Tty].used
<1>1. Tty \in Fds
  BY Sizes
<1>2. st.files[Tty] \in File
  BY <1>1 DEF States
<1>3. FdClose(st, fd).files[Tty].used =
        IF Tty = fd /\ st.files[Tty].used > 0
        THEN st.files[Tty].used - 1 ELSE st.files[Tty].used
  BY <1>1, CloseGives
<1> QED
  BY <1>2, <1>3 DEF File

\* A slot of the terminal's that is closed, or taken for a redirection
LEMMA TtyDup ==
  ASSUME Shape, TtyCounted, NEW pid \in Progs, NEW fd1, NEW fd2 \in {0, 1},
         DupLeaves(pid, fd1, fd2), fd1 = -1 \/ (fd1 \in Slots /\ fd1 >= 3),
         phase[pid] = "new", UNCHANGED <<phase, slot, slip>>
  PROVE  TtyCounted'
<1>1. CASE fd1 \notin Slots
  BY <1>1, TtyUntouched DEF DupLeaves
<1>2. CASE fd1 \in Slots
  <2> DEFINE c == FdClose(State, table[pid][fd2])
  <2>1. /\ table'[pid][fd2] = table[Shell][fd1]
        /\ \A q \in Progs \union {Shell}, u \in Slots :
             q # pid \/ u # fd2 => table'[q][u] = table[q][u]
        /\ files' = c.files
    BY <1>2 DEF DupLeaves
  <2>2. fd1 >= 3 /\ -1 \notin Slots
    BY <1>2, Sizes
  <2>3. table[Shell][fd1] # Tty
    <3>1. table[Shell][fd1] = Tty <=> fd1 < 3
      BY <1>2 DEF Shape, Redirects
    <3>2. fd1 \in Nat
      BY <1>2, Sizes
    <3> QED
      BY <3>1, <3>2, <2>2
  <2>4. slot[pid] = 0 /\ fd2 \in Slots /\ fd2 >= 0
    BY Sizes DEF Shape, Unclosed
  <2>5. State \in States /\ table[pid][fd2] \in Entries /\ State.files = files
    BY <2>4, StateTyped DEF Shape, Typed, ProgsTyped, Tables, Entries, State
  <2>6. /\ files[Tty].used \in Nat
        /\ files'[Tty].used = IF table[pid][fd2] = Tty /\ files[Tty].used > 0
                              THEN files[Tty].used - 1 ELSE files[Tty].used
    BY <2>1, <2>5, TtyClose
  <2> HIDE DEF c
  <2>7. ASSUME NEW q \in Progs, NEW s \in Slots
        PROVE  <<q, s>> \in TtyHeld' <=> <<q, s>> \in TtyHeld /\ ~(q = pid /\ s = fd2)
    <3>1. CASE q = pid /\ s = fd2
      BY <3>1, <2>1, <2>3, TtyHeldNext
    <3>2. CASE ~(q = pid /\ s = fd2)
      BY <3>2, <2>1, TtyHeldIs, TtyHeldNext
    <3> QED
      BY <3>1, <3>2
  <2>8. CASE table[pid][fd2] # Tty
    <3>1. <<pid, fd2>> \notin TtyHeld
      BY <2>4, <2>8, TtyHeldIs
    <3>2. \A q \in Progs, s \in Slots : <<q, s>> \in TtyHeld' <=> <<q, s>> \in TtyHeld
      BY <2>7, <3>1
    <3> QED
      BY <2>6, <2>8, <3>2, TtyStays
  <2>9. CASE table[pid][fd2] = Tty
    <3>1. <<pid, fd2>> \in TtyHeld
      BY <2>4, <2>9, TtyHeldIs
    <3>2. TtyHeld' = TtyHeld \ {<<pid, fd2>>}
      <4>1. TtyHeld' \subseteq Progs \X Slots /\ TtyHeld \subseteq Progs \X Slots
        BY TtyHeldIs, TtyHeldNext
      <4>2. ASSUME NEW h \in Progs \X Slots PROVE h \in TtyHeld' <=> h \in TtyHeld \ {<<pid, fd2>>}
        <5>1. h = <<h[1], h[2]>> /\ h[1] \in Progs /\ h[2] \in Slots
          OBVIOUS
        <5>2. h = <<pid, fd2>> <=> h[1] = pid /\ h[2] = fd2
          BY <5>1
        <5> QED
          BY <5>1, <5>2, <2>7
      <4> QED
        BY <4>1, <4>2
    <3>3. Cardinality(TtyHeld') = Cardinality(TtyHeld) - 1
      BY <3>1, <3>2, TtyHeldIs, FS_RemoveElement
    <3>4. Cardinality(TtyHeld) \in Nat
      BY TtyHeldIs
    <3>5. "twice" \notin slip => files[Tty].used = 4 + Cardinality(TtyHeld)
      BY DEF TtyCounted, TtyHeld
    <3>6. "twice" \notin slip' => files'[Tty].used = 4 + Cardinality(TtyHeld')
      BY <3>3, <3>4, <3>5, <2>6, <2>9
    <3> QED
      BY <3>6 DEF TtyCounted, TtyHeld
  <2> QED
    BY <2>8, <2>9
<1> QED
  BY <1>1, <1>2

\* A pdup2 that closes no slot a second time is on a program that is not killed.
LEMMA DupOnce ==
  ASSUME Shape, Dup \/ DupPipe
  PROVE  /\ sh.pid \in Progs /\ UNCHANGED <<alloc, dir, kind, phase, slot>>
         /\ slip \subseteq slip'
         /\ "twice" \notin slip' => slip' = slip /\ phase[sh.pid] = "new" /\ slot[sh.pid] = 0
<1>1. /\ sh.pid \in Progs /\ (phase[sh.pid] = "new" => slot[sh.pid] = 0)
      /\ UNCHANGED <<alloc, dir, kind, phase, slot>> /\ ClosesTwice
  BY ShellFacts DEF Dup, DupPipe, Calls, Before
<1> QED
  BY <1>1 DEF ClosesTwice

LEMMA TtyDups == ASSUME Shape, TtyCounted, Dup \/ DupPipe PROVE TtyCounted'
<1> SUFFICES ASSUME "twice" \notin slip' PROVE TtyCounted'
  BY DEF TtyCounted
<1>1. /\ sh.pid \in Progs /\ phase[sh.pid] = "new" /\ UNCHANGED <<alloc, dir, kind, phase, slot, slip>>
  BY DupOnce
<1>2. \E fd1 \in {-1} \union {s \in Slots : s >= 3}, fd2 \in {0, 1} : Pdup2(sh.pid, fd1, fd2)
  <2>1. CASE Dup
    <3>1. Ready
      BY <2>1, ShellFacts DEF Dup, Calls, Ready
    <3>2. sh.fd \in {-1} \union {s \in Slots : s >= 3}
      BY <3>1, ShellFacts DEF Shape, Redirects
    <3> QED
      BY <2>1, <3>2 DEF Dup
  <2>2. CASE DupPipe
    <3>1. sh.todo # <<>> /\ sh.todo[1] = "duppipe"
      BY <2>2, ShellFacts DEF DupPipe, Calls
    <3>2. sh.stdin # 0
      BY <3>1, ShellFacts DEF Shape, Planned
    <3>3. sh.stdin \in {-1} \union {s \in Slots : s >= 3}
      BY <3>2, ShellFacts DEF Shape, Redirects
    <3> QED
      BY <2>2, <3>3 DEF DupPipe
  <2> QED
    BY <2>1, <2>2
<1>3. PICK fd1 \in {-1} \union {s \in Slots : s >= 3}, fd2 \in {0, 1} : Pdup2(sh.pid, fd1, fd2)
  BY <1>2
<1>4. DupLeaves(sh.pid, fd1, fd2)
  BY <1>1, <1>3, DupCall DEF Shape, Typed, ProgsTyped
<1>5. fd1 = -1 \/ (fd1 \in Slots /\ fd1 >= 3)
  BY <1>3
<1> QED
  BY <1>1, <1>3, <1>4, <1>5, TtyDup

\* What is left to the terminal when a program has closed its slots up to k
TtyRest(p, k) == {h \in TtyHeld : ~(h[1] = p /\ h[2] <= k)}

\* Closing a slot of a program counts it, if it leads to the terminal.
LEMMA TtyCloseStep ==
  ASSUME Shape, NEW p \in Progs, phase[p] \in {"new", "run", "ending"},
         NEW s \in Slots, s >= slot[p], NEW st \in States,
         st.files[Tty].used = 4 + Cardinality(TtyRest(p, s - 1))
  PROVE  /\ FdClose(st, table[p][s]).files[Tty].used = 4 + Cardinality(TtyRest(p, s))
         /\ st.files[Tty].used > 0
<1> DEFINE H(k) == TtyRest(p, k)
           fd == table[p][s]
<1>1. fd \in Entries /\ s \in Nat
  BY Sizes DEF Shape, Typed, ProgsTyped, Tables, Entries
<1>2. /\ st.files[Tty].used \in Nat
      /\ FdClose(st, fd).files[Tty].used = IF fd = Tty /\ st.files[Tty].used > 0
           THEN st.files[Tty].used - 1 ELSE st.files[Tty].used
  BY <1>1, TtyClose
<1>3. ASSUME NEW h \in TtyHeld PROVE h \in H(s) <=> h \in H(s - 1) /\ h # <<p, s>>
  <2>1. h = <<h[1], h[2]>> /\ h[2] \in Slots
    BY TtyHeldIs
  <2>2. h[2] \in Nat
    BY <2>1, Sizes
  <2>3. h[2] <= s <=> h[2] <= s - 1 \/ h[2] = s
    BY <2>2, <1>1
  <2>4. h = <<p, s>> <=> h[1] = p /\ h[2] = s
    BY <2>1
  <2> QED
    BY <2>3, <2>4 DEF TtyRest
<1>4. H(s) = H(s - 1) \ {<<p, s>>}
  BY <1>3 DEF TtyRest
<1>5. <<p, s>> \in H(s - 1) <=> fd = Tty
  <2>1. <<p, s>> \in TtyHeld <=> fd = Tty
    BY TtyHeldIs
  <2>2. <<p, s>>[1] = p /\ <<p, s>>[2] = s /\ ~(s <= s - 1)
    BY <1>1
  <2> QED
    BY <2>1, <2>2 DEF TtyRest
<1>6. IsFiniteSet(H(s - 1)) /\ Cardinality(H(s - 1)) \in Nat
  <2>1. H(s - 1) \subseteq TtyHeld /\ IsFiniteSet(TtyHeld)
    BY TtyHeldIs DEF TtyRest
  <2> QED
    BY <2>1, FS_Subset, FS_CardinalityType
<1> HIDE DEF H, fd
<1>7. Cardinality(H(s)) = IF fd = Tty THEN Cardinality(H(s - 1)) - 1 ELSE Cardinality(H(s - 1))
  <2>1. Cardinality(H(s - 1) \ {<<p, s>>})
          = IF <<p, s>> \in H(s - 1) THEN Cardinality(H(s - 1)) - 1 ELSE Cardinality(H(s - 1))
    BY <1>6, FS_RemoveElement
  <2> QED
    BY <2>1, <1>4, <1>5
<1>8. st.files[Tty].used = 4 + Cardinality(H(s - 1))
  BY DEF H
<1>9. FdClose(st, fd).files[Tty].used = 4 + Cardinality(H(s)) /\ st.files[Tty].used > 0
  BY <1>2, <1>6, <1>7, <1>8
<1> QED
  BY <1>9 DEF H, fd

LEMMA TtyRestStart ==
  ASSUME Shape, NEW p \in Progs
  PROVE  TtyRest(p, slot[p] - 1) = TtyHeld
<1>1. slot[p] \in Nat
  BY Sizes DEF Shape, Typed, ProgsTyped
<1>2. ASSUME NEW h \in TtyHeld PROVE ~(h[1] = p /\ h[2] <= slot[p] - 1)
  <2>1. h \in Progs \X Slots
    BY TtyHeldIs
  <2>2. h = <<h[1], h[2]>> /\ h[1] \in Progs /\ h[2] \in Slots
    BY <2>1
  <2>3. h[2] >= slot[h[1]] /\ h[2] \in Nat
    <3>1. <<h[1], h[2]>> \in TtyHeld
      BY <1>2, <2>2, Zenon
    <3> QED
      BY <2>2, <3>1, TtyHeldIs, Sizes
  <2> QED
    BY <2>3, <1>1
<1> QED
  BY <1>2 DEF TtyRest

LEMMA TtyCloseAll ==
  ASSUME Shape, NEW p \in Progs, phase[p] \in {"new", "run", "ending"},
         NEW to \in slot[p] - 1 .. NSlots - 1,
         files[Tty].used = 4 + Cardinality(TtyHeld)
  PROVE  LET c == FdCloseAll(p, slot[p], to) IN
         c \in States /\ c.files[Tty].used = 4 + Cardinality(TtyRest(p, to))
<1> DEFINE T == {t \in (slot[p] - 1 .. to) \X States :
                   t[2].files[Tty].used = 4 + Cardinality(TtyRest(p, t[1]))}
<1>1. /\ slot[p] \in 0 .. NSlots /\ NSlots \in Nat /\ table \in Tables
      /\ KernelTyped /\ State \in States /\ State.files = files
  BY Sizes, StateTyped DEF Shape, Typed, ProgsTyped, State
<1>2. <<slot[p] - 1, State>> \in T
  <2>1. slot[p] - 1 \in slot[p] - 1 .. to
    BY <1>1
  <2>2. State.files[Tty].used = 4 + Cardinality(TtyRest(p, slot[p] - 1))
    BY <1>1, TtyRestStart
  <2> QED
    BY <1>1, <2>1, <2>2
<1>3. ASSUME NEW s \in slot[p] .. to, NEW st \in States, <<s - 1, st>> \in T
      PROVE  <<s, FdClose(st, table[p][s])>> \in T
  <2>1. s \in Slots /\ s \in slot[p] - 1 .. to /\ s >= slot[p]
    BY <1>1 DEF Slots
  <2>2. table[p][s] \in Entries
    BY <1>1, <2>1 DEF Tables, Entries
  <2>3. st.files[Tty].used = 4 + Cardinality(TtyRest(p, s - 1))
    BY <1>3
  <2>4. FdClose(st, table[p][s]) \in States
    BY <2>2, CloseTyped
  <2>5. FdClose(st, table[p][s]).files[Tty].used = 4 + Cardinality(TtyRest(p, s))
    BY <2>1, <2>3, TtyCloseStep
  <2> QED
    BY <2>1, <2>4, <2>5
<1> HIDE DEF T
<1>4. FdCloseAll(p, slot[p], to) \in States /\ <<to, FdCloseAll(p, slot[p], to)>> \in T
  BY <1>1, <1>2, <1>3, CloseAll
<1>5. FdCloseAll(p, slot[p], to).files[Tty].used = 4 + Cardinality(TtyRest(p, to))
  BY <1>4 DEF T
<1> QED
  BY <1>4, <1>5

\* A program that closes slots keeps those after them.
LEMMA TtyLeft ==
  ASSUME Shape, TtyCounted, "twice" \notin slip', slip \subseteq slip',
         NEW p \in Progs, phase[p] \in {"new", "run", "ending"},
         NEW to \in slot[p] - 1 .. NSlots - 1, Left(FdCloseAll(p, slot[p], to)),
         UNCHANGED table,
         \A q \in Progs : q # p => slot'[q] = slot[q] /\ phase'[q] = phase[q],
         \A s \in Slots : phase'[p] \in {"new", "run", "ending"} /\ s >= slot'[p] <=> s > to
  PROVE  TtyCounted'
<1> DEFINE c == FdCloseAll(p, slot[p], to)
           H == TtyRest(p, to)
<1>1. files[Tty].used = 4 + Cardinality(TtyHeld)
  BY DEF TtyCounted, TtyHeld
<1>2. c \in States /\ c.files[Tty].used = 4 + Cardinality(H)
  BY <1>1, TtyCloseAll
<1>3. files' = c.files
  BY DEF Left
<1>4. slot[p] \in 0 .. NSlots /\ to \in Int
  BY Sizes DEF Shape, Typed, ProgsTyped
<1>5. ASSUME NEW q \in Progs, NEW s \in Slots
      PROVE  <<q, s>> \in TtyHeld' <=> <<q, s>> \in TtyHeld /\ ~(q = p /\ s <= to)
  <2>1. CASE q # p
    BY <2>1, TtyHeldIs, TtyHeldNext
  <2>2. CASE q = p
    <3>1. s \in Nat /\ (s > to <=> ~(s <= to)) /\ (s > to => s >= slot[p])
      BY <1>4, Sizes
    <3> QED
      BY <2>2, <3>1, TtyHeldIs, TtyHeldNext
  <2> QED
    BY <2>1, <2>2
<1>6. TtyHeld' = H
  <2>1. TtyHeld' \subseteq Progs \X Slots /\ TtyHeld \subseteq Progs \X Slots
    BY TtyHeldIs, TtyHeldNext
  <2>2. ASSUME NEW h \in Progs \X Slots PROVE h \in TtyHeld' <=> h \in H
    <3>1. h = <<h[1], h[2]>> /\ h[1] \in Progs /\ h[2] \in Slots
      OBVIOUS
    <3> QED
      BY <3>1, <1>5 DEF TtyRest
  <2>3. H \subseteq TtyHeld
    BY DEF TtyRest
  <2> QED
    BY <2>1, <2>2, <2>3
<1> HIDE DEF H, c
<1>7. files'[Tty].used = 4 + Cardinality(TtyHeld')
  BY <1>2, <1>3, <1>6
<1> QED
  BY <1>7 DEF TtyCounted, TtyHeld

LEMMA TtyCloses == ASSUME Shape, TtyCounted, NEW p \in Progs, Close(p) PROVE TtyCounted'
<1>1. CASE "twice" \in slip'
  BY <1>1 DEF TtyCounted
<1>2. CASE "twice" \notin slip'
  <2>1. /\ phase[p] = "ending" /\ Left(FdCloseAll(p, slot[p], Last(p)))
        /\ slot' = [slot EXCEPT ![p] = Last(p) + 1]
        /\ phase' = IF Pipes(p) = {} THEN [phase EXCEPT ![p] = "zombie"] ELSE phase
        /\ UNCHANGED <<slip, table>>
        /\ slot[p] \in 0 .. NSlots /\ Last(p) \in slot[p] - 1 .. NSlots - 1
    BY CloseIs DEF Shape, Typed
  <2>2. phase \in [Progs -> {"none", "new", "run", "ending", "zombie"}] /\ slot \in [Progs -> 0 .. NSlots]
    BY DEF Shape, Typed, ProgsTyped
  <2>3. slot'[p] = Last(p) + 1 /\ \A q \in Progs : q # p => slot'[q] = slot[q] /\ phase'[q] = phase[q]
    BY <2>1, <2>2
  <2>4. ASSUME NEW s \in Slots
        PROVE  phase'[p] \in {"new", "run", "ending"} /\ s >= slot'[p] <=> s > Last(p)
    <3>1. s \in Nat /\ s <= NSlots - 1 /\ Last(p) \in Int
      BY <2>1, Sizes DEF Slots
    <3>2. CASE Pipes(p) = {}
      <4>1. Last(p) = NSlots - 1 /\ phase'[p] = "zombie"
        BY <2>1, <2>2, <3>2 DEF Last
      <4> QED
        BY <3>1, <4>1
    <3>3. CASE Pipes(p) # {}
      <4>1. phase'[p] = "ending"
        BY <2>1, <3>3
      <4>2. s >= Last(p) + 1 <=> s > Last(p)
        BY <3>1
      <4> QED
        BY <2>3, <4>1, <4>2
    <3> QED
      BY <3>2, <3>3
  <2> QED
    BY <1>2, <2>1, <2>3, <2>4, TtyLeft
<1> QED
  BY <1>1, <1>2

LEMMA TtyKill == ASSUME Shape, TtyCounted, NEW p \in Progs, Kill(p) PROVE TtyCounted'
<1>1. CASE "twice" \in slip'
  BY <1>1 DEF TtyCounted
<1>2. CASE "twice" \notin slip'
  <2>1. /\ phase[p] # "none" /\ Left(FdCloseAll(p, 0, NSlots - 1))
        /\ phase' = [phase EXCEPT ![p] = "zombie"]
        /\ slip' = slip \union (IF slot[p] > 0 \/ phase[p] = "zombie" THEN {"twice"} ELSE {})
        /\ UNCHANGED <<table, slot>>
    BY DEF Kill
  <2>2. phase \in [Progs -> {"none", "new", "run", "ending", "zombie"}] /\ slot \in [Progs -> 0 .. NSlots]
    BY DEF Shape, Typed, ProgsTyped
  <2>3. phase[p] \in {"new", "run", "ending"} /\ slot[p] = 0 /\ slip \subseteq slip'
    BY <1>2, <2>1, <2>2
  <2>4. phase'[p] = "zombie" /\ \A q \in Progs : q # p => phase'[q] = phase[q]
    BY <2>1, <2>2
  <2>5. NSlots - 1 \in slot[p] - 1 .. NSlots - 1
    BY <2>3, Sizes
  <2>6. \A s \in Slots : phase'[p] \in {"new", "run", "ending"} /\ s >= slot'[p] <=> s > NSlots - 1
    BY <2>4, Sizes DEF Slots
  <2> QED
    BY <1>2, <2>1, <2>3, <2>4, <2>5, <2>6, TtyLeft
<1> QED
  BY <1>1, <1>2

LEMMA TtyStep == ASSUME Shape, TtyCounted, [Next]_vars PROVE TtyCounted'
<1>1. CASE Prompt \/ Loop \/ Waitpid \/ Woken \/ Rm
  <2>1. slip \subseteq slip' /\ UNCHANGED <<files, table, slot, phase>>
    BY <1>1 DEF Prompt, Loop, Waitpid, Woken, Rm, Kernel
  <2> QED
    BY <2>1, TtyUntouched
<1>2. CASE Prun
  <2>1. /\ UNCHANGED <<slip, files, table, slot>> /\ sh.pid \in Progs
        /\ phase' = [phase EXCEPT ![sh.pid] = IF @ = "new" THEN "run" ELSE @]
    BY <1>2, ShellFacts DEF Prun, Kernel, Calls
  <2>2. phase \in [Progs -> {"none", "new", "run", "ending", "zombie"}]
    BY DEF Shape, Typed, ProgsTyped
  <2> QED
    BY <2>1, <2>2, TtyUntouched
<1>3. CASE OpenFile \/ OpenPipe
  <2>1. \E type \in {"fifo", "file"} : OpenLeaves(Shell, type)
    BY <1>3, OpenFileLeaves, OpenPipeLeaves
  <2>2. UNCHANGED <<phase, slot>>
    BY <1>3 DEF OpenFile, OpenPipe
  <2> QED
    BY <2>1, <2>2, TtyOpens
<1>4. ASSUME NEW p \in Progs, ProgStep(p) PROVE TtyCounted'
  <2>1. CASE ProgOpens(p) \/ ProgMkfifo(p)
    <3>1. UNCHANGED <<phase, slot>>
      BY <2>1 DEF ProgOpens, ProgMkfifo
    <3> QED
      BY <2>1, <3>1, ProgOpensLeaves, TtyOpens
  <2>2. CASE Astray(p) \/ Read(p) \/ Write(p)
    <3>1. UNCHANGED <<slip, files, table, slot, phase>>
      BY <2>2 DEF Astray, Read, Write, Kernel
    <3> QED
      BY <3>1, TtyUntouched
  <2>3. CASE End(p)
    <3>1. UNCHANGED <<slip, files, table, slot>> /\ phase' = [phase EXCEPT ![p] = "ending"]
          /\ phase[p] = "run"
      BY <2>3 DEF End, Kernel, Running
    <3>2. phase \in [Progs -> {"none", "new", "run", "ending", "zombie"}]
      BY DEF Shape, Typed, ProgsTyped
    <3> QED
      BY <3>1, <3>2, TtyUntouched
  <2> QED
    BY <1>4, <2>1, <2>2, <2>3, TtyCloses, TtyKill DEF ProgStep
<1>5. CASE UNCHANGED vars
  BY <1>5, TtyUntouched DEF vars
<1> QED
  BY <1>1, <1>2, <1>3, <1>4, <1>5, TtyPcreate, TtyDups DEF Next, ShellStep

LEMMA TtyStart == ASSUME Init PROVE TtyCounted
<1>1. files[Tty].used = 4 /\ phase = [p \in Progs |-> "none"]
  BY Sizes DEF Init
<1>2. \A h \in TtyHeld : FALSE
  <2>1. SUFFICES ASSUME NEW h \in TtyHeld PROVE FALSE
    OBVIOUS
  <2>2. h \in Progs \X Slots
    BY <2>1, TtyHeldIs
  <2>3. h = <<h[1], h[2]>> /\ h[1] \in Progs /\ h[2] \in Slots
    BY <2>2
  <2>4. phase[h[1]] \in {"new", "run", "ending"}
    BY <2>1, <2>3, TtyHeldIs
  <2> QED
    BY <1>1, <2>3, <2>4
<1>3. TtyHeld = {} /\ Cardinality({}) = 0
  BY <1>2, FS_EmptySet
<1>4. files[Tty].used = 4 + Cardinality(TtyHeld)
  BY <1>1, <1>3
<1> QED
  BY <1>4 DEF TtyCounted, TtyHeld

\* The terminal's descriptor has one use for each slot of a program it is in,
\* and the ones of tty_init, whatever is piped, redirected, closed or killed,
\* until a slot is closed twice.
THEOREM DescriptorsTtyCounted == Spec => []TtyCounted
<1>1. Init => Shape /\ TtyCounted
  BY ShapeStart, TtyStart
<1>2. (Shape /\ TtyCounted) /\ [Next]_vars => (Shape /\ TtyCounted)'
  BY ShapeStep, TtyStep
<1>3. Shape /\ TtyCounted => TtyCounted
  OBVIOUS
<1> QED
  BY <1>1, <1>2, <1>3, PTL DEF Spec

-----------------------------------------------------------------------------
(* As long as nothing has slipped *)

LeadsIn(f, fd) == fd \in FileFds \/ (fd \in FifoFds /\ f[fd].type = "fifo")
Leads(fd) == LeadsIn(files, fd)

Pending(fd) == Ready /\ table[Shell][sh.fd] = fd

\* A slot leads to a descriptor, and never to a fifo's that was not opened.
Slotted ==
  /\ \A h \in Holds : table[h[1]][h[2]] = Tty \/ Leads(table[h[1]][h[2]])
  /\ Ready => sh.fd \in Slots /\ Leads(table[Shell][sh.fd])
  /\ sh.stdin # 0 => /\ sh.stdin \in Slots /\ table[Shell][sh.stdin] \in FifoFds
                     /\ Leads(table[Shell][sh.stdin])

\* A file is in one slot of those in H, or about to be, and then has a use.
OneEach(f, H) ==
  \A fd \in FileFds :
    /\ f[fd].used <= 1
    /\ f[fd].used = 0 => ~Pending(fd) /\ \A h \in H : table[h[1]][h[2]] # fd
    /\ Pending(fd) => \A h \in H : table[h[1]][h[2]] # fd
    /\ \A g, h \in H : table[g[1]][g[2]] = fd /\ table[h[1]][h[2]] = fd => g = h

Clean == Slotted /\ OneEach(files, Holds)

LEMMA HoldsIs ==
  /\ Holds \subseteq Progs \X Slots
  /\ \A p \in Progs, s \in Slots :
       <<p, s>> \in Holds <=>
         phase[p] \in {"new", "run", "ending"} /\ s >= slot[p] /\ table[p][s] # -1
  /\ \A h \in Holds : h[1] \in Progs /\ h[2] \in Slots /\ h = <<h[1], h[2]>>
<1>1. Holds \subseteq Progs \X Slots
  BY DEF Holds
<1>2. ASSUME NEW p \in Progs, NEW s \in Slots
      PROVE  <<p, s>> \in Holds <=>
               phase[p] \in {"new", "run", "ending"} /\ s >= slot[p] /\ table[p][s] # -1
  <2>1. p # Shell
    BY Sizes DEF Shell
  <2>2. <<p, s>> \in Progs \X Slots /\ <<p, s>>[1] = p /\ <<p, s>>[2] = s
    OBVIOUS
  <2>3. <<p, s>> \in Holds <=> Live(p) /\ s >= slot[p] /\ table[p][s] # -1
    BY <2>2 DEF Holds
  <2>4. Live(p) <=> phase[p] \in {"new", "run", "ending"}
    BY <2>1 DEF Live
  <2> QED
    BY <2>3, <2>4
<1>3. \A h \in Progs \X Slots : h[1] \in Progs /\ h[2] \in Slots /\ h = <<h[1], h[2]>>
  OBVIOUS
<1> QED
  BY <1>1, <1>2, <1>3

LEMMA HoldsNext ==
  /\ Holds' \subseteq Progs \X Slots
  /\ \A p \in Progs, s \in Slots :
       <<p, s>> \in Holds' <=>
         phase'[p] \in {"new", "run", "ending"} /\ s >= slot'[p] /\ table'[p][s] # -1
  /\ \A h \in Holds' : h[1] \in Progs /\ h[2] \in Slots /\ h = <<h[1], h[2]>>
<1>1. Holds' \subseteq Progs \X Slots
  BY DEF Holds
<1>2. ASSUME NEW p \in Progs, NEW s \in Slots
      PROVE  <<p, s>> \in Holds' <=>
               phase'[p] \in {"new", "run", "ending"} /\ s >= slot'[p] /\ table'[p][s] # -1
  <2>1. p # Shell
    BY Sizes DEF Shell
  <2>2. <<p, s>> \in Progs \X Slots /\ <<p, s>>[1] = p /\ <<p, s>>[2] = s
    OBVIOUS
  <2>3. <<p, s>> \in Holds' <=> Live(p)' /\ s >= slot'[p] /\ table'[p][s] # -1
    BY <2>2 DEF Holds, Live
  <2>4. Live(p)' <=> phase'[p] \in {"new", "run", "ending"}
    BY <2>1 DEF Live
  <2> QED
    BY <2>3, <2>4
<1>3. \A h \in Progs \X Slots : h[1] \in Progs /\ h[2] \in Slots /\ h = <<h[1], h[2]>>
  OBVIOUS
<1> QED
  BY <1>1, <1>2, <1>3

\* Nothing is held that was not, if only phases and slots go on.
LEMMA HoldsLess ==
  ASSUME UNCHANGED table,
         \A p \in Progs, s \in Slots :
           phase'[p] \in {"new", "run", "ending"} /\ s >= slot'[p] =>
             phase[p] \in {"new", "run", "ending"} /\ s >= slot[p]
  PROVE  Holds' \subseteq Holds
<1>1. ASSUME NEW h \in Holds' PROVE h \in Holds
  <2>1. h[1] \in Progs /\ h[2] \in Slots /\ h = <<h[1], h[2]>>
    BY HoldsNext
  <2>2. <<h[1], h[2]>> \in Holds'
    BY <2>1, Zenon
  <2>3. <<h[1], h[2]>> \in Holds
    BY <2>1, <2>2, HoldsIs, HoldsNext
  <2> QED
    BY <2>1, <2>3, Zenon
<1> QED
  BY <1>1

\* What the shell is about to duplicate, and the pipe it has, stay.
ShellKeeps ==
  /\ ~Ready' \/ (Ready /\ sh'.fd = sh.fd)
  /\ sh'.stdin \in {sh.stdin, 0}

LEMMA CleanQuiet ==
  ASSUME Clean, UNCHANGED <<table, files>>, Holds' \subseteq Holds, ShellKeeps
  PROVE  Clean'
<1>1. \A fd : Leads(fd)' <=> Leads(fd)
  BY DEF Leads, LeadsIn
<1>2. Slotted'
  BY <1>1 DEF Clean, Slotted, ShellKeeps
<1>3. \A fd : Pending(fd)' => Pending(fd)
  BY DEF Pending, ShellKeeps
<1>4. OneEach(files, Holds)'
  BY <1>3 DEF Clean, OneEach
<1> QED
  BY <1>2, <1>4 DEF Clean

\* What an open gives when nothing slips
Gives(type, name, r) ==
  /\ r.fd = alloc[type].index /\ r.fd \in FdsOf(type) /\ ~Led(r.fd)
  /\ files[r.fd].used = 0
  /\ \E i \in Inodes :
       /\ r.dir[name] = i
       /\ r.files = [files EXCEPT ![r.fd] =
                       [type |-> IF r.kind[i] = "fifo" THEN "fifo" ELSE type, data |-> i, used |-> 1]]
GivesNot(type, r) ==
  /\ type = "file" => r.fd \in {-1, ERR_PERMS, ERR_NO_EXIST}
  /\ type = "fifo" => r.fd = ERR_PERMS
  /\ \/ r.files = files /\ type = "file"
     \/ \E fd \in FdsOf(type) :
          /\ files[fd].used = 0 /\ ~Led(fd)
          /\ r.files = [files EXCEPT ![fd] = [type |-> type, data |-> 0, used |-> 0]]

LEMMA CleanOpen ==
  ASSUME KernelTyped, Named, NEW name \in Names, NEW new \in BOOLEAN,
         NEW type \in {"fifo", "file"}, type = "fifo" => new,
         NEW r \in FdOpen(type, name, new), r.slip = {}
  PROVE  Gives(type, name, r) \/ GivesNot(type, r)
<1> DEFINE fd == Allocated(type).fd
<1>1. /\ NoneLeft(type, r) \/ Shared(type, r) \/ Made(type, name, new, r)
      /\ fd \in FdsOf(type) \union {-1} /\ (fd # -1 => fd = alloc[type].index)
  BY FdOpenCases, AllocatedGives DEF KernelTyped, AllocTyped
<1>2. CASE NoneLeft(type, r)
  <2>1. type = "file"
    BY <1>2 DEF NoneLeft
  <2> QED
    BY <1>2, <2>1 DEF NoneLeft, GivesNot
<1>3. CASE Shared(type, r)
  BY <1>3 DEF Shared
<1>4. CASE Made(type, name, new, r)
  <2>1. fd # -1 /\ ~(files[fd].used > 0) /\ fd \in FdsOf(type) /\ fd = alloc[type].index
    BY <1>1, <1>4 DEF Made
  <2>2. files[fd].used = 0
    <3>1. files[fd] \in File
      BY <2>1 DEF KernelTyped, FilesTyped, FilesIn, FdsOf, Fds
    <3> QED
      BY <2>1, <3>1 DEF File
  <2>3. ~Led(fd)
    BY <1>4 DEF Made
  <2>4. PICK o \in FsOpen(name, new, type) :
          /\ r.fd = IF o.ino > 0 THEN fd ELSE o.ino
          /\ r.files = [files EXCEPT ![fd] = OpenedAs(type, o)]
          /\ r.dir = o.dir /\ r.kind = o.kind
    BY <1>4 DEF Made
  <2> HIDE DEF fd
  <2>5. dir \in Dirs /\ kind \in Kinds
    BY DEF KernelTyped
  <2>6. /\ o.ino \in Inodes \union {ERR_PERMS, ERR_NO_EXIST}
        /\ o.ino = ERR_NO_EXIST => ~new
        /\ o.ino \in Inodes => o.dir[name] = o.ino
    BY <2>5, FsOpenGives, ZenonT(30)
  <2>7. (o.ino > 0 => o.ino \in Inodes) /\ (o.ino \in Inodes => o.ino > 0)
    BY <2>5, OpenedAsTyped
  <2>8. CASE o.ino > 0
    <3>1. r.fd = fd /\ o.ino \in Inodes /\ r.dir[name] = o.ino
      BY <2>4, <2>6, <2>7, <2>8
    <3>2. r.files = [files EXCEPT ![fd] =
                       [type |-> IF r.kind[o.ino] = "fifo" THEN "fifo" ELSE type,
                        data |-> o.ino, used |-> 1]]
      <4>1. OpenedAs(type, o) = [type |-> IF r.kind[o.ino] = "fifo" THEN "fifo" ELSE type,
                                 data |-> o.ino, used |-> 1]
        BY <2>4, <2>8 DEF OpenedAs
      <4> QED
        BY <2>4, <4>1
    <3> QED
      BY <2>1, <2>2, <2>3, <3>1, <3>2 DEF Gives
  <2>9. CASE ~(o.ino > 0)
    <3>1. o.ino \in {ERR_PERMS, ERR_NO_EXIST} /\ (o.ino = ERR_NO_EXIST => ~new)
      BY <2>6, <2>7, <2>9
    <3>2. r.fd = o.ino /\ r.files = [files EXCEPT ![fd] = [type |-> type, data |-> 0, used |-> 0]]
      BY <2>4, <2>9 DEF OpenedAs
    <3> QED
      BY <2>1, <2>2, <2>3, <3>1, <3>2 DEF GivesNot
  <2> QED
    BY <2>8, <2>9
<1> QED
  BY <1>1, <1>2, <1>3, <1>4

\* No descriptor was given, and the shell goes on.
LEMMA CleanNoFd ==
  ASSUME FilesTyped, Clean, NEW r, GivesNot("file", r), files' = r.files,
         UNCHANGED table, Holds' \subseteq Holds, ShellKeeps
  PROVE  Clean'
<1>1. CASE r.files = files
  BY <1>1, CleanQuiet
<1>2. CASE r.files # files
  <2>1. PICK fd \in FileFds :
          /\ files[fd].used = 0
          /\ files' = [files EXCEPT ![fd] = [type |-> "file", data |-> 0, used |-> 0]]
    BY <1>2 DEF GivesNot, FdsOf
  <2>2. files \in [Fds -> File] /\ FileFds \subseteq Fds /\ FifoFds \subseteq Fds /\ FifoFds \intersect FileFds = {}
    BY Sizes DEF FilesTyped, FilesIn, Fds
  <2>3. /\ \A g \in FifoFds : files'[g] = files[g]
        /\ \A g \in FileFds : files'[g].used = files[g].used
    BY <2>1, <2>2
  <2>4. \A g : Leads(g) => Leads(g)'
    BY <2>3 DEF Leads, LeadsIn
  <2>5. Slotted'
    BY <2>4 DEF Clean, Slotted, ShellKeeps
  <2>6. \A g : Pending(g)' => Pending(g)
    BY DEF Pending, ShellKeeps
  <2>7. OneEach(files, Holds)'
    BY <2>3, <2>6 DEF Clean, OneEach
  <2> QED
    BY <2>5, <2>7 DEF Clean
<1> QED
  BY <1>1, <1>2

\* Who has the new descriptor: a program, or the shell, which is to duplicate
\* it, and keeps it if it is a pipe's.
ShellHas(p, u, type) ==
  \/ p \in Progs /\ UNCHANGED sh
  \/ /\ p = Shell
     /\ Ready' => sh'.fd = u
     /\ sh'.stdin = sh.stdin \/ (type = "fifo" /\ sh'.stdin = u)

LEMMA CleanNewFd ==
  ASSUME FilesTyped, table \in Tables, Clean, NEW type \in {"fifo", "file"}, NEW name, NEW r,
         Gives(type, name, r), files' = r.files, UNCHANGED <<phase, slot>>,
         NEW p \in Progs \union {Shell}, NEW u \in Slots, table[p][u] = -1,
         table' = [table EXCEPT ![p][u] = r.fd], ShellHas(p, u, type)
  PROVE  Clean'
<1> DEFINE fd == r.fd
<1>1. /\ files \in [Fds -> File] /\ FileFds \subseteq Fds /\ FifoFds \subseteq Fds
      /\ FifoFds \intersect FileFds = {} /\ fd \in FdsOf(type) /\ fd \in Fds /\ Tty # -1 /\ -1 \notin Fds
  BY Sizes DEF FilesTyped, FilesIn, Fds, FdsOf, Gives, Tty
<1>2. /\ files'[fd].used = 1 /\ (type = "fifo" => files'[fd].type = "fifo")
      /\ \A g \in Fds : g # fd => files'[g] = files[g]
  <2>1. PICK i : r.files = [files EXCEPT ![r.fd] =
                       [type |-> IF r.kind[i] = "fifo" THEN "fifo" ELSE type, data |-> i, used |-> 1]]
    BY DEF Gives
  <2> QED
    BY <1>1, <2>1
<1>3. ~Led(fd) /\ files[fd].used = 0
  BY DEF Gives
<1>4. /\ table'[p][u] = fd
      /\ \A q \in Progs \union {Shell}, s \in Slots : q # p \/ s # u => table'[q][s] = table[q][s]
  BY DEF Tables
<1>5. p \in Progs => Shell # p
  BY Sizes DEF Shell
<1> HIDE DEF fd
<1>6. \A g : Leads(g) => LeadsIn(files', g)
  <2>1. ASSUME NEW g \in FifoFds, files[g].type = "fifo" PROVE files'[g].type = "fifo"
    <3>1. CASE g = fd
      BY <1>1, <1>2, <3>1 DEF FdsOf
    <3>2. CASE g # fd
      BY <1>1, <1>2, <2>1, <3>2
    <3> QED
      BY <3>1, <3>2
  <2> QED
    BY <2>1 DEF Leads, LeadsIn
<1>7. LeadsIn(files', fd)
  BY <1>1, <1>2 DEF LeadsIn, FdsOf
<1>8. ASSUME NEW h \in Holds'
      PROVE  \/ h = <<p, u>> /\ p \in Progs /\ table'[h[1]][h[2]] = fd
             \/ h \in Holds /\ h # <<p, u>> /\ table'[h[1]][h[2]] = table[h[1]][h[2]]
  <2>1. h[1] \in Progs /\ h[2] \in Slots /\ h = <<h[1], h[2]>>
    BY HoldsNext
  <2>2. CASE h[1] = p /\ h[2] = u
    BY <2>1, <2>2, <1>4
  <2>3. CASE ~(h[1] = p /\ h[2] = u)
    <3>1. table'[h[1]][h[2]] = table[h[1]][h[2]]
      BY <2>1, <2>3, <1>4
    <3>2. <<h[1], h[2]>> \in Holds
      <4>1. <<h[1], h[2]>> \in Holds'
        BY <2>1, Zenon
      <4> QED
        BY <2>1, <3>1, <4>1, HoldsIs, HoldsNext
    <3>3. h # <<p, u>>
      BY <2>3, <2>1
    <3> QED
      BY <2>1, <3>1, <3>2, <3>3, Zenon
  <2> QED
    BY <2>2, <2>3
<1>9. ASSUME NEW h \in Holds PROVE table[h[1]][h[2]] # fd
  BY <1>3 DEF Led
<1>10. p \in Progs => \A s \in Slots : table'[Shell][s] = table[Shell][s]
  BY <1>4, <1>5
<1>11. p \in Progs => Ready' = Ready /\ sh' = sh
  BY <1>5 DEF ShellHas, Ready
<1>12. p = Shell => (Ready' => sh'.fd = u)
                    /\ (sh'.stdin = sh.stdin \/ (type = "fifo" /\ sh'.stdin = u))
  BY <1>5 DEF ShellHas
<1>13. Slotted'
  <2>1. ASSUME NEW h \in Holds' PROVE table'[h[1]][h[2]] = Tty \/ LeadsIn(files', table'[h[1]][h[2]])
    <3>1. CASE table'[h[1]][h[2]] = fd
      BY <3>1, <1>7
    <3>2. CASE h \in Holds /\ table'[h[1]][h[2]] = table[h[1]][h[2]]
      <4>1. table[h[1]][h[2]] = Tty \/ Leads(table[h[1]][h[2]])
        BY <3>2 DEF Clean, Slotted
      <4> QED
        BY <3>2, <4>1, <1>6
    <3> QED
      BY <3>1, <3>2, <1>8
  <2>2. Ready' => sh'.fd \in Slots /\ LeadsIn(files', table'[Shell][sh'.fd])
    <3>1. CASE p \in Progs
      <4>1. Ready => sh.fd \in Slots /\ Leads(table[Shell][sh.fd])
        BY DEF Clean, Slotted
      <4> QED
        BY <3>1, <4>1, <1>6, <1>10, <1>11
    <3>2. CASE p = Shell
      BY <3>2, <1>4, <1>7, <1>12
    <3> QED
      BY <3>1, <3>2
  <2>3. sh'.stdin # 0 => /\ sh'.stdin \in Slots /\ table'[Shell][sh'.stdin] \in FifoFds
                         /\ LeadsIn(files', table'[Shell][sh'.stdin])
    <3>0. sh.stdin # 0 => /\ sh.stdin \in Slots /\ table[Shell][sh.stdin] \in FifoFds
                          /\ Leads(table[Shell][sh.stdin])
      BY DEF Clean, Slotted
    <3>1. CASE p \in Progs
      BY <3>0, <3>1, <1>6, <1>10, <1>11
    <3>2. CASE p = Shell /\ sh'.stdin = sh.stdin
      <4>1. sh.stdin # 0 => sh.stdin # u
        BY <3>0, <3>2, <1>1
      <4> QED
        BY <3>0, <3>2, <4>1, <1>4, <1>6
    <3>3. CASE p = Shell /\ type = "fifo" /\ sh'.stdin = u
      BY <3>3, <1>1, <1>4, <1>7 DEF FdsOf
    <3> QED
      BY <3>1, <3>2, <3>3, <1>12
  <2> QED
    BY <2>1, <2>2, <2>3 DEF Slotted, Leads
<1>14. OneEach(files, Holds)'
  <2>1. SUFFICES ASSUME NEW g \in FileFds
        PROVE  /\ files'[g].used <= 1
               /\ files'[g].used = 0 => ~Pending(g)' /\ \A h \in Holds' : table'[h[1]][h[2]] # g
               /\ Pending(g)' => \A h \in Holds' : table'[h[1]][h[2]] # g
               /\ \A k, h \in Holds' : table'[k[1]][k[2]] = g /\ table'[h[1]][h[2]] = g => k = h
    BY DEF OneEach
  <2>2. /\ files[g].used <= 1
        /\ files[g].used = 0 => ~Pending(g) /\ \A h \in Holds : table[h[1]][h[2]] # g
        /\ Pending(g) => \A h \in Holds : table[h[1]][h[2]] # g
        /\ \A k, h \in Holds : table[k[1]][k[2]] = g /\ table[h[1]][h[2]] = g => k = h
    BY DEF Clean, OneEach
  <2>3. p \in Progs => (Pending(g)' <=> Pending(g))
    <3>1. Ready => sh.fd \in Slots
      BY DEF Clean, Slotted
    <3> QED
      BY <3>1, <1>10, <1>11 DEF Pending
  <2>4. p = Shell => (Pending(g)' => g = fd)
    BY <1>4, <1>12 DEF Pending
  <2>5. CASE g # fd
    <3>1. files'[g] = files[g]
      BY <1>1, <1>2, <2>5
    <3>2. Pending(g)' => Pending(g)
      BY <2>3, <2>4, <2>5
    <3>3. \A h \in Holds' : table'[h[1]][h[2]] = g => h \in Holds /\ table[h[1]][h[2]] = g
      BY <1>8, <2>5
    <3> QED
      BY <2>2, <3>1, <3>2, <3>3
  <2>6. CASE g = fd
    <3>1. ~Pending(fd) /\ files'[fd].used = 1
      BY <1>2, <1>3, <2>2, <2>6
    <3>2. \A h \in Holds' : table'[h[1]][h[2]] = fd => h = <<p, u>> /\ p \in Progs
      BY <1>8, <1>9
    <3>3. Pending(fd)' => p \notin Progs
      BY <2>3, <2>6, <3>1
    <3> QED
      BY <2>6, <3>1, <3>2, <3>3
  <2> QED
    BY <2>5, <2>6
<1> QED
  BY <1>13, <1>14 DEF Clean

LEMMA CleanProgOpens ==
  ASSUME Shape, Clean, slip' = {}, NEW p \in Progs, ProgOpens(p) \/ ProgMkfifo(p)
  PROVE  Clean'
<1>1. /\ KernelTyped /\ FilesTyped /\ Named /\ table \in Tables /\ UNCHANGED <<phase, slot, sh>>
      /\ FreeSlot(p) \in Slots /\ table[p][FreeSlot(p)] = -1
  <2>1. ~Loops(p) /\ UNCHANGED <<phase, slot, sh>>
    BY DEF ProgOpens, ProgMkfifo, Opens
  <2> QED
    BY <2>1, FreeSlotIs DEF Shape, Typed, ProgsTyped, KernelTyped
<1>2. ShellKeeps /\ \A u, type : ShellHas(p, u, type)
  BY <1>1 DEF ShellKeeps, ShellHas, Ready
<1>3. CASE ProgOpens(p)
  <2>1. PICK name \in {NamedFifo, DataFile}, new \in BOOLEAN :
               \E r \in FdOpen("file", name, new) : Opened(p, r)
    BY <1>3 DEF ProgOpens
  <2>2. PICK r \in FdOpen("file", name, new) : Opened(p, r)
    BY <2>1
  <2>3. r.slip = {} /\ files' = r.files /\ name \in Names /\ "file" \in {"fifo", "file"}
    BY <2>2, Sizes DEF Opened, Becomes
  <2>4. Gives("file", name, r) \/ GivesNot("file", r)
    BY <1>1, <2>3, CleanOpen
  <2>5. CASE Gives("file", name, r)
    <3>1. r.fd \in FileFds
      BY <2>5 DEF Gives, FdsOf
    <3>2. r.fd \in Nat
      BY <3>1, Sizes
    <3>3. table' = [table EXCEPT ![p][FreeSlot(p)] = r.fd]
      BY <2>2, <3>2 DEF Opened
    <3> QED
      BY <1>1, <1>2, <2>3, <2>5, <3>3, CleanNewFd
  <2>6. CASE GivesNot("file", r)
    <3>1. table' = table
      BY <2>2, <2>6 DEF Opened, GivesNot, ERR_PERMS, ERR_NO_EXIST
    <3>2. Holds' \subseteq Holds
      BY <1>1, <3>1, HoldsLess
    <3> QED
      BY <1>1, <1>2, <2>3, <2>6, <3>1, <3>2, CleanNoFd
  <2> QED
    BY <2>4, <2>5, <2>6
<1>4. CASE ProgMkfifo(p)
  <2>1. PICK r \in FdOpen("fifo", NamedFifo, TRUE) : Mkfifoed(p, r)
    BY <1>4 DEF ProgMkfifo
  <2>2. /\ r.slip = {} /\ ~(r.fd < -1) /\ files' = r.files /\ NamedFifo \in Names
        /\ "fifo" \in {"fifo", "file"} /\ TRUE \in BOOLEAN
    BY <2>1, Sizes DEF Mkfifoed, Becomes
  <2>3. Gives("fifo", NamedFifo, r) \/ GivesNot("fifo", r)
    BY <1>1, <2>2, CleanOpen
  <2>4. Gives("fifo", NamedFifo, r)
    BY <2>2, <2>3 DEF GivesNot, ERR_PERMS
  <2>5. r.fd # -1
    BY <2>4, Sizes DEF Gives, FdsOf
  <2>6. table' = [table EXCEPT ![p][FreeSlot(p)] = r.fd]
    BY <2>1, <2>5 DEF Mkfifoed
  <2> QED
    BY <1>1, <1>2, <2>2, <2>4, <2>6, CleanNewFd
<1> QED
  BY <1>3, <1>4

LEMMA CleanOpenFile == ASSUME Shape, Clean, slip' = {}, OpenFile PROVE Clean'
<1>1. /\ sh.todo # <<>> /\ Head(sh.todo) = sh.todo[1] /\ sh.todo[1] \in {"out", "in"} /\ ~Loops(Shell)
      /\ UNCHANGED <<line, phase, slot>>
  BY ShellFacts DEF OpenFile, Calls
<1>2. PICK r \in FdOpen("file", DataFile, Head(sh.todo) = "out") :
        /\ Opened(Shell, r)
        /\ sh' = IF r.fd >= 0 THEN [sh EXCEPT !.todo = Tail(@), !.fd = FreeSlot(Shell)]
                              ELSE [sh EXCEPT !.todo = Tail(Tail(@))]
  BY DEF OpenFile
<1>3. /\ KernelTyped /\ FilesTyped /\ Named /\ table \in Tables /\ sh \in Shells
      /\ FreeSlot(Shell) \in Slots /\ table[Shell][FreeSlot(Shell)] = -1
  BY <1>1, FreeSlotIs DEF Shape, Typed, ProgsTyped, ShellTyped, KernelTyped
<1>4. r.slip = {} /\ files' = r.files /\ DataFile \in Names /\ "file" \in {"fifo", "file"}
      /\ (Head(sh.todo) = "out") \in BOOLEAN
  BY <1>2, Sizes DEF Opened, Becomes
<1>5. Gives("file", DataFile, r) \/ GivesNot("file", r)
  BY <1>3, <1>4, CleanOpen
<1>6. CASE Gives("file", DataFile, r)
  <2>1. r.fd \in FileFds
    BY <1>6 DEF Gives, FdsOf
  <2>2. r.fd \in Nat
    BY <2>1, Sizes
  <2>3. table' = [table EXCEPT ![Shell][FreeSlot(Shell)] = r.fd]
    BY <1>2, <2>2 DEF Opened
  <2>4. sh'.fd = FreeSlot(Shell) /\ sh'.stdin = sh.stdin
    BY <1>2, <1>3, <2>2 DEF Shells
  <2>5. ShellHas(Shell, FreeSlot(Shell), "file")
    BY <2>4 DEF ShellHas
  <2> QED
    BY <1>1, <1>3, <1>4, <1>6, <2>3, <2>5, CleanNewFd
<1>7. CASE GivesNot("file", r)
  <2>1. ~(r.fd >= 0)
    BY <1>7 DEF GivesNot, ERR_PERMS, ERR_NO_EXIST
  <2>2. table' = table
    BY <1>2, <2>1 DEF Opened
  <2>3. Holds' \subseteq Holds
    BY <1>1, <2>2, HoldsLess
  <2>4. /\ sh'.todo = Tail(Tail(sh.todo)) /\ sh'.pid = sh.pid /\ sh'.piped = sh.piped
        /\ sh'.stdin = sh.stdin
    BY <1>2, <1>3, <2>1 DEF Shells
  <2>5. ~Ready'
    BY <1>1, <2>4, StepSkipped DEF Shape, Typed
  <2>6. ShellKeeps
    BY <2>4, <2>5 DEF ShellKeeps
  <2> QED
    BY <1>3, <1>4, <1>7, <2>2, <2>3, <2>6, CleanNoFd
<1> QED
  BY <1>5, <1>6, <1>7

LEMMA CleanOpenPipe == ASSUME Shape, Clean, slip' = {}, OpenPipe PROVE Clean'
<1>1. ~Loops(Shell) /\ UNCHANGED <<phase, slot>> /\ sh.pid \in Progs
  BY ShellFacts DEF OpenPipe, Calls, Before
<1>2. PICK r \in FdOpen("fifo", PipeName(sh.pid), TRUE) :
        /\ Mkfifoed(Shell, r)
        /\ LET stdout == IF r.fd # -1 THEN FreeSlot(Shell) ELSE -1 IN
           sh' = [sh EXCEPT !.todo = Tail(@), !.fd = stdout, !.stdin = stdout,
                            !.cad = PipeName(sh.pid), !.left = sh.pid]
  BY DEF OpenPipe
<1>3. /\ KernelTyped /\ FilesTyped /\ Named /\ table \in Tables /\ sh \in Shells
      /\ FreeSlot(Shell) \in Slots /\ table[Shell][FreeSlot(Shell)] = -1
  BY <1>1, FreeSlotIs DEF Shape, Typed, ProgsTyped, ShellTyped, KernelTyped
<1>4. /\ r.slip = {} /\ ~(r.fd < -1) /\ files' = r.files /\ PipeName(sh.pid) \in Names
      /\ "fifo" \in {"fifo", "file"} /\ TRUE \in BOOLEAN
  BY <1>1, <1>2, Sizes DEF Mkfifoed, Becomes
<1>5. Gives("fifo", PipeName(sh.pid), r) \/ GivesNot("fifo", r)
  BY <1>3, <1>4, CleanOpen
<1>6. Gives("fifo", PipeName(sh.pid), r)
  BY <1>4, <1>5 DEF GivesNot, ERR_PERMS
<1>7. r.fd # -1
  BY <1>6, Sizes DEF Gives, FdsOf
<1>8. table' = [table EXCEPT ![Shell][FreeSlot(Shell)] = r.fd]
  BY <1>2, <1>7 DEF Mkfifoed
<1>9. sh'.fd = FreeSlot(Shell) /\ sh'.stdin = FreeSlot(Shell)
  BY <1>2, <1>3, <1>7 DEF Shells
<1>10. ShellHas(Shell, FreeSlot(Shell), "fifo")
  BY <1>9 DEF ShellHas
<1> QED
  BY <1>1, <1>3, <1>4, <1>6, <1>8, <1>10, CleanNewFd

LEMMA CleanPcreate == ASSUME Shape, Clean, Pcreate PROVE Clean'
<1>1. /\ sh' \in [todo : Seq(Steps), pid : Progs \union {0}, fd : {sh.fd}, stdin : {sh.stdin},
                  left : {sh.left}, cad : {sh.cad}, in : BOOLEAN, out : BOOLEAN, piped : {PipedNow}]
      /\ PcreateUnknown \/ \E p \in Progs :
           /\ PcreateKnown(p)
           /\ \A q \in Progs : phase[q] # "none" <=> q < p
      /\ UNCHANGED slot
  BY PcreateIs
<1>2. ~Ready'
  <2>1. CASE PcreateUnknown
    BY <2>1 DEF PcreateUnknown, Ready
  <2>2. CASE \E p \in Progs : PcreateKnown(p)
    BY <2>2, PcreateNotReady DEF PcreateKnown
  <2> QED
    BY <1>1, <2>1, <2>2
<1>3. ShellKeeps
  BY <1>1, <1>2 DEF ShellKeeps
<1>4. CASE PcreateUnknown
  <2>1. UNCHANGED <<files, table, phase>>
    BY <1>4 DEF PcreateUnknown
  <2> QED
    BY <1>1, <1>3, <2>1, HoldsLess, CleanQuiet
<1>5. CASE ~PcreateUnknown
  <2>1. PICK p \in Progs : PcreateKnown(p) /\ \A q \in Progs : phase[q] # "none" <=> q < p
    BY <1>1, <1>5
  <2>2. /\ files' = NewFiles /\ table' = [table EXCEPT ![p] = NewTable]
        /\ phase' = [phase EXCEPT ![p] = "new"]
    BY <2>1 DEF PcreateKnown
  <2>3. table \in Tables /\ phase \in [Progs -> {"none", "new", "run", "ending", "zombie"}] /\ Shell # p
    BY Sizes DEF Shape, Typed, ProgsTyped, Shell
  <2>4. \A g \in Fds : g # Tty => files'[g] = files[g]
    BY <2>2, NewFilesTyped DEF Shape, Typed
  <2>5. \A g \in FileFds \union FifoFds : files'[g] = files[g]
    <3>1. \A g \in FileFds \union FifoFds : g \in Fds /\ g # Tty
      BY Sizes DEF Fds, Tty
    <3> QED
      BY <2>4, <3>1
  <2>6. ASSUME NEW h \in Holds'
        PROVE  table'[h[1]][h[2]] = Tty \/ (h \in Holds /\ table'[h[1]][h[2]] = table[h[1]][h[2]])
    <3>1. h[1] \in Progs /\ h[2] \in Slots /\ h = <<h[1], h[2]>>
      BY HoldsNext
    <3>2. <<h[1], h[2]>> \in Holds'
      BY <3>1, Zenon
    <3>3. CASE h[1] = p
      <4>1. table'[h[1]][h[2]] \in {Tty, -1}
        BY <2>2, <2>3, <3>1, <3>3 DEF Tables, NewTable
      <4> QED
        BY <3>1, <3>2, <4>1, HoldsNext
    <3>4. CASE h[1] # p
      <4>1. table'[h[1]] = table[h[1]] /\ phase'[h[1]] = phase[h[1]]
        BY <2>2, <2>3, <3>1, <3>4 DEF Tables
      <4>2. <<h[1], h[2]>> \in Holds
        BY <1>1, <3>1, <3>2, <4>1, HoldsIs, HoldsNext
      <4> QED
        BY <3>1, <4>1, <4>2, Zenon
    <3> QED
      BY <3>3, <3>4
  <2>7. table'[Shell] = table[Shell]
    BY <2>2, <2>3 DEF Tables, Shell
  <2>8. \A g : Leads(g) => LeadsIn(files', g)
    BY <2>5 DEF Leads, LeadsIn
  <2>9. Slotted'
    <3>1. \A h \in Holds' : table'[h[1]][h[2]] = Tty \/ LeadsIn(files', table'[h[1]][h[2]])
      BY <2>6, <2>8 DEF Clean, Slotted
    <3>2. sh'.stdin # 0 => /\ sh'.stdin \in Slots /\ table'[Shell][sh'.stdin] \in FifoFds
                           /\ LeadsIn(files', table'[Shell][sh'.stdin])
      BY <1>3, <2>7, <2>8 DEF Clean, Slotted, ShellKeeps
    <3> QED
      BY <1>2, <3>1, <3>2 DEF Slotted, Leads
  <2>10. OneEach(files, Holds)'
    <3>1. Tty \notin FileFds
      BY Sizes DEF Tty
    <3>2. ASSUME NEW g \in FileFds, NEW h \in Holds', table'[h[1]][h[2]] = g
          PROVE  h \in Holds /\ table[h[1]][h[2]] = g
      BY <2>6, <3>1, <3>2
    <3>3. \A g : ~Pending(g)'
      BY <1>2 DEF Pending
    <3> QED
      BY <2>5, <3>2, <3>3 DEF Clean, OneEach
  <2> QED
    BY <2>9, <2>10 DEF Clean
<1> QED
  BY <1>4, <1>5

\* A slot that a program holds can be closed: it leads to a descriptor in use,
\* or to a fifo.
LEMMA HeldCloses ==
  ASSUME Shape, NEW st \in States, ~st.wild, Less(st), NEW H \in SUBSET Holds,
         st.files[Tty].used > 0, Slotted, OneEach(st.files, H),
         NEW p \in Progs, NEW s \in Slots, <<p, s>> \in H
  PROVE  ~FdClose(st, table[p][s]).wild
<1> DEFINE fd == table[p][s]
<1>1. <<p, s>>[1] = p /\ <<p, s>>[2] = s /\ <<p, s>> \in Holds
  OBVIOUS
<1>2. fd = Tty \/ Leads(fd)
  BY <1>1 DEF Slotted
<1>3. fd \in Entries /\ fd \in Fds /\ Tty \in Fds /\ FileFds \subseteq Fds
  BY <1>2, Sizes DEF Leads, LeadsIn, Fds, Entries
<1>4. st.files[fd] \in File /\ st.files[fd].type = files[fd].type
  BY <1>3 DEF States, Less
<1>5. fd \in FileFds => st.files[fd].used # 0
  BY <1>1 DEF OneEach
<1> HIDE DEF fd
<1>6. st.files[fd].used > 0 \/ st.files[fd].type = "fifo"
  BY <1>2, <1>4, <1>5 DEF Leads, LeadsIn, File
<1>7. FdClose(st, fd).wild = st.wild
  BY <1>3, <1>6, CloseGives
<1> QED
  BY <1>7 DEF fd

\* When a slot is closed, what is in the others still has its use.
LEMMA OneClosed ==
  ASSUME NEW st \in States, NEW H \in SUBSET Holds, OneEach(st.files, H),
         NEW p \in Progs, NEW s \in Slots, table \in Tables,
         <<p, s>> \in H \/ table[p][s] = -1
  PROVE  OneEach(FdClose(st, table[p][s]).files, H \ {<<p, s>>})
<1> DEFINE fd == table[p][s]
           c == FdClose(st, fd)
<1>1. fd \in Entries /\ FileFds \subseteq Fds /\ -1 \notin FileFds
  BY Sizes DEF Tables, Entries, Fds
<1>2. \A g \in FileFds : c.files[g].used = IF g = fd /\ st.files[g].used > 0
                                THEN st.files[g].used - 1 ELSE st.files[g].used
  BY <1>1, CloseGives
<1>3. \A g \in FileFds : st.files[g].used \in Nat
  BY <1>1 DEF States, File
<1>4. <<p, s>>[1] = p /\ <<p, s>>[2] = s
  OBVIOUS
<1> HIDE DEF c
<1>5. ASSUME NEW g \in FileFds
      PROVE  /\ c.files[g].used <= 1
             /\ c.files[g].used = 0 => ~Pending(g) /\ \A h \in H \ {<<p, s>>} : table[h[1]][h[2]] # g
             /\ Pending(g) => \A h \in H \ {<<p, s>>} : table[h[1]][h[2]] # g
             /\ \A k, h \in H \ {<<p, s>>} : table[k[1]][k[2]] = g /\ table[h[1]][h[2]] = g => k = h
  <2>1. /\ st.files[g].used <= 1
        /\ st.files[g].used = 0 => ~Pending(g) /\ \A h \in H : table[h[1]][h[2]] # g
        /\ Pending(g) => \A h \in H : table[h[1]][h[2]] # g
        /\ \A k, h \in H : table[k[1]][k[2]] = g /\ table[h[1]][h[2]] = g => k = h
    BY DEF OneEach
  <2>2. CASE g = fd
    <3>1. <<p, s>> \in H /\ table[<<p, s>>[1]][<<p, s>>[2]] = g
      BY <1>1, <1>4, <2>2
    <3>2. ~Pending(g) /\ \A h \in H \ {<<p, s>>} : table[h[1]][h[2]] # g
      BY <2>1, <3>1
    <3>3. c.files[g].used <= 1
      BY <1>2, <1>3, <2>1
    <3> QED
      BY <2>1, <3>2, <3>3
  <2>3. CASE g # fd
    <3>1. c.files[g].used = st.files[g].used
      BY <1>2, <2>3
    <3> QED
      BY <2>1, <3>1
  <2> QED
    BY <2>2, <2>3
<1>6. OneEach(c.files, H \ {<<p, s>>})
  BY <1>5 DEF OneEach
<1> QED
  BY <1>6 DEF c

\* What is left when a program has closed its slots up to k
HoldRest(p, k) == {h \in Holds : ~(h[1] = p /\ h[2] <= k)}

LEMMA CleanCloseAll ==
  ASSUME Shape, TtyCounted, Clean, slip = {}, ~wild, NEW p \in Progs,
         phase[p] \in {"new", "run", "ending"}, NEW to \in slot[p] - 1 .. NSlots - 1
  PROVE  LET c == FdCloseAll(p, slot[p], to) IN
         /\ c \in States /\ ~c.wild /\ Less(c)
         /\ OneEach(c.files, HoldRest(p, to))
<1> DEFINE OK(k, st) ==
             /\ ~st.wild /\ Less(st)
             /\ st.files[Tty].used = 4 + Cardinality(TtyRest(p, k))
             /\ OneEach(st.files, HoldRest(p, k))
           T == {t \in (slot[p] - 1 .. to) \X States : OK(t[1], t[2])}
<1>1. /\ slot[p] \in 0 .. NSlots /\ NSlots \in Nat /\ table \in Tables
      /\ KernelTyped /\ State \in States /\ State.files = files /\ Less(State) /\ ~State.wild
  BY Sizes, StateTyped DEF Shape, Typed, ProgsTyped, State
<1>2. <<slot[p] - 1, State>> \in T
  <2>1. slot[p] - 1 \in slot[p] - 1 .. to
    BY <1>1
  <2>2. State.files[Tty].used = 4 + Cardinality(TtyRest(p, slot[p] - 1))
    BY <1>1, TtyRestStart DEF TtyCounted, TtyHeld
  <2>3. OneEach(State.files, HoldRest(p, slot[p] - 1))
    BY <1>1 DEF HoldRest, Clean, OneEach
  <2> QED
    BY <1>1, <2>1, <2>2, <2>3
<1>3. ASSUME NEW s \in slot[p] .. to, NEW st \in States, <<s - 1, st>> \in T
      PROVE  <<s, FdClose(st, table[p][s])>> \in T
  <2> DEFINE c == FdClose(st, table[p][s])
             H == HoldRest(p, s - 1)
  <2>1. s \in Slots /\ s \in slot[p] - 1 .. to /\ s >= slot[p] /\ s \in Nat
    BY <1>1, Sizes DEF Slots
  <2>2. table[p][s] \in Entries
    BY <1>1, <2>1 DEF Tables, Entries
  <2>3. /\ ~st.wild /\ Less(st) /\ OneEach(st.files, H)
        /\ st.files[Tty].used = 4 + Cardinality(TtyRest(p, s - 1))
    BY <1>3
  <2>4. c \in States /\ Less(c)
    BY <1>1, <2>2, <2>3, CloseTyped, CloseLess
  <2>5. c.files[Tty].used = 4 + Cardinality(TtyRest(p, s)) /\ st.files[Tty].used > 0
    BY <2>1, <2>3, TtyCloseStep
  <2>6. H \in SUBSET Holds /\ Slotted
    BY DEF HoldRest, Clean
  <2>7. <<p, s>> \in H \/ table[p][s] = -1
    <3>1. CASE table[p][s] # -1
      <4>1. <<p, s>> \in Holds
        BY <2>1, <3>1, HoldsIs
      <4>2. <<p, s>>[1] = p /\ <<p, s>>[2] = s /\ ~(s <= s - 1)
        BY <2>1
      <4> QED
        BY <4>1, <4>2 DEF HoldRest
    <3> QED
      BY <3>1
  <2>8. HoldRest(p, s) = H \ {<<p, s>>}
    <3>1. ASSUME NEW h \in Holds PROVE h \in HoldRest(p, s) <=> h \in H /\ h # <<p, s>>
      <4>1. h = <<h[1], h[2]>> /\ h[2] \in Slots
        BY HoldsIs
      <4>2. h[2] \in Nat
        BY <4>1, Sizes
      <4>3. h[2] <= s <=> h[2] <= s - 1 \/ h[2] = s
        BY <4>2, <2>1
      <4>4. h = <<p, s>> <=> h[1] = p /\ h[2] = s
        BY <4>1
      <4> QED
        BY <4>3, <4>4 DEF HoldRest
    <3> QED
      BY <3>1 DEF HoldRest
  <2> HIDE DEF H
  <2>9. OneEach(c.files, HoldRest(p, s))
    <3>1. OneEach(FdClose(st, table[p][s]).files, H \ {<<p, s>>})
      <4> HIDE DEF c
      <4> QED
        BY <1>1, <2>1, <2>3, <2>6, <2>7, OneClosed
    <3> QED
      BY <3>1, <2>8
  <2>10. ~c.wild
    <3>1. CASE table[p][s] = -1
      BY <2>3, <3>1 DEF FdClose
    <3>2. CASE <<p, s>> \in H
      BY <2>1, <2>3, <2>5, <2>6, <3>2, HeldCloses
    <3> QED
      BY <2>7, <3>1, <3>2
  <2> HIDE DEF c
  <2>11. <<s, c>> \in T
    BY <2>1, <2>4, <2>5, <2>9, <2>10
  <2> QED
    BY <2>11 DEF c
<1> HIDE DEF T
<1>4. FdCloseAll(p, slot[p], to) \in States /\ <<to, FdCloseAll(p, slot[p], to)>> \in T
  BY <1>1, <1>2, <1>3, CloseAll
<1> QED
  BY <1>4 DEF T

LEMMA CleanLeft ==
  ASSUME Shape, TtyCounted, Clean, slip = {}, ~wild, NEW p \in Progs,
         phase[p] \in {"new", "run", "ending"},
         NEW to \in slot[p] - 1 .. NSlots - 1, Left(FdCloseAll(p, slot[p], to)),
         UNCHANGED <<table, sh>>,
         \A q \in Progs : q # p => slot'[q] = slot[q] /\ phase'[q] = phase[q],
         \A s \in Slots : phase'[p] \in {"new", "run", "ending"} /\ s >= slot'[p] <=> s > to
  PROVE  Clean' /\ ~wild' /\ Holds' \subseteq HoldRest(p, to)
<1> DEFINE c == FdCloseAll(p, slot[p], to)
<1>1. /\ c \in States /\ ~c.wild /\ Less(c) /\ OneEach(c.files, HoldRest(p, to))
  BY CleanCloseAll
<1>2. files' = c.files /\ wild' = c.wild
  BY DEF Left
<1> HIDE DEF c
<1>3. slot[p] \in 0 .. NSlots /\ to \in Int
  BY Sizes DEF Shape, Typed, ProgsTyped
<1>4. ASSUME NEW h \in Holds' PROVE h \in HoldRest(p, to)
  <2>1. h[1] \in Progs /\ h[2] \in Slots /\ h = <<h[1], h[2]>>
    BY HoldsNext
  <2>2. <<h[1], h[2]>> \in Holds'
    BY <2>1, Zenon
  <2>3. h[2] \in Nat
    BY <2>1, Sizes
  <2>4. CASE h[1] = p
    <3>1. h[2] > to
      BY <2>1, <2>2, <2>4, HoldsNext
    <3>2. h[2] >= slot[p] /\ ~(h[2] <= to)
      BY <1>3, <2>3, <3>1
    <3>3. <<h[1], h[2]>> \in Holds
      BY <2>1, <2>2, <2>4, <3>2, HoldsIs, HoldsNext
    <3>4. h \in Holds
      BY <2>1, <3>3, Zenon
    <3> QED
      BY <3>2, <3>4 DEF HoldRest
  <2>5. CASE h[1] # p
    <3>1. <<h[1], h[2]>> \in Holds
      BY <2>1, <2>2, <2>5, HoldsIs, HoldsNext
    <3>2. h \in Holds
      BY <2>1, <3>1, Zenon
    <3> QED
      BY <2>5, <3>2 DEF HoldRest
  <2> QED
    BY <2>4, <2>5
<1>5. Holds' \subseteq HoldRest(p, to) /\ HoldRest(p, to) \subseteq Holds
  BY <1>4 DEF HoldRest
<1>6. \A g \in FifoFds : files'[g].type = files[g].type
  <2>1. FifoFds \subseteq Fds
    BY DEF Fds
  <2> QED
    BY <1>1, <1>2, <2>1 DEF Less
<1>7. Slotted'
  BY <1>5, <1>6 DEF Clean, Slotted, Leads, LeadsIn, Ready
<1>8. OneEach(files, Holds)'
  BY <1>1, <1>2, <1>5 DEF OneEach, Pending, Ready
<1> QED
  BY <1>1, <1>2, <1>5, <1>7, <1>8 DEF Clean

LEMMA CloseFrees ==
  ASSUME Shape, NEW p \in Progs, Close(p)
  PROVE  /\ phase[p] = "ending" /\ Left(FdCloseAll(p, slot[p], Last(p)))
         /\ Last(p) \in slot[p] - 1 .. NSlots - 1
         /\ UNCHANGED <<slip, table, sh>>
         /\ \A q \in Progs : q # p => slot'[q] = slot[q] /\ phase'[q] = phase[q]
         /\ \A s \in Slots : phase'[p] \in {"new", "run", "ending"} /\ s >= slot'[p] <=> s > Last(p)
<1>1. /\ phase[p] = "ending" /\ Left(FdCloseAll(p, slot[p], Last(p)))
      /\ slot' = [slot EXCEPT ![p] = Last(p) + 1]
      /\ phase' = IF Pipes(p) = {} THEN [phase EXCEPT ![p] = "zombie"] ELSE phase
      /\ UNCHANGED <<slip, table, sh>>
      /\ slot[p] \in 0 .. NSlots /\ Last(p) \in slot[p] - 1 .. NSlots - 1
  BY CloseIs DEF Shape, Typed
<1>2. phase \in [Progs -> {"none", "new", "run", "ending", "zombie"}] /\ slot \in [Progs -> 0 .. NSlots]
  BY DEF Shape, Typed, ProgsTyped
<1>3. slot'[p] = Last(p) + 1 /\ \A q \in Progs : q # p => slot'[q] = slot[q] /\ phase'[q] = phase[q]
  BY <1>1, <1>2
<1>4. ASSUME NEW s \in Slots
      PROVE  phase'[p] \in {"new", "run", "ending"} /\ s >= slot'[p] <=> s > Last(p)
  <2>1. s \in Nat /\ s <= NSlots - 1 /\ Last(p) \in Int
    BY <1>1, Sizes DEF Slots
  <2>2. CASE Pipes(p) = {}
    <3>1. Last(p) = NSlots - 1 /\ phase'[p] = "zombie"
      BY <1>1, <1>2, <2>2 DEF Last
    <3> QED
      BY <2>1, <3>1
  <2>3. CASE Pipes(p) # {}
    <3>1. phase'[p] = "ending"
      BY <1>1, <2>3
    <3>2. s >= Last(p) + 1 <=> s > Last(p)
      BY <2>1
    <3> QED
      BY <1>3, <3>1, <3>2
  <2> QED
    BY <2>2, <2>3
<1> QED
  BY <1>1, <1>3, <1>4

LEMMA KillFrees ==
  ASSUME Shape, NEW p \in Progs, Kill(p), "twice" \notin slip'
  PROVE  /\ phase[p] \in {"new", "run", "ending"} /\ slot[p] = 0
         /\ Left(FdCloseAll(p, slot[p], NSlots - 1))
         /\ NSlots - 1 \in slot[p] - 1 .. NSlots - 1
         /\ UNCHANGED <<table, sh>> /\ slip \subseteq slip'
         /\ \A q \in Progs : q # p => slot'[q] = slot[q] /\ phase'[q] = phase[q]
         /\ \A s \in Slots : phase'[p] \in {"new", "run", "ending"} /\ s >= slot'[p] <=> s > NSlots - 1
<1>1. /\ phase[p] # "none" /\ Left(FdCloseAll(p, 0, NSlots - 1))
      /\ phase' = [phase EXCEPT ![p] = "zombie"]
      /\ slip' = slip \union (IF slot[p] > 0 \/ phase[p] = "zombie" THEN {"twice"} ELSE {})
      /\ UNCHANGED <<table, slot, sh>>
  BY DEF Kill
<1>2. phase \in [Progs -> {"none", "new", "run", "ending", "zombie"}] /\ slot \in [Progs -> 0 .. NSlots]
  BY DEF Shape, Typed, ProgsTyped
<1>3. phase[p] \in {"new", "run", "ending"} /\ slot[p] = 0 /\ slip \subseteq slip'
  BY <1>1, <1>2
<1>4. phase'[p] = "zombie" /\ \A q \in Progs : q # p => phase'[q] = phase[q]
  BY <1>1, <1>2
<1>5. NSlots - 1 \in slot[p] - 1 .. NSlots - 1
  BY <1>3, Sizes
<1>6. \A s \in Slots : phase'[p] \in {"new", "run", "ending"} /\ s >= slot'[p] <=> s > NSlots - 1
  BY <1>4, Sizes DEF Slots
<1> QED
  BY <1>1, <1>3, <1>4, <1>5, <1>6

\* What a Dup puts in a slot is a file or a pipe of the shell's, and what was
\* there is closed.
DupPuts(fd1, fd2) ==
  /\ fd1 \in Slots /\ fd2 \in {0, 1} /\ sh.pid \in Progs
  /\ slot[sh.pid] = 0 /\ phase[sh.pid] = "new"
  /\ Pending(table[Shell][fd1]) \/ table[Shell][fd1] \in FifoFds
  /\ Leads(table[Shell][fd1])
  /\ table'[sh.pid][fd2] = table[Shell][fd1]
  /\ \A q \in Progs \union {Shell}, u \in Slots :
       q # sh.pid \/ u # fd2 => table'[q][u] = table[q][u]
  /\ LET c == FdClose(State, table[sh.pid][fd2]) IN
       files' = c.files /\ bytes' = c.bytes /\ wild' = c.wild
  /\ ~Ready' /\ sh'.stdin = sh.stdin
  /\ UNCHANGED <<phase, slot, slip>>

LEMMA CleanDupIs ==
  ASSUME Shape, Clean, Dup \/ DupPipe, slip' = {}
  PROVE  \E fd1 \in Slots, fd2 \in {0, 1} :
           /\ DupPuts(fd1, fd2)
           /\ Dup => fd1 = sh.fd /\ fd2 = IF sh.todo[1] = "dup0" THEN 0 ELSE 1
           /\ DupPipe => fd1 = sh.stdin /\ fd2 = 0
<1>1. /\ sh.pid \in Progs /\ phase[sh.pid] = "new" /\ slot[sh.pid] = 0
      /\ sh.todo # <<>> /\ sh.todo[1] \in {"dup0", "dup1", "duppipe"}
      /\ sh' = [sh EXCEPT !.todo = Then]
      /\ UNCHANGED <<alloc, dir, kind, phase, slot, slip, line>>
  BY DupOnce, ShellFacts DEF Dup, DupPipe, Calls, Before
<1>2. sh \in Shells /\ KernelTyped /\ table \in Tables
  BY DEF Shape, Typed, ShellTyped, ProgsTyped
<1>3. sh'.stdin = sh.stdin /\ sh'.todo = Then /\ sh'.pid = sh.pid /\ sh'.piped = sh.piped
  BY <1>1, <1>2 DEF Shells
<1>4. ~Ready'
  BY <1>1, <1>3, StepDone DEF Shape, Typed
<1>5. ASSUME NEW fd1 \in Slots, NEW fd2 \in {0, 1}, Pdup2(sh.pid, fd1, fd2),
             Pending(table[Shell][fd1]) \/ table[Shell][fd1] \in FifoFds,
             Leads(table[Shell][fd1])
      PROVE  DupPuts(fd1, fd2)
  <2>1. DupLeaves(sh.pid, fd1, fd2)
    BY <1>1, <1>2, <1>5, DupCall
  <2> QED
    BY <1>1, <1>3, <1>4, <1>5, <2>1 DEF DupPuts, DupLeaves
<1>6. CASE Dup
  <2> DEFINE fd2 == IF sh.todo[1] = "dup0" THEN 0 ELSE 1
  <2>1. Ready /\ Pdup2(sh.pid, sh.fd, fd2) /\ ~DupPipe
    BY <1>6, ShellFacts DEF Dup, DupPipe, Calls, Ready
  <2>2. sh.fd \in Slots /\ Leads(table[Shell][sh.fd]) /\ Pending(table[Shell][sh.fd])
    BY <2>1 DEF Clean, Slotted, Pending
  <2>3. fd2 \in {0, 1}
    OBVIOUS
  <2> HIDE DEF fd2
  <2>4. DupPuts(sh.fd, fd2)
    BY <1>5, <2>1, <2>2, <2>3
  <2> QED
    BY <2>1, <2>2, <2>3, <2>4 DEF fd2
<1>7. CASE DupPipe
  <2>1. sh.todo[1] = "duppipe" /\ Pdup2(sh.pid, sh.stdin, 0)
    BY <1>7, ShellFacts DEF DupPipe, Calls
  <2>2. ~Dup
    BY <2>1, <1>1, ShellFacts DEF Dup, Calls
  <2>3. sh.stdin # 0
    BY <1>1, <2>1, ShellFacts DEF Shape, Planned
  <2>4. sh.stdin \in Slots /\ table[Shell][sh.stdin] \in FifoFds /\ Leads(table[Shell][sh.stdin])
    BY <2>3 DEF Clean, Slotted
  <2>5. DupPuts(sh.stdin, 0)
    BY <1>5, <2>1, <2>4
  <2> QED
    BY <2>2, <2>4, <2>5
<1> QED
  BY <1>6, <1>7

\* What is held after it
LEMMA DupHolds ==
  ASSUME Shape, NEW fd1, NEW fd2, DupPuts(fd1, fd2), NEW h \in Holds'
  PROVE  \/ h = <<sh.pid, fd2>> /\ table'[h[1]][h[2]] = table[Shell][fd1]
         \/ h \in Holds \ {<<sh.pid, fd2>>} /\ table'[h[1]][h[2]] = table[h[1]][h[2]]
<1>1. h[1] \in Progs /\ h[2] \in Slots /\ h = <<h[1], h[2]>>
  BY HoldsNext
<1>2. <<h[1], h[2]>> \in Holds'
  BY <1>1, Zenon
<1>3. CASE h[1] = sh.pid /\ h[2] = fd2
  BY <1>1, <1>3 DEF DupPuts
<1>4. CASE ~(h[1] = sh.pid /\ h[2] = fd2)
  <2>1. table'[h[1]][h[2]] = table[h[1]][h[2]]
    BY <1>1, <1>4 DEF DupPuts
  <2>2. <<h[1], h[2]>> \in Holds
    BY <1>1, <1>2, <2>1, HoldsIs, HoldsNext DEF DupPuts
  <2>3. h \in Holds
    BY <1>1, <2>2, Zenon
  <2>4. h # <<sh.pid, fd2>>
    BY <1>1, <1>4
  <2> QED
    BY <2>1, <2>3, <2>4
<1> QED
  BY <1>3, <1>4

LEMMA CleanDups ==
  ASSUME Shape, TtyCounted, Clean, slip = {}, slip' = {}, ~wild, Dup \/ DupPipe
  PROVE  Clean' /\ ~wild'
<1>1. PICK fd1 \in Slots, fd2 \in {0, 1} : DupPuts(fd1, fd2)
  BY CleanDupIs
<1> DEFINE p == sh.pid
           old == table[p][fd2]
           new == table[Shell][fd1]
           c == FdClose(State, old)
           H == Holds \ {<<p, fd2>>}
<1>2. /\ p \in Progs /\ slot[p] = 0 /\ phase[p] = "new" /\ fd2 \in Slots /\ fd2 >= 0
      /\ files' = c.files /\ wild' = c.wild /\ Leads(new) /\ (Pending(new) \/ new \in FifoFds)
      /\ ~Ready' /\ sh'.stdin = sh.stdin
  BY <1>1, Sizes DEF DupPuts
<1>3. /\ State \in States /\ Less(State) /\ State.files = files /\ ~State.wild /\ table \in Tables
      /\ KernelTyped
  BY StateTyped DEF Shape, Typed, ProgsTyped, State
<1>4. old \in Entries /\ Shell # p
  <2>1. table[p] \in [Slots -> Entries]
    <3>1. p \in Progs /\ table \in Tables
      BY <1>2, <1>3
    <3> HIDE DEF p, old, new, c, H
    <3> QED
      BY <3>1 DEF Tables, Entries
  <2>2. old \in Entries
    BY <1>2, <2>1
  <2>3. Shell # p
    BY <1>2, Sizes DEF Progs, Shell
  <2> QED
    BY <2>2, <2>3
<1>5. <<p, fd2>> \in Holds \/ old = -1
  BY <1>2, HoldsIs
<1>6. State.files[Tty].used > 0
  <2>1. files[Tty].used = 4 + Cardinality(TtyHeld) /\ Cardinality(TtyHeld) \in Nat
    BY TtyHeldIs DEF TtyCounted, TtyHeld
  <2> QED
    BY <1>3, <2>1
<1>7. Slotted /\ OneEach(State.files, Holds)
  BY <1>3 DEF Clean
<1>8. ~c.wild
  <2>1. CASE old = -1
    BY <1>3, <2>1 DEF FdClose
  <2>2. CASE <<p, fd2>> \in Holds
    BY <1>2, <1>3, <1>6, <1>7, <2>2, HeldCloses
  <2> QED
    BY <1>5, <2>1, <2>2
<1>9. OneEach(c.files, H)
  BY <1>2, <1>3, <1>5, <1>7, OneClosed
<1>10. /\ \A g \in Fds : c.files[g].type = files[g].type
       /\ \A g \in Fds : c.files[g].used = IF g = old /\ files[g].used > 0
                                           THEN files[g].used - 1 ELSE files[g].used
  BY <1>3, <1>4, CloseGives
<1>11. \A h \in Holds' :
         \/ h = <<p, fd2>> /\ table'[h[1]][h[2]] = new
         \/ h \in H /\ table'[h[1]][h[2]] = table[h[1]][h[2]]
  BY <1>1, DupHolds
<1>12. \A u \in Slots : table'[Shell][u] = table[Shell][u]
  BY <1>1, <1>4 DEF DupPuts
<1> HIDE DEF c, old, new, p
<1>13. \A g : Leads(g) => LeadsIn(files', g)
  <2>1. FifoFds \subseteq Fds
    BY DEF Fds
  <2> QED
    BY <2>1, <1>2, <1>10 DEF Leads, LeadsIn
<1>14. Slotted'
  <2>1. \A h \in Holds' : table'[h[1]][h[2]] = Tty \/ LeadsIn(files', table'[h[1]][h[2]])
    BY <1>2, <1>7, <1>11, <1>13 DEF Slotted
  <2>2. sh'.stdin # 0 => /\ sh'.stdin \in Slots /\ table'[Shell][sh'.stdin] \in FifoFds
                         /\ LeadsIn(files', table'[Shell][sh'.stdin])
    BY <1>2, <1>7, <1>12, <1>13 DEF Slotted
  <2> QED
    BY <1>2, <2>1, <2>2 DEF Slotted, Leads
<1>15. ASSUME NEW g \in FileFds
       PROVE  /\ c.files[g].used <= 1
              /\ c.files[g].used = 0 => \A h \in Holds' : table'[h[1]][h[2]] # g
              /\ \A k, h \in Holds' : table'[k[1]][k[2]] = g /\ table'[h[1]][h[2]] = g => k = h
  <2>1. /\ c.files[g].used <= 1
        /\ c.files[g].used = 0 => ~Pending(g) /\ \A h \in H : table[h[1]][h[2]] # g
        /\ Pending(g) => \A h \in H : table[h[1]][h[2]] # g
        /\ \A k, h \in H : table[k[1]][k[2]] = g /\ table[h[1]][h[2]] = g => k = h
    BY <1>9 DEF OneEach
  <2>2. FifoFds \intersect FileFds = {}
    BY Sizes
  <2>3. g = new => Pending(g)
    BY <1>2, <2>2
  <2> HIDE DEF H
  <2>4. CASE g = new
    <3>1. c.files[g].used # 0 /\ \A h \in H : table[h[1]][h[2]] # g
      BY <2>1, <2>3, <2>4
    <3>2. \A h \in Holds' : table'[h[1]][h[2]] = g => h = <<p, fd2>>
      BY <1>11, <3>1
    <3> QED
      BY <2>1, <3>1, <3>2
  <2>5. CASE g # new
    <3>1. \A h \in Holds' : table'[h[1]][h[2]] = g => h \in H /\ table[h[1]][h[2]] = g
      BY <1>11, <2>5
    <3> QED
      BY <2>1, <3>1
  <2> QED
    BY <2>4, <2>5
<1>16. OneEach(files, Holds)'
  BY <1>2, <1>15 DEF OneEach, Pending
<1> QED
  BY <1>2, <1>8, <1>14, <1>16 DEF Clean

LEMMA CleanStart == ASSUME Init PROVE Clean /\ ~wild
<1>1. /\ phase = [p \in Progs |-> "none"] /\ ~wild /\ sh.todo = <<>> /\ sh.stdin = 0
      /\ \A fd \in FileFds : files[fd].used = 0
  <2>1. FileFds \subseteq Fds /\ Tty \notin FileFds
    BY Sizes DEF Fds, Tty
  <2> QED
    BY <2>1 DEF Init
<1>2. \A h \in Holds : FALSE
  BY <1>1, HoldsIs
<1>3. ~Ready
  BY <1>1 DEF Ready
<1> QED
  BY <1>1, <1>2, <1>3 DEF Clean, Slotted, OneEach, Pending

\* Slips are never undone.
LEMMA SlipsStay == ASSUME Shape, [Next]_vars PROVE slip \subseteq slip'
<1>1. CASE OpenFile \/ OpenPipe
  BY <1>1, OpenFileLeaves, OpenPipeLeaves DEF OpenLeaves
<1>2. ASSUME NEW p \in Progs, ProgStep(p) PROVE slip \subseteq slip'
  <2>1. CASE ProgOpens(p) \/ ProgMkfifo(p)
    BY <2>1, ProgOpensLeaves DEF OpenLeaves
  <2> QED
    BY <1>2, <2>1 DEF ProgStep, Astray, Read, Write, End, Close, Kill, Kernel
<1>3. CASE Prompt \/ Pcreate \/ Loop \/ Dup \/ DupPipe \/ Prun \/ Waitpid \/ Woken \/ Rm
  BY <1>3, DupOnce DEF Prompt, Pcreate, Loop, Prun, Waitpid, Woken, Rm, Kernel
<1>4. CASE UNCHANGED vars
  BY <1>4 DEF vars
<1> QED
  BY <1>1, <1>2, <1>3, <1>4 DEF Next, ShellStep

\* The steps that neither open, duplicate nor close
LEMMA CleanShellQuiet ==
  ASSUME Shape, Clean, Prompt \/ Loop \/ Prun \/ Waitpid \/ Woken \/ Rm
  PROVE  Clean' /\ wild' = wild
<1>1. UNCHANGED <<files, table, slot, wild>>
  BY DEF Prompt, Loop, Prun, Waitpid, Woken, Rm, Kernel
<1>2. phase \in [Progs -> {"none", "new", "run", "ending", "zombie"}] /\ sh \in Shells
  BY DEF Shape, Typed, ProgsTyped, ShellTyped
<1>3. Holds' \subseteq Holds
  <2>1. CASE Prun
    <3>1. sh.pid \in Progs /\ phase' = [phase EXCEPT ![sh.pid] = IF @ = "new" THEN "run" ELSE @]
      BY <2>1, ShellFacts DEF Prun, Calls
    <3> QED
      BY <1>1, <1>2, <3>1, HoldsLess
  <2>2. CASE Prompt \/ Loop \/ Waitpid \/ Woken \/ Rm
    <3>1. UNCHANGED phase
      BY <2>2 DEF Prompt, Loop, Waitpid, Woken, Rm
    <3> QED
      BY <1>1, <3>1, HoldsLess
  <2> QED
    BY <2>1, <2>2
<1>4. ShellKeeps
  <2>1. CASE Prompt
    BY <2>1 DEF Prompt, ShellKeeps, Ready
  <2>2. CASE Loop
    BY <1>2, <2>2 DEF Loop, ShellKeeps, Ready, Shells
  <2>3. CASE Waitpid
    <3>1. /\ sh.todo # <<>> /\ sh.todo[1] = "waitpid" /\ sh.todo \in Seq(Steps) /\ Ordered(sh.todo)
          /\ sh'.todo = <<"waiting">> \o Tail(sh.todo) /\ sh'.stdin = sh.stdin
      BY <1>2, <2>3, ShellFacts DEF Waitpid, Calls, Shape, Planned, Shells
    <3>2. sh'.todo[1] = "waiting"
      BY <3>1, WaitingPlan
    <3> QED
      BY <3>1, <3>2 DEF ShellKeeps, Ready
  <2>4. CASE Prun \/ Woken \/ Rm
    <3>1. /\ sh.todo # <<>> /\ sh.todo[1] \in {"prun", "waiting", "rm"} /\ line' = line
          /\ sh' = [sh EXCEPT !.todo = Tail(@)] \/ sh' = [sh EXCEPT !.todo = Then]
          /\ \A p \in Progs : phase[p] \in Unrun => phase'[p] \in Unrun \/ (p = sh.pid /\ sh.todo[1] = "prun")
      BY <1>2, <2>4, ShellFacts DEF Prun, Woken, Rm, Calls
    <3>2. ~Ready'
      BY <1>1, <3>1, ShellGoesOn
    <3>3. sh'.stdin = sh.stdin
      BY <1>2, <3>1 DEF Shells
    <3> QED
      BY <3>2, <3>3 DEF ShellKeeps
  <2> QED
    BY <2>1, <2>2, <2>3, <2>4
<1> QED
  BY <1>1, <1>3, <1>4, CleanQuiet

LEMMA CleanProgStep ==
  ASSUME Shape, TtyCounted, Clean, slip = {}, ~wild, slip' = {}, NEW p \in Progs, ProgStep(p)
  PROVE  Clean' /\ ~wild'
<1>1. CASE ProgOpens(p) \/ ProgMkfifo(p)
  <2>1. UNCHANGED wild
    BY <1>1 DEF ProgOpens, ProgMkfifo
  <2> QED
    BY <1>1, <2>1, CleanProgOpens
<1>2. CASE Astray(p)
  <2>1. PICK s \in Slots : table[p][s] < -1 /\ phase[p] = "run"
    BY <1>2 DEF Astray, Running
  <2>2. slot[p] = 0 /\ s >= 0 /\ table[p][s] # -1
    BY <2>1, Sizes DEF Shape, Unclosed
  <2>3. <<p, s>> \in Holds /\ <<p, s>>[1] = p /\ <<p, s>>[2] = s
    BY <2>1, <2>2, HoldsIs
  <2>4. table[p][s] = Tty \/ Leads(table[p][s])
    BY <2>3 DEF Clean, Slotted
  <2>5. table[p][s] \in Nat
    BY <2>4, Sizes DEF Leads, LeadsIn, Tty
  <2> QED
    BY <2>1, <2>5
<1>3. CASE Read(p) \/ Write(p)
  <2>1. UNCHANGED <<files, table, slot, phase, wild, sh>>
    BY <1>3 DEF Read, Write, Kernel
  <2>2. ShellKeeps
    BY <2>1 DEF ShellKeeps, Ready
  <2> QED
    BY <2>1, <2>2, HoldsLess, CleanQuiet
<1>4. CASE End(p)
  <2>1. UNCHANGED <<files, table, slot, wild, sh>> /\ phase' = [phase EXCEPT ![p] = "ending"]
        /\ phase[p] = "run"
    BY <1>4 DEF End, Kernel, Running
  <2>2. ShellKeeps
    BY <2>1 DEF ShellKeeps, Ready
  <2>3. phase \in [Progs -> {"none", "new", "run", "ending", "zombie"}]
    BY DEF Shape, Typed, ProgsTyped
  <2>4. Holds' \subseteq Holds
    BY <2>1, <2>3, HoldsLess
  <2> QED
    BY <2>1, <2>2, <2>4, CleanQuiet
<1>5. CASE Close(p)
  BY <1>5, CloseFrees, CleanLeft
<1>6. CASE Kill(p)
  BY <1>6, KillFrees, CleanLeft
<1> QED
  BY <1>1, <1>2, <1>3, <1>4, <1>5, <1>6 DEF ProgStep

LEMMA CleanStep ==
  ASSUME Shape, TtyCounted, Clean, slip = {}, ~wild, slip' = {}, [Next]_vars
  PROVE  Clean' /\ ~wild'
<1>1. CASE Prompt \/ Loop \/ Prun \/ Waitpid \/ Woken \/ Rm
  BY <1>1, CleanShellQuiet
<1>2. CASE Pcreate \/ OpenFile \/ OpenPipe
  <2>1. UNCHANGED wild
    BY <1>2 DEF Pcreate, OpenFile, OpenPipe
  <2> QED
    BY <1>2, <2>1, CleanPcreate, CleanOpenFile, CleanOpenPipe
<1>3. CASE UNCHANGED vars
  <2>1. UNCHANGED <<files, table, slot, phase, wild, sh>>
    BY <1>3 DEF vars
  <2>2. ShellKeeps
    BY <2>1 DEF ShellKeeps, Ready
  <2> QED
    BY <2>1, <2>2, HoldsLess, CleanQuiet
<1> QED
  BY <1>1, <1>2, <1>3, CleanDups, CleanProgStep DEF Next, ShellStep

CleanSoFar == slip = {} => Clean /\ ~wild

LEMMA CleanAlways == Spec => [](Shape /\ TtyCounted /\ CleanSoFar)
<1>1. Init => Shape /\ TtyCounted /\ CleanSoFar
  BY ShapeStart, TtyStart, CleanStart DEF CleanSoFar
<1>2. (Shape /\ TtyCounted /\ CleanSoFar) /\ [Next]_vars => (Shape /\ TtyCounted /\ CleanSoFar)'
  <2> SUFFICES ASSUME Shape, TtyCounted, CleanSoFar, [Next]_vars
               PROVE  (Shape /\ TtyCounted /\ CleanSoFar)'
    OBVIOUS
  <2>1. Shape' /\ TtyCounted'
    BY ShapeStep, TtyStep
  <2>2. ASSUME slip' = {} PROVE Clean' /\ ~wild'
    <3>1. slip = {}
      BY <2>2, SlipsStay
    <3> QED
      BY <2>2, <3>1, CleanStep DEF CleanSoFar
  <2> QED
    BY <2>1, <2>2 DEF CleanSoFar
<1> QED
  BY <1>1, <1>2, PTL DEF Spec

\* Memory that is no descriptor, or no fifo, is never used as one, as long as
\* mkfifo is not refused, the fifos do not run out, no descriptor is given
\* that is in use and no slot is closed twice.
THEOREM DescriptorsNoWild == Spec => []NoWild
<1>1. Shape /\ TtyCounted /\ CleanSoFar => NoWild
  BY DEF CleanSoFar, NoWild
<1> QED
  BY <1>1, CleanAlways, PTL

-----------------------------------------------------------------------------
(* Pipes, as long as nothing has slipped *)

\* What a program has in a slot it holds, what the shell is about to
\* duplicate, and the pipe it keeps for the next program
At(h)      == table[h[1]][h[2]]
Duplicated == table[Shell][sh.fd]
LastPipe   == table[Shell][sh.stdin]
IsFor(fd, i) == fd \in Fds /\ files[fd].type = "fifo" /\ files[fd].data = i
PipeOf(l)  == dir[PipeName(l)]
IsPipe(fd) == \E l \in Progs : PipeOf(l) # 0 /\ IsFor(fd, PipeOf(l))

\* The pipe is for a program that does not have it yet.
Feeding ==
  /\ sh.stdin # 0
  /\ \/ Has(sh.todo, "duppipe")
     \/ sh.piped /\ ~Has(sh.todo, "mkfifo") /\ ~Has(sh.todo, "loop")

\* Descriptors of fifos are given in order, and each once.
Fresh ==
  /\ alloc["fifo"].index = alloc["fifo"].size + 1
  /\ \A fd \in FifoFds : fd >= alloc["fifo"].index => files[fd].type # "fifo"

\* Nothing leads to an inode that is free.
Alive ==
  \A i \in Inodes : kind[i] = "free" =>
    /\ bytes[i] = <<>>
    /\ \A h \in Holds : ~IsFor(At(h), i)
    /\ Ready => ~IsFor(Duplicated, i)

\* The pipe of l has what l wrote; l and one fed by l have it, or it is about
\* to be given to l, and it has one descriptor.
Joins(l) ==
  /\ phase[l] # "none" /\ (Has(sh.todo, "mkfifo") => l # sh.pid)
  /\ bytes[PipeOf(l)] \in Seq({l})
  /\ \A h \in Holds : IsFor(At(h), PipeOf(l)) =>
       /\ At(h) \in FifoFds
       /\ h = <<l, 1>> \/ (h[2] = 0 /\ feeder[h[1]] = l)
       /\ \A g \in Holds : IsFor(At(g), PipeOf(l)) => At(g) = At(h)
  /\ Ready /\ IsFor(Duplicated, PipeOf(l)) => Duplicated \in FifoFds
Joined == \A l \in Progs : PipeOf(l) # 0 => Joins(l)

\* A pipe that was just made is the shell's alone.
Handed ==
  Ready /\ Duplicated \in FifoFds =>
    /\ sh.fd = sh.stdin /\ sh.left = sh.pid /\ sh.todo[1] = "dup1" /\ Feeding
    /\ \A x \in {"out", "in", "mkfifo"} : ~Has(sh.todo, x)
    /\ \A h \in Holds : At(h) # Duplicated

\* A pipe that waits for its reader is held by its writer, or by nobody.
ToFeed ==
  Feeding =>
    /\ sh.left \in Progs /\ PipeOf(sh.left) # 0
    /\ IsFor(LastPipe, PipeOf(sh.left))
    /\ \A h \in Holds : IsFor(At(h), PipeOf(sh.left)) => At(h) = LastPipe /\ h[2] = 1

\* A program that was given a pipe reads from it, and has read from no other.
FedOf(p) ==
  /\ phase[p] = "none" => feeder[p] = 0
  /\ phase[p] \in {"none", "new"} => got[p] = {}
  /\ feeder[p] # 0 => got[p] \subseteq {feeder[p]}
  /\ feeder[p] # 0 /\ phase[p] \in {"new", "run"} =>
       /\ PipeOf(feeder[p]) # 0 /\ IsFor(table[p][0], PipeOf(feeder[p]))
       /\ table[p][0] \in FifoFds
Fed == \A p \in Progs : FedOf(p)

\* What the shell has given to the program it works on stays.
Given ==
  Has(sh.todo, "prun") =>
    /\ table[sh.pid][0] \in FifoFds =>
         \A x \in {"dup0", "in", "duppipe"} : ~Has(sh.todo, x)
    /\ table[sh.pid][1] \in FifoFds => ~Has(sh.todo, "dup1")

\* A fifo's descriptor has one use: a slot of H, or that a pipe's reader and
\* its writer share, or what the shell is about to duplicate.
Uses(f, H) ==
  \A fd \in FifoFds :
    /\ f[fd].used <= 1
    /\ Ready /\ fd = Duplicated => f[fd].used = 1
    /\ \A h \in H : At(h) = fd =>
         /\ f[fd].used = 0 => IsPipe(fd) /\ ~(Feeding /\ fd = LastPipe)
         /\ \A g \in H : At(g) = fd /\ (f[fd].used = 0 \/ g[2] = h[2] \/ ~IsPipe(fd)) => g = h

Plumbed == Fresh /\ Alive /\ Joined /\ Handed /\ ToFeed /\ Fed /\ Given /\ Uses(files, Holds)

\* h is held as before, and leads to what it led to; only what is in X changed.
Still(h, X) == h \in Holds /\ At(h)' = At(h) /\ At(h) \notin X
Steady(X) == \A fd : fd \notin X => \A i : IsFor(fd, i)' <=> IsFor(fd, i)
\* What the shell is about to duplicate is what it was.
Waits(X) == /\ Ready /\ sh'.fd = sh.fd /\ sh'.todo = sh.todo /\ sh'.stdin = sh.stdin
            /\ Duplicated' = Duplicated /\ Duplicated \notin X
InUse(fd) == \A i \in Inodes : IsFor(fd, i) => kind[i] # "free"

LEMMA AliveStays ==
  ASSUME Alive, NEW X, Steady(X),
         \A i \in Inodes : kind'[i] = "free" =>
           /\ bytes'[i] = <<>>
           /\ kind[i] = "free" \/ (~Ready' /\ \A h \in Holds : ~IsFor(At(h), i)),
         \A h \in Holds' : Still(h, X) \/ InUse(At(h))',
         Ready' => Waits(X) \/ InUse(Duplicated)'
  PROVE  Alive'
<1> SUFFICES ASSUME NEW i \in Inodes, kind'[i] = "free"
             PROVE  /\ bytes'[i] = <<>>
                    /\ \A h \in Holds' : ~IsFor(At(h), i)'
                    /\ Ready' => ~IsFor(Duplicated, i)'
  BY DEF Alive
<1>1. \A h \in Holds : ~IsFor(At(h), i)
  BY DEF Alive
<1>2. ASSUME NEW h \in Holds' PROVE ~IsFor(At(h), i)'
  <2>1. CASE Still(h, X)
    <3>1. PICK fd : fd = At(h) /\ fd = At(h)' /\ fd \notin X /\ ~IsFor(fd, i)
      BY <1>1, <2>1 DEF Still
    <3>2. ~IsFor(fd, i)'
      BY <3>1 DEF Steady
    <3> QED
      BY <3>1, <3>2 DEF IsFor
  <2>2. CASE InUse(At(h))'
    BY <2>2 DEF InUse
  <2> QED
    BY <1>2, <2>1, <2>2
<1>3. ASSUME Ready' PROVE ~IsFor(Duplicated, i)'
  <2>1. CASE Waits(X)
    <3>1. kind[i] = "free" /\ Ready
      BY <1>3, <2>1 DEF Waits
    <3>2. PICK fd : fd = Duplicated /\ fd = Duplicated' /\ fd \notin X /\ ~IsFor(fd, i)
      BY <2>1, <3>1 DEF Waits, Alive
    <3>3. ~IsFor(fd, i)'
      BY <3>2 DEF Steady
    <3> QED
      BY <3>2, <3>3 DEF IsFor
  <2>2. CASE InUse(Duplicated)'
    BY <2>2 DEF InUse
  <2> QED
    BY <1>3, <2>1, <2>2
<1> QED
  BY <1>2, <1>3

\* For one pipe: whatever else is held, or is to be duplicated, is not for it.
LEMMA JoinsStays ==
  ASSUME NEW l \in Progs, Joins(l), NEW X, Steady(X), PipeOf(l)' = PipeOf(l),
         phase'[l] # "none", Has(sh'.todo, "mkfifo") => l # sh'.pid,
         bytes'[PipeOf(l)'] \in Seq({l}),
         \A h \in Holds' : Still(h, X) \/ ~IsFor(At(h), PipeOf(l))',
         \A q \in Progs : feeder'[q] = feeder[q] \/ feeder[q] # l,
         Ready' => Waits(X) \/ ~IsFor(Duplicated, PipeOf(l))'
  PROVE  Joins(l)'
<1> DEFINE i == PipeOf(l)
<1>1. PICK n : n = i /\ n = i'
  OBVIOUS
<1>2. ASSUME NEW h \in Holds', IsFor(At(h), n)'
      PROVE  h \in Holds /\ At(h)' = At(h) /\ IsFor(At(h), n)
  <2>1. Still(h, X)
    BY <1>1, <1>2
  <2>2. PICK fd : fd = At(h) /\ fd = At(h)' /\ fd \notin X
    BY <2>1 DEF Still
  <2>3. IsFor(fd, n)'
    BY <1>2, <2>2 DEF IsFor
  <2>4. IsFor(fd, n)
    BY <2>2, <2>3 DEF Steady
  <2> QED
    BY <2>1, <2>2, <2>4 DEF Still
<1>3. ASSUME NEW h \in Holds', IsFor(At(h), n)'
      PROVE  /\ At(h)' \in FifoFds
             /\ h = <<l, 1>> \/ (h[2] = 0 /\ feeder'[h[1]] = l)
             /\ \A g \in Holds' : IsFor(At(g), n)' => At(g)' = At(h)'
  <2>1. h \in Holds /\ At(h)' = At(h) /\ IsFor(At(h), n)
    BY <1>2, <1>3
  <2>2. /\ At(h) \in FifoFds
        /\ h = <<l, 1>> \/ (h[2] = 0 /\ feeder[h[1]] = l)
        /\ \A g \in Holds : IsFor(At(g), n) => At(g) = At(h)
    BY <1>1, <2>1 DEF Joins
  <2>3. h[1] \in Progs
    BY <2>1, HoldsIs
  <2>4. \A g \in Holds' : IsFor(At(g), n)' => At(g)' = At(h)'
    BY <1>2, <2>1, <2>2
  <2> QED
    BY <2>1, <2>2, <2>3, <2>4
<1>4. ASSUME Ready', IsFor(Duplicated, n)' PROVE Duplicated' \in FifoFds
  <2>1. Waits(X)
    BY <1>1, <1>4
  <2>2. PICK fd : fd = Duplicated /\ fd = Duplicated' /\ fd \notin X
    BY <2>1 DEF Waits
  <2>3. IsFor(fd, n)'
    BY <1>4, <2>2 DEF IsFor
  <2>4. IsFor(fd, n)
    BY <2>2, <2>3 DEF Steady
  <2>5. Ready /\ IsFor(Duplicated, n)
    BY <2>1, <2>2, <2>4 DEF Waits
  <2> QED
    BY <1>1, <2>2, <2>5 DEF Joins
<1> QED
  BY <1>1, <1>3, <1>4 DEF Joins

LEMMA JoinedStays ==
  ASSUME Joined, NEW X, Steady(X), UNCHANGED feeder,
         \A l \in Progs : PipeOf(l)' # 0 =>
           /\ PipeOf(l)' = PipeOf(l) /\ phase'[l] # "none"
           /\ Has(sh'.todo, "mkfifo") => l # sh'.pid
           /\ bytes'[PipeOf(l)'] \in Seq({l})
           /\ \A h \in Holds' : Still(h, X) \/ ~IsFor(At(h), PipeOf(l))'
           /\ Ready' => Waits(X) \/ ~IsFor(Duplicated, PipeOf(l))'
  PROVE  Joined'
<1> SUFFICES ASSUME NEW l \in Progs, PipeOf(l)' # 0 PROVE Joins(l)'
  BY DEF Joined
<1>1. PipeOf(l)' = PipeOf(l) /\ PipeOf(l) # 0
  OBVIOUS
<1>2. Joins(l)
  BY <1>1 DEF Joined
<1> QED
  BY <1>1, <1>2, JoinsStays

\* What the shell has to do gets less.
Feeds  == Feeding' => Feeding /\ sh'.stdin = sh.stdin /\ sh'.left = sh.left
GoesOn == \A x \in Before \union {"prun"} : Has(sh'.todo, x) => Has(sh.todo, x) /\ sh'.pid = sh.pid
Passes == Feeds /\ GoesOn

LEMMA HandedStays ==
  ASSUME Handed, NEW X, Ready' => (Waits(X) /\ UNCHANGED sh) \/ Duplicated' \notin FifoFds,
         \A h \in Holds' : Still(h, X) \/ At(h)' \notin FifoFds \/ At(h)' \in X
  PROVE  Handed'
<1> SUFFICES ASSUME Ready', Duplicated' \in FifoFds
             PROVE  /\ sh'.fd = sh'.stdin /\ sh'.left = sh'.pid /\ sh'.todo[1] = "dup1" /\ Feeding'
                    /\ \A x \in {"out", "in", "mkfifo"} : ~Has(sh'.todo, x)
                    /\ \A h \in Holds' : At(h)' # Duplicated'
  BY DEF Handed
<1>1. Waits(X) /\ sh' = sh /\ Duplicated' = Duplicated /\ Duplicated \notin X /\ Ready /\ Duplicated \in FifoFds
  BY DEF Waits
<1>2. Feeding' <=> Feeding
  BY <1>1 DEF Feeding
<1>3. \A h \in Holds' : At(h)' # Duplicated'
  BY <1>1 DEF Handed, Still
<1> QED
  BY <1>1, <1>2, <1>3 DEF Handed

LEMMA ToFeedStays ==
  ASSUME ToFeed, Feeds, NEW X, Steady(X),
         Feeding' => /\ LastPipe' = LastPipe /\ LastPipe \notin X
                     /\ PipeOf(sh.left)' = PipeOf(sh.left)
                     /\ \A h \in Holds' : Still(h, X) \/ ~IsFor(At(h), PipeOf(sh.left))'
  PROVE  ToFeed'
<1> SUFFICES ASSUME Feeding'
             PROVE  /\ sh'.left \in Progs /\ PipeOf(sh.left)' # 0
                    /\ IsFor(LastPipe, PipeOf(sh.left))'
                    /\ \A h \in Holds' : IsFor(At(h), PipeOf(sh.left))' => At(h)' = LastPipe' /\ h[2] = 1
  BY DEF ToFeed
<1>1. /\ Feeding /\ sh'.left = sh.left /\ LastPipe' = LastPipe /\ LastPipe \notin X
      /\ PipeOf(sh.left)' = PipeOf(sh.left)
  BY DEF Feeds
<1>2. PICK n : n = PipeOf(sh.left) /\ n = PipeOf(sh.left)'
  BY <1>1
<1>3. PICK fd : fd = LastPipe /\ fd = LastPipe' /\ fd \notin X
  BY <1>1
<1>4. sh.left \in Progs /\ n # 0 /\ IsFor(fd, n)
      /\ \A h \in Holds : IsFor(At(h), n) => At(h) = fd /\ h[2] = 1
  BY <1>1, <1>2, <1>3 DEF ToFeed
<1>5. IsFor(fd, n)'
  BY <1>3, <1>4 DEF Steady
<1>6. IsFor(LastPipe, PipeOf(sh.left))'
  BY <1>2, <1>3, <1>5 DEF IsFor
<1>7. ASSUME NEW h \in Holds', IsFor(At(h), PipeOf(sh.left))' PROVE At(h)' = fd /\ h[2] = 1
  <2>1. Still(h, X)
    BY <1>7
  <2>2. PICK gd : gd = At(h) /\ gd = At(h)' /\ gd \notin X
    BY <2>1 DEF Still
  <2>3. IsFor(gd, n)'
    BY <1>2, <1>7, <2>2 DEF IsFor
  <2>4. IsFor(gd, n)
    BY <2>2, <2>3 DEF Steady
  <2> QED
    BY <1>4, <2>1, <2>2, <2>4 DEF Still
<1> QED
  BY <1>1, <1>2, <1>3, <1>4, <1>6, <1>7

LEMMA FedStays ==
  ASSUME Fed, NEW X, Steady(X), UNCHANGED feeder,
         \A p \in Progs :
           /\ phase'[p] = "none" => phase[p] = "none"
           /\ phase'[p] \in {"none", "new"} => phase[p] \in {"none", "new"} /\ got'[p] = got[p]
           /\ feeder[p] # 0 => got'[p] \subseteq got[p] \union {feeder[p]}
           /\ feeder[p] # 0 /\ phase'[p] \in {"new", "run"} =>
                /\ phase[p] \in {"new", "run"} \/ phase[p] = "none"
                /\ table'[p][0] = table[p][0] /\ table[p][0] \notin X
                /\ PipeOf(feeder[p])' = PipeOf(feeder[p])
  PROVE  Fed'
<1> SUFFICES ASSUME NEW p \in Progs PROVE FedOf(p)'
  BY DEF Fed
<1>1. FedOf(p)
  BY DEF Fed
<1>2. ASSUME feeder[p] # 0, phase'[p] \in {"new", "run"}
      PROVE  /\ PipeOf(feeder[p])' # 0 /\ IsFor(table[p][0], PipeOf(feeder[p]))'
             /\ table'[p][0] \in FifoFds
  <2>1. phase[p] \in {"new", "run"}
    BY <1>1, <1>2 DEF FedOf
  <2>2. /\ table'[p][0] = table[p][0] /\ table[p][0] \notin X
        /\ PipeOf(feeder[p])' = PipeOf(feeder[p])
    BY <1>2
  <2>3. PICK n, fd : /\ n = PipeOf(feeder[p]) /\ n = PipeOf(feeder[p])'
                     /\ fd = table[p][0] /\ fd = table'[p][0] /\ fd \notin X
    BY <2>2
  <2>4. n # 0 /\ IsFor(fd, n) /\ fd \in FifoFds
    BY <1>1, <1>2, <2>1, <2>3 DEF FedOf
  <2>5. IsFor(fd, n)'
    BY <2>3, <2>4 DEF Steady
  <2> QED
    BY <2>3, <2>4, <2>5 DEF IsFor
<1>3. /\ phase'[p] = "none" => feeder'[p] = 0
      /\ phase'[p] \in {"none", "new"} => got'[p] = {}
      /\ feeder'[p] # 0 => got'[p] \subseteq {feeder'[p]}
  BY <1>1 DEF FedOf
<1>4. feeder'[p] = feeder[p]
  OBVIOUS
<1> QED
  BY <1>2, <1>3, <1>4 DEF FedOf

LEMMA GivenStays ==
  ASSUME Given, GoesOn,
         Has(sh.todo, "prun") => \A s \in {0, 1} : table'[sh.pid][s] = table[sh.pid][s] \/ table'[sh.pid][s] \notin FifoFds
  PROVE  Given'
<1>1. {"dup0", "in", "duppipe", "dup1"} \subseteq Before
  BY DEF Before
<1> QED
  BY <1>1 DEF Given, GoesOn

LEMMA UsesStays ==
  ASSUME Uses(files, Holds), NEW X, Steady(X),
         Feeding' => (Feeding /\ LastPipe' = LastPipe) \/ LastPipe' \in X,
         Ready' => Waits(X) \/ Duplicated' \notin FifoFds \/ Duplicated' \in X,
         \A fd \in FifoFds : /\ fd \notin X => files'[fd].used = files[fd].used
                             /\ fd \in X => files'[fd].used = 1
                             /\ fd \notin X /\ IsPipe(fd) /\ (\E h \in Holds : At(h) = fd) => IsPipe(fd)',
         \A h \in Holds' : Still(h, X) \/ At(h)' \notin FifoFds \/ At(h)' \in X,
         \A g, h \in Holds' : At(g)' \in X /\ At(h)' = At(g)' => g = h
  PROVE  Uses(files, Holds)'
<1> SUFFICES ASSUME NEW fd \in FifoFds
             PROVE  /\ files'[fd].used <= 1
                    /\ Ready' /\ fd = Duplicated' => files'[fd].used = 1
                    /\ \A h \in Holds' : At(h)' = fd =>
                         /\ files'[fd].used = 0 => IsPipe(fd)' /\ ~(Feeding' /\ fd = LastPipe')
                         /\ \A g \in Holds' : At(g)' = fd /\ (files'[fd].used = 0 \/ g[2] = h[2] \/ ~IsPipe(fd)') => g = h
  BY DEF Uses
<1>1. CASE fd \in X
  BY <1>1 DEF Waits
<1>2. CASE fd \notin X
  <2>1. files'[fd].used = files[fd].used
    BY <1>2
  <2>2. /\ files[fd].used <= 1
        /\ Ready /\ fd = Duplicated => files[fd].used = 1
        /\ \A h \in Holds : At(h) = fd =>
             /\ files[fd].used = 0 => IsPipe(fd) /\ ~(Feeding /\ fd = LastPipe)
             /\ \A g \in Holds : At(g) = fd /\ (files[fd].used = 0 \/ g[2] = h[2] \/ ~IsPipe(fd)) => g = h
    BY DEF Uses
  <2>3. Ready' /\ fd = Duplicated' => Ready /\ fd = Duplicated
    BY <1>2 DEF Waits
  <2>4. \A h \in Holds' : At(h)' = fd => h \in Holds /\ At(h) = fd
    BY <1>2 DEF Still
  <2>5. IsPipe(fd) /\ (\E h \in Holds : At(h) = fd) => IsPipe(fd)'
    BY <1>2
  <2> QED
    BY <2>1, <2>2, <2>3, <2>4, <2>5
<1> QED
  BY <1>1, <1>2

-----------------------------------------------------------------------------
(* Steps that give nobody a descriptor *)

LEMMA PipesAt ==
  ASSUME Shape, NEW l \in Progs
  PROVE  PipeOf(l) = dir[l] /\ PipeOf(l) \in Inodes \union {0} /\ l \in Names
BY Sizes DEF PipeOf, Shape, Typed, KernelTyped, Dirs

LEMMA PipesNext == ASSUME UNCHANGED dir PROVE \A l : PipeOf(l)' = PipeOf(l)
BY DEF PipeOf, PipeName

LEMMA SameSteady ==
  ASSUME \A fd \in Fds : files'[fd].type = files[fd].type /\ files'[fd].data = files[fd].data
  PROVE  Steady({})
BY DEF Steady, IsFor

Ends(p) == phase[p] # "none" /\ phase'[p] \in {"ending", "zombie"}
Onwards(p) == phase'[p] = phase[p] \/ (phase[p] = "new" /\ phase'[p] = "run") \/ Ends(p)
Reads(p) ==
  \/ got'[p] = got[p]
  \/ /\ phase'[p] \notin {"none", "new"}
     /\ feeder[p] # 0 => got'[p] \subseteq got[p] \union {feeder[p]}
BytesFit ==
  /\ \A i \in Inodes : kind[i] = "free" => bytes'[i] = <<>>
  /\ \A l \in Progs : PipeOf(l) # 0 => bytes'[PipeOf(l)] \in Seq({l})

LEMMA PlumbedQuiet ==
  ASSUME Shape, Plumbed, UNCHANGED <<table, alloc, dir, kind, feeder>>, Steady({}),
         Holds' \subseteq Holds, Passes, ~Ready' \/ UNCHANGED sh,
         \A p \in Progs : Onwards(p) /\ Reads(p), BytesFit, Uses(files, Holds)'
  PROVE  Plumbed'
<1>1. \A l : PipeOf(l)' = PipeOf(l)
  BY PipesNext
<1>2. \A h \in Holds' : Still(h, {})
  BY DEF Still, At
<1>3. Ready' => Waits({}) /\ UNCHANGED sh
  BY DEF Waits, Ready, Duplicated
<1>4. Alive'
  BY <1>2, <1>3, AliveStays DEF Plumbed, BytesFit
<1>5. Joined'
  <2>1. ASSUME NEW l \in Progs, PipeOf(l)' # 0
        PROVE  /\ phase'[l] # "none"
               /\ Has(sh'.todo, "mkfifo") => l # sh'.pid
               /\ bytes'[PipeOf(l)'] \in Seq({l})
    <3>1. PipeOf(l) # 0 /\ Joins(l)
      BY <1>1, <2>1 DEF Plumbed, Joined
    <3>2. phase'[l] # "none"
      BY <3>1 DEF Joins, Onwards, Ends
    <3>3. Has(sh'.todo, "mkfifo") => l # sh'.pid
      BY <3>1 DEF Joins, Passes, GoesOn, Before
    <3> QED
      BY <1>1, <3>1, <3>2, <3>3 DEF BytesFit
  <2> QED
    BY <1>1, <1>2, <1>3, <2>1, JoinedStays DEF Plumbed
<1>6. Handed'
  BY <1>2, <1>3, HandedStays DEF Plumbed
<1>7. ToFeed'
  <2>1. Feeding' => LastPipe' = LastPipe /\ PipeOf(sh.left)' = PipeOf(sh.left)
    BY DEF Passes, Feeds, LastPipe, PipeOf, PipeName
  <2>2. \A h \in Holds' : Still(h, {}) \/ ~IsFor(At(h), PipeOf(sh.left))'
    BY <1>2
  <2> QED
    BY <2>1, <2>2, ToFeedStays DEF Plumbed, Passes
<1>8. Fed'
  <2>1. \A p \in Progs :
           /\ phase'[p] = "none" => phase[p] = "none"
           /\ phase'[p] \in {"none", "new"} => phase[p] \in {"none", "new"} /\ got'[p] = got[p]
           /\ feeder[p] # 0 => got'[p] \subseteq got[p] \union {feeder[p]}
           /\ phase'[p] \in {"new", "run"} => phase[p] \in {"new", "run"}
    BY DEF Onwards, Ends, Reads
  <2> QED
    BY <1>1, <2>1, FedStays DEF Plumbed
<1>9. Given'
  <2>1. \A s : table'[sh.pid][s] = table[sh.pid][s]
    OBVIOUS
  <2> QED
    BY <2>1, GivenStays DEF Plumbed, Passes
<1>10. Fresh'
  <2>1. \A fd \in FifoFds : files'[fd].type = "fifo" => files[fd].type = "fifo"
    <3>1. FifoFds \subseteq Fds
      BY DEF Fds
    <3> QED
      BY <3>1 DEF Steady, IsFor
  <2> QED
    BY <2>1 DEF Plumbed, Fresh
<1> QED
  BY <1>4, <1>5, <1>6, <1>7, <1>8, <1>9, <1>10 DEF Plumbed

LEMMA PassesSame == ASSUME UNCHANGED sh PROVE Passes
BY DEF Passes, Feeds, GoesOn, Feeding

\* The shell has done a step, which did not make a pipe.
LEMMA PassesDone ==
  ASSUME Shape, sh.todo # <<>>, sh.todo[1] \notin {"mkfifo", "loop"},
         sh'.todo \in {Tail(sh.todo), Then}, sh'.pid = sh.pid, sh'.piped = sh.piped,
         sh'.stdin = sh.stdin, sh'.left = sh.left
  PROVE  Passes
<1> DEFINE t == Tail(sh.todo)
<1>1. sh.todo \in Seq(Steps) /\ sh.piped \in BOOLEAN /\ Ordered(sh.todo)
  BY ShellFacts DEF Shape, Planned
<1>2. /\ Head(sh.todo) = sh.todo[1]
      /\ \A x : Has(t, x) => Has(sh.todo, x) /\ Follows(Head(sh.todo), x)
      /\ \A x : Has(sh.todo, x) => x = Head(sh.todo) \/ Has(t, x)
  BY <1>1, TailOrdered
<1>3. sh'.todo = t \/ (sh'.todo = <<"pcreate">> /\ t = <<>> /\ sh.piped)
  BY <1>1 DEF Then, Rest
<1> HIDE DEF t
<1>4. t = <<>> => \A x : ~Has(t, x)
  BY DEF Has
<1>5. \A x \in Before \union {"prun"} : Has(sh'.todo, x) => Has(sh.todo, x)
  <2>1. ASSUME sh'.todo = <<"pcreate">>, NEW x \in Before \union {"prun"} PROVE ~Has(sh'.todo, x)
    BY <2>1 DEF Has, Before
  <2> QED
    BY <1>2, <1>3, <2>1
<1>6. \A x \in {"mkfifo", "loop"} : Has(sh.todo, x) => Has(sh'.todo, x)
  BY <1>2, <1>3, <1>4
<1>7. Feeding' => Feeding
  BY <1>5, <1>6 DEF Feeding, Before
<1> QED
  BY <1>5, <1>7 DEF Passes, Feeds, GoesOn

LEMMA SameBytes == ASSUME Shape, Plumbed, \A i \in Inodes : bytes'[i] \in {bytes[i], <<>>} PROVE BytesFit
<1>1. \A i \in Inodes : kind[i] = "free" => bytes'[i] = <<>>
  BY DEF Plumbed, Alive
<1>2. ASSUME NEW l \in Progs, PipeOf(l) # 0 PROVE bytes'[PipeOf(l)] \in Seq({l})
  <2>1. PipeOf(l) \in Inodes /\ bytes[PipeOf(l)] \in Seq({l})
    BY <1>2, PipesAt DEF Plumbed, Joined, Joins
  <2>2. <<>> \in Seq({l})
    OBVIOUS
  <2> QED
    BY <2>1, <2>2, Zenon
<1> QED
  BY <1>1, <1>2 DEF BytesFit

LEMMA UsesQuiet ==
  ASSUME Plumbed, UNCHANGED <<files, table, dir>>, Holds' \subseteq Holds, Passes,
         ~Ready' \/ UNCHANGED sh
  PROVE  Uses(files, Holds)' /\ Steady({})
<1>1. Steady({})
  BY SameSteady
<1>2. \A fd : IsPipe(fd)' <=> IsPipe(fd)
  BY PipesNext DEF IsPipe, IsFor
<1>3. \A h \in Holds' : Still(h, {})
  BY DEF Still, At
<1>4. Feeding' => Feeding /\ LastPipe' = LastPipe
  BY DEF Passes, Feeds, LastPipe
<1>5. Ready' => Waits({})
  BY DEF Waits, Ready, Duplicated
<1> QED
  BY <1>1, <1>2, <1>3, <1>4, <1>5, UsesStays DEF Plumbed

LEMMA PlumbedShell ==
  ASSUME Shape, Plumbed, Prompt \/ Loop \/ Prun \/ Waitpid \/ Woken
  PROVE  Plumbed'
<1>1. UNCHANGED <<files, table, alloc, dir, kind, feeder, slot, bytes, got>>
  BY DEF Prompt, Loop, Prun, Waitpid, Woken, Kernel
<1>2. phase \in [Progs -> {"none", "new", "run", "ending", "zombie"}] /\ sh \in Shells
  BY DEF Shape, Typed, ProgsTyped, ShellTyped
<1>3. \A p \in Progs : phase'[p] = phase[p] \/ (phase[p] = "new" /\ phase'[p] = "run")
  <2>1. CASE Prun
    <3>1. sh.pid \in Progs /\ phase' = [phase EXCEPT ![sh.pid] = IF @ = "new" THEN "run" ELSE @]
      BY <2>1, ShellFacts DEF Prun, Calls
    <3> QED
      BY <1>2, <3>1
  <2>2. CASE Prompt \/ Loop \/ Waitpid \/ Woken
    BY <2>2 DEF Prompt, Loop, Waitpid, Woken
  <2> QED
    BY <2>1, <2>2
<1>4. Holds' \subseteq Holds
  BY <1>1, <1>3, HoldsLess
<1>5. Passes /\ ~Ready'
  <2>1. CASE Prompt
    <3>1. sh'.stdin = 0 /\ sh'.todo = <<"pcreate">>
      BY <2>1 DEF Prompt
    <3>2. \A x : Has(sh'.todo, x) => x = "pcreate"
      BY <3>1 DEF Has
    <3> QED
      BY <3>1, <3>2 DEF Passes, Feeds, GoesOn, Feeding, Ready, Before
  <2>2. CASE Loop
    <3>1. sh' = [sh EXCEPT !.todo = <<"loop">>] /\ sh.todo # <<>> /\ sh.todo[1] \in {"out", "in", "mkfifo"}
      BY <2>2, ShellFacts DEF Loop, Calls
    <3>2. sh'.todo = <<"loop">> /\ \A x : Has(sh'.todo, x) => x = "loop"
      BY <1>2, <3>1 DEF Has, Shells
    <3>3. ~Has(sh'.todo, "duppipe") /\ Has(sh'.todo, "loop")
      BY <1>2, <3>1, <3>2 DEF Has, Shells
    <3> QED
      BY <3>2, <3>3 DEF Passes, Feeds, GoesOn, Feeding, Ready, Before
  <2>3. CASE Waitpid
    <3>1. /\ sh.todo # <<>> /\ sh.todo[1] = "waitpid" /\ sh.todo \in Seq(Steps) /\ Ordered(sh.todo)
          /\ sh' = [sh EXCEPT !.todo = <<"waiting">> \o Tail(sh.todo)]
      BY <1>2, <2>3, ShellFacts DEF Waitpid, Calls, Shape, Planned, Shells
    <3>2. /\ Head(sh.todo) = "waitpid"
          /\ \A x : Has(sh.todo, x) => x = Head(sh.todo) \/ Follows(Head(sh.todo), x)
      BY <3>1, TailOrdered
    <3>3. \A x : Has(sh.todo, x) => x \in After
      BY <3>2 DEF Follows, After
    <3>4. /\ sh'.todo = <<"waiting">> \o Tail(sh.todo) /\ sh'.todo[1] = "waiting"
          /\ \A x : Has(sh'.todo, x) => x \in After
          /\ sh'.stdin = sh.stdin /\ sh'.left = sh.left /\ sh'.piped = sh.piped
      BY <1>2, <3>1, WaitingPlan DEF Shells
    <3> QED
      BY <3>3, <3>4 DEF Passes, Feeds, GoesOn, Feeding, Ready, After, Before
  <2>4. CASE Prun \/ Woken
    <3>1. /\ sh.todo # <<>> /\ sh.todo[1] \in {"prun", "waiting"} /\ line' = line
          /\ sh' = [sh EXCEPT !.todo = Tail(@)] \/ sh' = [sh EXCEPT !.todo = Then]
      BY <2>4, ShellFacts DEF Prun, Woken, Calls
    <3>2. \A p \in Progs : phase[p] \in Unrun => phase'[p] \in Unrun \/ (p = sh.pid /\ sh.todo[1] = "prun")
      BY <1>2, <2>4, ShellFacts DEF Prun, Woken, Calls
    <3>3. ~Ready'
      BY <1>1, <3>1, <3>2, ShellGoesOn
    <3>4. /\ sh'.todo \in {Tail(sh.todo), Then} /\ sh'.pid = sh.pid /\ sh'.piped = sh.piped
          /\ sh'.stdin = sh.stdin /\ sh'.left = sh.left
      BY <1>2, <3>1 DEF Shells
    <3> QED
      BY <3>1, <3>3, <3>4, PassesDone
  <2> QED
    BY <2>1, <2>2, <2>3, <2>4
<1>6. Uses(files, Holds)' /\ Steady({})
  BY <1>1, <1>4, <1>5, UsesQuiet
<1>7. BytesFit
  BY <1>1, SameBytes
<1>8. \A p \in Progs : Onwards(p) /\ Reads(p)
  BY <1>1, <1>3 DEF Onwards, Reads
<1> QED
  BY <1>1, <1>4, <1>5, <1>6, <1>7, <1>8, PlumbedQuiet

-----------------------------------------------------------------------------
(* Programs that read, write and end *)

\* Nobody is given, or loses, a descriptor.
LEMMA PlumbedCalm ==
  ASSUME Shape, Plumbed, UNCHANGED <<files, table, alloc, dir, kind, feeder, slot, sh>>,
         \A q \in Progs : phase'[q] = phase[q] \/ (phase[q] = "run" /\ phase'[q] = "ending"),
         \A q \in Progs : Reads(q), BytesFit
  PROVE  Plumbed'
<1>1. Holds' \subseteq Holds
  BY HoldsLess
<1>2. Passes
  BY PassesSame
<1>3. Uses(files, Holds)' /\ Steady({})
  BY <1>1, <1>2, UsesQuiet
<1>4. \A q \in Progs : Onwards(q)
  BY DEF Onwards, Ends
<1> QED
  BY <1>1, <1>2, <1>3, <1>4, PlumbedQuiet

LEMMA PlumbedEnd == ASSUME Shape, Plumbed, NEW p \in Progs, End(p) PROVE Plumbed'
<1>1. /\ UNCHANGED <<files, table, alloc, dir, kind, feeder, slot, sh, bytes, got>>
      /\ phase[p] = "run" /\ phase' = [phase EXCEPT ![p] = "ending"]
  BY DEF End, Kernel, Running
<1>2. phase \in [Progs -> {"none", "new", "run", "ending", "zombie"}]
  BY DEF Shape, Typed, ProgsTyped
<1>3. \A q \in Progs : phase'[q] = phase[q] \/ (phase[q] = "run" /\ phase'[q] = "ending")
  BY <1>1, <1>2
<1>4. \A q \in Progs : Reads(q)
  BY <1>1 DEF Reads
<1>5. BytesFit
  BY <1>1, SameBytes
<1> QED
  BY <1>1, <1>3, <1>4, <1>5, PlumbedCalm

\* A running program has all its slots.
LEMMA RunningHolds ==
  ASSUME Shape, NEW p \in Progs, phase[p] \in {"new", "run"}, NEW s \in Slots, table[p][s] \in Fds
  PROVE  <<p, s>> \in Holds /\ At(<<p, s>>) = table[p][s]
<1>1. slot[p] = 0 /\ s >= 0 /\ table[p][s] # -1
  BY Sizes DEF Shape, Unclosed
<1> QED
  BY <1>1, HoldsIs DEF At

LEMMA PlumbedRead == ASSUME Shape, Plumbed, NEW p \in Progs, Read(p) PROVE Plumbed'
<1>1. PICK s \in Slots \ {1, 2} :
        LET fd == table[p][s]  i == files[fd].data IN
        /\ IsFifo(fd) /\ bytes[i] # <<>>
        /\ bytes' = [bytes EXCEPT ![i] = Tail(@)]
        /\ got' = IF s = 0 THEN [got EXCEPT ![p] = @ \union {Head(bytes[i])}] ELSE got
  BY DEF Read
<1> DEFINE fd == table[p][s]
           i == files[fd].data
<1>2. /\ UNCHANGED <<files, table, alloc, dir, kind, feeder, slot, sh, phase>> /\ phase[p] = "run"
  BY DEF Read, Kernel, Running
<1>3. /\ fd \in Fds /\ files[fd].type = "fifo" /\ bytes[i] # <<>>
      /\ bytes' = [bytes EXCEPT ![i] = Tail(bytes[i])]
      /\ got' = IF s = 0 THEN [got EXCEPT ![p] = @ \union {Head(bytes[i])}] ELSE got
  BY <1>1 DEF IsFifo
<1>4. bytes \in [Inodes -> Seq(Progs)]
  BY DEF Shape, Typed, KernelTyped, BytesTyped
<1> HIDE DEF i
<1>5. \A j \in Inodes : bytes'[j] = bytes[j] \/ (j = i /\ bytes'[j] = Tail(bytes[j]) /\ bytes[j] # <<>>)
  BY <1>3, <1>4
<1>6. BytesFit
  <2>1. \A j \in Inodes : kind[j] = "free" => bytes'[j] = <<>>
    BY <1>5 DEF Plumbed, Alive
  <2>2. ASSUME NEW l \in Progs, PipeOf(l) # 0 PROVE bytes'[PipeOf(l)] \in Seq({l})
    <3>1. PipeOf(l) \in Inodes /\ bytes[PipeOf(l)] \in Seq({l})
      BY <2>2, PipesAt DEF Plumbed, Joined, Joins
    <3>2. PICK b : /\ b = bytes[PipeOf(l)] /\ b \in Seq({l})
                   /\ (bytes'[PipeOf(l)] = b) \/ (b # <<>> /\ bytes'[PipeOf(l)] = Tail(b))
      BY <1>5, <3>1
    <3>3. b # <<>> /\ b \in Seq({l}) => Tail(b) \in Seq({l})
      OBVIOUS
    <3> QED
      BY <3>2, <3>3
  <2> QED
    BY <2>1, <2>2 DEF BytesFit
<1>7. \A q \in Progs : Reads(q)
  <2>1. CASE s # 0
    BY <1>3, <2>1 DEF Reads
  <2>2. CASE s = 0
    <3>1. \A q : q # p => got'[q] = got[q]
      BY <1>3, <2>2
    <3>2. got'[p] = got[p] \/ got'[p] = got[p] \union {Head(bytes[i])}
      BY <1>3, <2>2
    <3>3. ASSUME feeder[p] # 0 PROVE Head(bytes[i]) = feeder[p]
      <4>1. PipeOf(feeder[p]) # 0 /\ IsFor(fd, PipeOf(feeder[p]))
        BY <1>2, <2>2, <3>3 DEF Plumbed, Fed, FedOf
      <4>2. feeder[p] \in Progs /\ PipeOf(feeder[p]) = i
        BY <3>3, <4>1 DEF IsFor, i, Shape, Typed, ProgsTyped
      <4>3. bytes[i] \in Seq({feeder[p]}) /\ bytes[i] # <<>>
        BY <1>3, <4>1, <4>2 DEF Plumbed, Joined, Joins
      <4>4. \A l, b : b \in Seq({l}) /\ b # <<>> => Head(b) = l
        OBVIOUS
      <4> QED
        BY <4>3, <4>4
    <3>4. Reads(p)
      BY <1>2, <3>2, <3>3 DEF Reads
    <3> QED
      BY <3>1, <3>4 DEF Reads
  <2> QED
    BY <2>1, <2>2
<1> QED
  BY <1>2, <1>6, <1>7, PlumbedCalm

LEMMA PlumbedWrite == ASSUME Shape, Plumbed, NEW p \in Progs, Write(p) PROVE Plumbed'
<1>1. PICK s \in Slots \ {0, 2} :
        LET fd == table[p][s]  i == files[fd].data IN
        /\ IsFifo(fd) /\ Len(bytes[i]) < MaxBytes
        /\ bytes' = [bytes EXCEPT ![i] = Append(@, p)]
  BY DEF Write
<1> DEFINE fd == table[p][s]
           i == files[fd].data
<1>2. /\ UNCHANGED <<files, table, alloc, dir, kind, feeder, slot, sh, phase, got>> /\ phase[p] = "run"
  BY DEF Write, Kernel, Running
<1>3. /\ fd \in Fds /\ files[fd].type = "fifo"
      /\ bytes' = [bytes EXCEPT ![i] = Append(bytes[i], p)]
  BY <1>1 DEF IsFifo
<1>4. bytes \in [Inodes -> Seq(Progs)]
  BY DEF Shape, Typed, KernelTyped, BytesTyped
<1>5. <<p, s>> \in Holds /\ At(<<p, s>>) = fd /\ IsFor(fd, i) /\ <<p, s>>[2] = s
  BY <1>2, <1>3, RunningHolds DEF IsFor
<1> HIDE DEF i, fd
<1>6. \A j \in Inodes : bytes'[j] = bytes[j] \/ (j = i /\ bytes'[j] = Append(bytes[j], p))
  BY <1>3, <1>4
<1>7. BytesFit
  <2>1. ASSUME NEW j \in Inodes, kind[j] = "free" PROVE bytes'[j] = <<>>
    <3>1. bytes[j] = <<>> /\ ~IsFor(At(<<p, s>>), j)
      BY <1>5, <2>1 DEF Plumbed, Alive
    <3>2. j # i
      BY <1>5, <3>1
    <3> QED
      BY <1>6, <3>1, <3>2
  <2>2. ASSUME NEW l \in Progs, PipeOf(l) # 0 PROVE bytes'[PipeOf(l)] \in Seq({l})
    <3>1. PipeOf(l) \in Inodes /\ Joins(l)
      BY <2>2, PipesAt DEF Plumbed, Joined
    <3>2. bytes[PipeOf(l)] \in Seq({l})
      BY <3>1 DEF Joins
    <3>3. CASE PipeOf(l) # i
      BY <1>6, <3>1, <3>2, <3>3
    <3>4. CASE PipeOf(l) = i
      <4>1. <<p, s>> = <<l, 1>>
        BY <1>5, <3>1, <3>4 DEF Joins
      <4>2. p = l
        BY <4>1
      <4>3. \A b \in Seq({l}) : Append(b, l) \in Seq({l})
        OBVIOUS
      <4> QED
        BY <1>6, <3>1, <3>2, <4>2, <4>3
    <3> QED
      BY <3>3, <3>4
  <2> QED
    BY <2>1, <2>2 DEF BytesFit
<1>8. \A q \in Progs : Reads(q)
  BY <1>2 DEF Reads
<1> QED
  BY <1>2, <1>7, <1>8, PlumbedCalm

-----------------------------------------------------------------------------
(* Programs that close *)

\* What was in a fifo is still in it, as long as something in H leads to it.
Drained(st, H) ==
  \A i \in Inodes : st.bytes[i] = bytes[i] \/ \A h \in H : ~IsFor(At(h), i)

LEMMA CloseDrops ==
  ASSUME NEW st \in States, NEW fd \in Entries, NEW i \in Inodes
  PROVE  \/ FdClose(st, fd).bytes[i] = st.bytes[i]
         \/ /\ fd \in Fds /\ ~(st.files[fd].used > 0)
            /\ st.files[fd].type = "fifo" /\ st.files[fd].data = i
<1> USE DEF States
<1>1. CASE fd = -1
  BY <1>1 DEF FdClose
<1>2. CASE fd # -1 /\ fd \notin Fds
  BY <1>2 DEF FdClose
<1>3. CASE fd # -1 /\ fd \in Fds
  <2>1. CASE st.files[fd].used > 0
    <3>1. FdClose(st, fd) = [st EXCEPT !.files = [st.files EXCEPT ![fd].used = @ - 1]]
      BY <1>3, <2>1 DEF FdClose
    <3> QED
      BY <3>1
  <2>2. CASE ~(st.files[fd].used > 0) /\ st.files[fd].type = "fifo"
    <3>1. FdClose(st, fd) = [st EXCEPT !.bytes = [st.bytes EXCEPT ![st.files[fd].data] = <<>>]]
      BY <1>3, <2>2 DEF FdClose
    <3> QED
      BY <1>3, <2>2, <3>1
  <2>3. CASE ~(st.files[fd].used > 0) /\ st.files[fd].type # "fifo"
    BY <1>3, <2>3 DEF FdClose
  <2> QED
    BY <2>1, <2>2, <2>3
<1> QED
  BY <1>1, <1>2, <1>3

\* A pipe's descriptor is in the slots 0 and 1 only.
LEMMA PipeSlots ==
  ASSUME Plumbed, NEW fd, IsPipe(fd), NEW h \in Holds, At(h) = fd
  PROVE  h[2] \in {0, 1}
<1>1. PICK l \in Progs : PipeOf(l) # 0 /\ IsFor(fd, PipeOf(l))
  BY DEF IsPipe
<1>2. h = <<l, 1>> \/ h[2] = 0
  BY <1>1 DEF Plumbed, Joined, Joins
<1> QED
  BY <1>2

LEMMA UsesClosed ==
  ASSUME Shape, Plumbed, Slotted, NEW st \in States, Less(st), NEW H \in SUBSET Holds,
         st.files[Tty].used > 0, OneEach(st.files, H), Uses(st.files, H), Drained(st, H),
         NEW p \in Progs, NEW s \in Slots, <<p, s>> \in H \/ table[p][s] = -1
  PROVE  /\ Uses(FdClose(st, table[p][s]).files, H \ {<<p, s>>})
         /\ Drained(FdClose(st, table[p][s]), H \ {<<p, s>>})
<1> DEFINE fd == table[p][s]
           c == FdClose(st, fd)
           x == <<p, s>>
           G == H \ {x}
<1>1. table \in Tables
  BY DEF Shape, Typed, ProgsTyped
<1>2. fd \in Entries /\ FifoFds \subseteq Fds /\ FileFds \subseteq Fds /\ -1 \notin FifoFds
  BY <1>1, Sizes DEF Tables, Entries, Fds
<1>3. x[1] = p /\ x[2] = s
  OBVIOUS
<1>4. \A g \in Fds : c.files[g].used = IF g = fd /\ st.files[g].used > 0
                                THEN st.files[g].used - 1 ELSE st.files[g].used
  BY <1>2, CloseGives
<1>5. \A g \in Fds : st.files[g].used \in Nat /\ st.files[g].type = files[g].type /\ st.files[g].data = files[g].data
  BY DEF States, File, Less
<1>6. \A i \in Inodes :
         \/ c.bytes[i] = st.bytes[i]
         \/ fd \in Fds /\ ~(st.files[fd].used > 0) /\ IsFor(fd, i)
  <2>1. ASSUME NEW i \in Inodes
        PROVE  \/ c.bytes[i] = st.bytes[i]
               \/ fd \in Fds /\ ~(st.files[fd].used > 0) /\ st.files[fd].type = "fifo" /\ st.files[fd].data = i
    BY <1>2, CloseDrops
  <2> HIDE DEF c, fd
  <2> QED
    BY <1>5, <2>1 DEF IsFor
<1>7. x \in H => /\ At(x) = fd
                 /\ fd = Tty \/ Leads(fd)
  BY <1>3 DEF At, Slotted
<1>8. \A g \in FifoFds :
        /\ st.files[g].used <= 1
        /\ Ready /\ g = Duplicated => st.files[g].used = 1
        /\ \A h \in H : At(h) = g =>
             /\ st.files[g].used = 0 => IsPipe(g) /\ ~(Feeding /\ g = LastPipe)
             /\ \A k \in H : At(k) = g /\ (st.files[g].used = 0 \/ k[2] = h[2] \/ ~IsPipe(g)) => k = h
  BY DEF Uses
<1> HIDE DEF c, x
<1>9. ASSUME NEW g \in FifoFds
      PROVE  /\ c.files[g].used <= 1
             /\ Ready /\ g = Duplicated => c.files[g].used = 1
             /\ \A h \in G : At(h) = g =>
                  /\ c.files[g].used = 0 => IsPipe(g) /\ ~(Feeding /\ g = LastPipe)
                  /\ \A k \in G : At(k) = g /\ (c.files[g].used = 0 \/ k[2] = h[2] \/ ~IsPipe(g)) => k = h
  <2>1. CASE g # fd \/ ~(st.files[g].used > 0)
    <3>1. c.files[g].used = st.files[g].used
      BY <1>2, <1>4, <2>1
    <3> QED
      BY <1>8, <3>1
  <2>2. CASE g = fd /\ st.files[g].used > 0
    <3>1. st.files[g].used = 1 /\ c.files[g].used = 0
      <4>1. st.files[g].used <= 1 /\ st.files[g].used \in Nat /\ c.files[g].used = st.files[g].used - 1
        BY <1>2, <1>4, <1>5, <1>8, <2>2
      <4> QED
        BY <4>1, <2>2
    <3>2. x \in H /\ At(x) = g /\ x \in Holds
      BY <1>2, <1>7, <2>2 DEF x
    <3>3. ~(Ready /\ g = Duplicated)
      BY <3>2 DEF Plumbed, Handed
    <3>4. ASSUME NEW h \in G, At(h) = g
          PROVE  /\ IsPipe(g) /\ ~(Feeding /\ g = LastPipe)
                 /\ \A k \in G : At(k) = g => k = h
      <4>1. h \in H /\ h # x /\ h \in Holds
        BY <3>4
      <4>2. IsPipe(g) /\ h[2] # x[2]
        BY <1>8, <3>2, <3>4, <4>1
      <4>3. ~(Feeding /\ g = LastPipe)
        <5>1. Feeding /\ g = LastPipe => x[2] = 1 /\ h[2] = 1
          BY <3>2, <3>4, <4>1 DEF Plumbed, ToFeed
        <5> QED
          BY <4>2, <5>1
      <4>4. ASSUME NEW k \in G, At(k) = g PROVE k = h
        <5>1. k \in H /\ k # x /\ k \in Holds
          BY <4>4
        <5>2. k[2] # x[2]
          BY <1>8, <3>2, <4>2, <4>4, <5>1
        <5>3. x[2] \in {0, 1} /\ h[2] \in {0, 1} /\ k[2] \in {0, 1}
          BY <3>2, <3>4, <4>1, <4>2, <4>4, <5>1, PipeSlots
        <5>4. k[2] = h[2]
          BY <4>2, <5>2, <5>3
        <5> QED
          BY <1>8, <3>4, <4>1, <4>4, <5>1, <5>4
      <4> QED
        BY <4>2, <4>3, <4>4
    <3> QED
      BY <3>1, <3>3, <3>4
  <2> QED
    BY <2>1, <2>2
<1>10. ASSUME NEW i \in Inodes PROVE c.bytes[i] = bytes[i] \/ \A h \in G : ~IsFor(At(h), i)
  <2>1. st.bytes[i] = bytes[i] \/ \A h \in H : ~IsFor(At(h), i)
    BY DEF Drained
  <2>2. CASE c.bytes[i] = st.bytes[i]
    BY <2>1, <2>2
  <2>3. CASE fd \in Fds /\ ~(st.files[fd].used > 0) /\ IsFor(fd, i)
    <3>1. x \in H /\ At(x) = fd /\ (fd = Tty \/ Leads(fd))
      <4>1. fd # -1
        BY <2>3, Sizes
      <4> QED
        BY <1>7, <4>1 DEF x
    <3>2. fd \in FifoFds
      <4>1. fd # Tty
        BY <2>3
      <4>2. fd \notin FileFds
        <5>1. fd \in FileFds => st.files[fd].used # 0
          BY <3>1 DEF OneEach, At
        <5> QED
          BY <1>5, <2>3, <5>1
      <4> QED
        BY <3>1, <4>1, <4>2 DEF Leads, LeadsIn
    <3>3. st.files[fd].used = 0
      BY <1>5, <2>3
    <3>4. IsPipe(fd) /\ \A k \in H : At(k) = fd => k = x
      BY <1>8, <3>1, <3>2, <3>3
    <3>5. PICK l \in Progs : PipeOf(l) # 0 /\ IsFor(fd, PipeOf(l))
      BY <3>4 DEF IsPipe
    <3>6. PipeOf(l) = i
      BY <2>3, <3>5 DEF IsFor
    <3>7. x \in Holds /\ G \subseteq Holds
      BY <3>1
    <3>8. ASSUME NEW h \in G, IsFor(At(h), i) PROVE FALSE
      <4>1. h \in Holds /\ IsFor(At(x), i) /\ Joins(l)
        BY <2>3, <3>1, <3>5, <3>7, <3>8 DEF Plumbed, Joined
      <4>2. At(h) = At(x)
        BY <3>6, <3>7, <3>8, <4>1 DEF Joins
      <4> QED
        BY <3>1, <3>4, <3>8, <4>2
    <3> QED
      BY <3>8
  <2> QED
    BY <1>6, <2>2, <2>3
<1>11. Uses(c.files, G) /\ Drained(c, G)
  BY <1>9, <1>10 DEF Uses, Drained
<1> QED
  BY <1>11 DEF c, x

LEMMA HeldRest ==
  ASSUME NEW p \in Progs, phase[p] \in {"new", "run", "ending"}, NEW s \in Slots, s >= slot[p]
  PROVE  <<p, s>> \in HoldRest(p, s - 1) \/ table[p][s] = -1
<1>1. CASE table[p][s] # -1
  <2>1. <<p, s>> \in Holds
    BY <1>1, HoldsIs
  <2>2. <<p, s>>[1] = p /\ <<p, s>>[2] = s /\ ~(s <= s - 1)
    BY Sizes
  <2> QED
    BY <2>1, <2>2 DEF HoldRest
<1> QED
  BY <1>1

LEMMA RestLess ==
  ASSUME NEW p \in Progs, NEW s \in Slots
  PROVE  HoldRest(p, s) = HoldRest(p, s - 1) \ {<<p, s>>}
<1>1. ASSUME NEW h \in Holds PROVE h \in HoldRest(p, s) <=> h \in HoldRest(p, s - 1) /\ h # <<p, s>>
  <2>1. h = <<h[1], h[2]>> /\ h[2] \in Slots
    BY HoldsIs
  <2>2. h[2] \in Nat /\ s \in Nat
    BY <2>1, Sizes
  <2>3. h[2] <= s <=> h[2] <= s - 1 \/ h[2] = s
    BY <2>2
  <2>4. h = <<p, s>> <=> h[1] = p /\ h[2] = s
    BY <2>1
  <2> QED
    BY <2>3, <2>4 DEF HoldRest
<1> QED
  BY <1>1 DEF HoldRest

LEMMA UsesCloseAll ==
  ASSUME Shape, TtyCounted, Clean, Plumbed, slip = {}, ~wild, NEW p \in Progs,
         phase[p] \in {"new", "run", "ending"}, NEW to \in slot[p] - 1 .. NSlots - 1
  PROVE  LET c == FdCloseAll(p, slot[p], to) IN
         c \in States /\ Less(c) /\ Uses(c.files, HoldRest(p, to)) /\ Drained(c, HoldRest(p, to))
<1> DEFINE OK(k, st) ==
             /\ Less(st)
             /\ st.files[Tty].used = 4 + Cardinality(TtyRest(p, k))
             /\ OneEach(st.files, HoldRest(p, k))
             /\ Uses(st.files, HoldRest(p, k)) /\ Drained(st, HoldRest(p, k))
           T == {t \in (slot[p] - 1 .. to) \X States : OK(t[1], t[2])}
<1>1. /\ slot[p] \in 0 .. NSlots /\ NSlots \in Nat /\ table \in Tables
      /\ KernelTyped /\ State \in States /\ State.files = files /\ State.bytes = bytes /\ Less(State)
  BY Sizes, StateTyped DEF Shape, Typed, ProgsTyped, State
<1>2. <<slot[p] - 1, State>> \in T
  <2>1. slot[p] - 1 \in slot[p] - 1 .. to
    BY <1>1
  <2>2. State.files[Tty].used = 4 + Cardinality(TtyRest(p, slot[p] - 1))
    BY <1>1, TtyRestStart DEF TtyCounted, TtyHeld
  <2>3. HoldRest(p, slot[p] - 1) \subseteq Holds
    BY DEF HoldRest
  <2>4. OneEach(State.files, HoldRest(p, slot[p] - 1))
    BY <1>1, <2>3 DEF Clean, OneEach
  <2>5. Uses(State.files, HoldRest(p, slot[p] - 1))
    BY <1>1, <2>3 DEF Plumbed, Uses
  <2>6. Drained(State, HoldRest(p, slot[p] - 1))
    BY <1>1 DEF Drained
  <2> QED
    BY <1>1, <2>1, <2>2, <2>4, <2>5, <2>6
<1>3. ASSUME NEW s \in slot[p] .. to, NEW st \in States, <<s - 1, st>> \in T
      PROVE  <<s, FdClose(st, table[p][s])>> \in T
  <2> DEFINE c == FdClose(st, table[p][s])
             H == HoldRest(p, s - 1)
  <2>1. s \in Slots /\ s \in slot[p] - 1 .. to /\ s >= slot[p] /\ s \in Nat
    BY <1>1, Sizes DEF Slots
  <2>2. table[p][s] \in Entries
    BY <1>1, <2>1 DEF Tables, Entries
  <2>3. /\ Less(st) /\ OneEach(st.files, H) /\ Uses(st.files, H) /\ Drained(st, H)
        /\ st.files[Tty].used = 4 + Cardinality(TtyRest(p, s - 1))
    BY <1>3
  <2>4. c \in States /\ Less(c)
    BY <1>1, <2>2, <2>3, CloseTyped, CloseLess
  <2>5. c.files[Tty].used = 4 + Cardinality(TtyRest(p, s)) /\ st.files[Tty].used > 0
    BY <2>1, <2>3, TtyCloseStep
  <2>6. H \in SUBSET Holds /\ Slotted
    BY DEF HoldRest, Clean
  <2>7. <<p, s>> \in H \/ table[p][s] = -1
    BY <2>1, HeldRest
  <2>8. HoldRest(p, s) = H \ {<<p, s>>}
    BY <2>1, RestLess
  <2> HIDE DEF H
  <2>9. OneEach(c.files, HoldRest(p, s))
    <3>1. OneEach(st.files, H) /\ table \in Tables /\ s \in Slots /\ H \in SUBSET Holds
      BY <1>1, <2>1, <2>3, <2>6
    <3> HIDE DEF OK, T
    <3> QED
      BY <3>1, <2>7, <2>8, OneClosed
  <2>10. Uses(c.files, HoldRest(p, s)) /\ Drained(c, HoldRest(p, s))
    <3>1. /\ Uses(st.files, H) /\ Drained(st, H) /\ OneEach(st.files, H) /\ Less(st)
          /\ s \in Slots /\ H \in SUBSET Holds /\ Slotted /\ st.files[Tty].used > 0
      BY <2>1, <2>3, <2>5, <2>6
    <3> HIDE DEF OK, T, c
    <3>2. /\ Uses(FdClose(st, table[p][s]).files, H \ {<<p, s>>})
          /\ Drained(FdClose(st, table[p][s]), H \ {<<p, s>>})
      BY <2>7, <3>1, UsesClosed
    <3> QED
      BY <2>8, <3>2 DEF c
  <2> HIDE DEF c
  <2>11. <<s, c>> \in T
    BY <2>1, <2>4, <2>5, <2>9, <2>10
  <2> QED
    BY <2>11 DEF c
<1> HIDE DEF T
<1>4. FdCloseAll(p, slot[p], to) \in States /\ <<to, FdCloseAll(p, slot[p], to)>> \in T
  BY <1>1, <1>2, <1>3, CloseAll
<1> QED
  BY <1>4 DEF T

LEMMA PlumbedLeft ==
  ASSUME Shape, TtyCounted, Clean, Plumbed, slip = {}, ~wild, NEW p \in Progs,
         phase[p] \in {"new", "run", "ending"},
         NEW to \in slot[p] - 1 .. NSlots - 1, Left(FdCloseAll(p, slot[p], to)),
         UNCHANGED <<alloc, dir, kind, table, sh, feeder, got>>,
         phase'[p] \in {phase[p], "zombie"}, phase'[p] = phase[p] => phase[p] = "ending",
         \A q \in Progs : q # p => slot'[q] = slot[q] /\ phase'[q] = phase[q],
         \A s \in Slots : phase'[p] \in {"new", "run", "ending"} /\ s >= slot'[p] <=> s > to
  PROVE  /\ Plumbed'
         /\ \A i \in Inodes : bytes'[i] = bytes[i] \/ \A h \in Holds' : ~IsFor(At(h), i)'
<1> DEFINE c == FdCloseAll(p, slot[p], to)
           R == HoldRest(p, to)
<1>1. c \in States /\ Less(c) /\ Uses(c.files, R) /\ Drained(c, R)
  BY UsesCloseAll
<1>2. files' = c.files /\ bytes' = c.bytes
  BY DEF Left
<1>3. Holds' \subseteq R /\ R \subseteq Holds
  <2>1. Holds' \subseteq HoldRest(p, to)
    BY CleanLeft
  <2> QED
    BY <2>1 DEF HoldRest
<1> HIDE DEF c, R
<1>4. \A g \in Fds : files'[g].type = files[g].type /\ files'[g].data = files[g].data
  BY <1>1, <1>2 DEF Less
<1>5. Steady({})
  BY <1>4, SameSteady
<1>6. \A fd : IsPipe(fd)' <=> IsPipe(fd)
  BY <1>5, PipesNext DEF IsPipe, Steady
<1>7. /\ Ready' <=> Ready
      /\ Feeding' <=> Feeding
      /\ Duplicated' = Duplicated /\ LastPipe' = LastPipe
      /\ \A h : At(h)' = At(h)
  BY DEF Ready, Feeding, Duplicated, LastPipe, At
<1>8. Uses(files, Holds)'
  BY <1>1, <1>2, <1>3, <1>6, <1>7 DEF Uses
<1>9. \A i \in Inodes : bytes'[i] \in {bytes[i], <<>>}
  BY <1>1, <1>2 DEF Less
<1>10. \A q \in Progs : Onwards(q) /\ Reads(q)
  <2>1. Onwards(p)
    BY DEF Onwards, Ends
  <2> QED
    BY <2>1 DEF Onwards, Reads
<1>11. Passes /\ BytesFit /\ Holds' \subseteq Holds
  BY <1>3, <1>9, PassesSame, SameBytes
<1>12. Plumbed'
  BY <1>5, <1>8, <1>10, <1>11, PlumbedQuiet
<1>13. ASSUME NEW i \in Inodes, bytes'[i] # bytes[i], NEW h \in Holds' PROVE ~IsFor(At(h), i)'
  <2>1. ~IsFor(At(h), i)
    BY <1>1, <1>2, <1>3, <1>13 DEF Drained
  <2>2. PICK fd : fd = At(h) /\ fd = At(h)'
    BY <1>7
  <2>3. ~IsFor(fd, i)'
    BY <1>5, <2>1, <2>2 DEF Steady
  <2> QED
    BY <2>2, <2>3 DEF IsFor
<1> QED
  BY <1>12, <1>13

LEMMA PlumbedCloses ==
  ASSUME Shape, TtyCounted, Clean, Plumbed, slip = {}, ~wild, slip' = {}, NEW p \in Progs,
         Close(p) \/ Kill(p)
  PROVE  /\ Plumbed'
         /\ \A i \in Inodes : bytes'[i] = bytes[i] \/ \A h \in Holds' : ~IsFor(At(h), i)'
<1>1. phase \in [Progs -> {"none", "new", "run", "ending", "zombie"}]
  BY DEF Shape, Typed, ProgsTyped
<1>2. CASE Close(p)
  <2>1. /\ UNCHANGED <<alloc, dir, kind, table, sh, feeder, got>>
        /\ phase' = phase \/ phase' = [phase EXCEPT ![p] = "zombie"]
    BY <1>2 DEF Close
  <2>2. phase'[p] \in {phase[p], "zombie"}
    BY <1>1, <2>1
  <2> QED
    BY <1>2, <2>1, <2>2, CloseFrees, PlumbedLeft
<1>3. CASE Kill(p)
  <2>1. /\ UNCHANGED <<alloc, dir, kind, table, sh, feeder, got>>
        /\ phase' = [phase EXCEPT ![p] = "zombie"]
    BY <1>3 DEF Kill
  <2>2. phase'[p] = "zombie"
    BY <1>1, <2>1
  <2>3. "twice" \notin slip'
    OBVIOUS
  <2>4. /\ phase[p] \in {"new", "run", "ending"} /\ slot[p] = 0
        /\ Left(FdCloseAll(p, slot[p], NSlots - 1))
        /\ NSlots - 1 \in slot[p] - 1 .. NSlots - 1
        /\ \A q \in Progs : q # p => slot'[q] = slot[q] /\ phase'[q] = phase[q]
        /\ \A s \in Slots : phase'[p] \in {"new", "run", "ending"} /\ s >= slot'[p] <=> s > NSlots - 1
    BY <1>3, <2>3, KillFrees
  <2>5. phase'[p] # phase[p]
    BY <2>2, <2>4
  <2> QED
    BY <2>1, <2>2, <2>4, <2>5, PlumbedLeft
<1> QED
  BY <1>2, <1>3

-----------------------------------------------------------------------------
(* A program is made *)

TtyForNone == \A i : ~IsFor(Tty, i)

LEMMA TtyIsNoFifo == Shape => TtyForNone
BY DEF Shape, Typed, KernelTyped, FilesTyped, FilesIn, TtyForNone, IsFor

LEMMA TtyForNoneNext == ASSUME Shape' PROVE \A i : ~IsFor(Tty, i)'
<1>1. TtyForNone'
  BY TtyIsNoFifo, PTL
<1> QED
  BY <1>1 DEF TtyForNone

\* Only the terminal is in the slots of the new one.
NewLeaves ==
  /\ \A h \in Holds' : Still(h, {}) \/ At(h)' = Tty
  /\ \A g \in FifoFds : files'[g] = files[g]
  /\ Steady({})
  /\ \A q \in Progs : phase'[q] = phase[q] \/ (phase[q] = "none" /\ phase'[q] = "new")
  /\ \A q \in Progs : phase[q] # "none" => table'[q] = table[q]
  /\ table'[Shell] = table[Shell]
  /\ Has(sh'.todo, "mkfifo") => phase[sh'.pid] = "none"
  /\ Has(sh'.todo, "prun") => table'[sh'.pid][0] = Tty /\ table'[sh'.pid][1] = Tty

LEMMA PcreateLeaves == ASSUME Shape, Pcreate PROVE NewLeaves
<1>1. /\ PcreateUnknown \/ \E p \in Progs :
           /\ PcreateKnown(p)
           /\ \A q \in Progs : phase[q] # "none" <=> q < p
      /\ UNCHANGED slot
  BY PcreateIs
<1>2. CASE PcreateUnknown
  <2>1. UNCHANGED <<files, table, phase>> /\ sh'.todo = IF PipedNow THEN <<"pcreate">> ELSE <<>>
    BY <1>2 DEF PcreateUnknown
  <2>2. Holds' \subseteq Holds
    BY <1>1, <2>1, HoldsLess
  <2>3. \A h \in Holds' : Still(h, {})
    BY <2>1, <2>2 DEF Still, At
  <2>4. Steady({})
    BY <2>1, SameSteady
  <2>5. \A x : Has(sh'.todo, x) => x = "pcreate"
    BY <2>1 DEF Has
  <2> QED
    BY <2>1, <2>3, <2>4, <2>5 DEF NewLeaves
<1>3. ASSUME NEW p \in Progs, PcreateKnown(p), \A q \in Progs : phase[q] # "none" <=> q < p
      PROVE  NewLeaves
  <2>1. /\ files' = NewFiles /\ table' = [table EXCEPT ![p] = NewTable]
        /\ phase' = [phase EXCEPT ![p] = "new"] /\ sh'.pid = p
    BY <1>3 DEF PcreateKnown
  <2>2. table \in Tables /\ phase \in [Progs -> {"none", "new", "run", "ending", "zombie"}] /\ Shell # p
        /\ phase[p] = "none"
    BY <1>3, Sizes DEF Shape, Typed, ProgsTyped, Shell
  <2>3. /\ \A g \in Fds : g # Tty => files'[g] = files[g]
        /\ files'[Tty].type = files[Tty].type /\ files'[Tty].data = files[Tty].data
    BY <2>1, NewFilesTyped DEF Shape, Typed
  <2>4. \A g \in FifoFds : g \in Fds /\ g # Tty
    BY Sizes DEF Fds, Tty
  <2>5. Steady({})
    BY <2>3, SameSteady
  <2>6. /\ table'[p][0] = Tty /\ table'[p][1] = Tty
        /\ \A s \in Slots : table'[p][s] \in {Tty, -1}
    BY <2>1, <2>2, Sizes DEF Tables, NewTable
  <2>7. \A q \in Progs \union {Shell} : q # p => table'[q] = table[q]
    BY <2>1, <2>2 DEF Tables
  <2>8. \A q \in Progs : phase'[q] = IF q = p THEN "new" ELSE phase[q]
    BY <2>1, <2>2
  <2>9. ASSUME NEW h \in Holds' PROVE Still(h, {}) \/ At(h)' = Tty
    <3>1. h[1] \in Progs /\ h[2] \in Slots /\ h = <<h[1], h[2]>>
      BY HoldsNext
    <3>2. <<h[1], h[2]>> \in Holds'
      BY <3>1, Zenon
    <3>3. CASE h[1] = p
      <4>1. table'[h[1]][h[2]] = Tty
        BY <2>6, <3>1, <3>2, <3>3, HoldsNext
      <4> QED
        BY <4>1 DEF At
    <3>4. CASE h[1] # p
      <4>1. table'[h[1]] = table[h[1]] /\ phase'[h[1]] = phase[h[1]]
        BY <2>7, <2>8, <3>1, <3>4
      <4>2. <<h[1], h[2]>> \in Holds
        BY <1>1, <3>1, <3>2, <4>1, HoldsIs, HoldsNext
      <4>3. h \in Holds
        BY <3>1, <4>2, Zenon
      <4> QED
        BY <4>1, <4>3 DEF Still, At
    <3> QED
      BY <3>3, <3>4
  <2> QED
    BY <2>1, <2>2, <2>3, <2>4, <2>5, <2>6, <2>7, <2>8, <2>9 DEF NewLeaves
<1> QED
  BY <1>1, <1>2, <1>3

LEMMA PcreateFeeds == ASSUME Shape, Pcreate PROVE Feeds /\ ~Ready' /\ sh'.stdin = sh.stdin /\ sh'.left = sh.left
<1>1. /\ sh.todo # <<>> /\ sh.todo[1] = "pcreate"
      /\ sh' \in [todo : Seq(Steps), pid : Progs \union {0}, fd : {sh.fd}, stdin : {sh.stdin},
                  left : {sh.left}, cad : {sh.cad}, in : BOOLEAN, out : BOOLEAN, piped : {PipedNow}]
      /\ PcreateUnknown \/ \E p \in Progs : PcreateKnown(p)
  BY PcreateIs
<1>2. sh'.stdin = sh.stdin /\ sh'.left = sh.left
  BY <1>1
<1>3. ~Ready'
  <2>1. CASE PcreateUnknown
    BY <2>1 DEF PcreateUnknown, Ready
  <2>2. CASE \E p \in Progs : PcreateKnown(p)
    BY <2>2, PcreateNotReady DEF PcreateKnown
  <2> QED
    BY <1>1, <2>1, <2>2
<1>4. \A x : Has(sh.todo, x) => x = "pcreate"
  <2>1. sh.todo \in Seq(Steps) /\ Ordered(sh.todo)
    BY ShellFacts DEF Shape, Planned
  <2>2. \A x : Has(sh.todo, x) => x = "pcreate" \/ Follows("pcreate", x)
    BY <1>1, <2>1, TailOrdered
  <2> QED
    BY <2>2 DEF Follows
<1>5. Has(sh.todo, "pcreate")
  BY <1>1, ShellFacts
<1>6. sh.stdin = 0 \/ sh.piped
  BY <1>5 DEF Shape, Planned
<1>7. Feeding' => Feeding
  BY <1>2, <1>4, <1>6 DEF Feeding
<1> QED
  BY <1>2, <1>3, <1>7 DEF Feeds

LEMMA PlumbedPcreate == ASSUME Shape, Plumbed, Pcreate PROVE Plumbed'
<1>1. UNCHANGED <<alloc, dir, kind, slip, bytes, slot, feeder, got, wild>>
  BY PcreateIs
<1>2. Feeds /\ ~Ready' /\ sh'.stdin = sh.stdin /\ sh'.left = sh.left
  BY PcreateFeeds
<1>3. NewLeaves
  BY PcreateLeaves
<1>4. \A l : PipeOf(l)' = PipeOf(l)
  BY <1>1, PipesNext
<1>5. Steady({}) /\ table'[Shell] = table[Shell]
  BY <1>3 DEF NewLeaves
<1>6. \A h \in Holds' : Still(h, {}) \/ At(h)' = Tty
  BY <1>3 DEF NewLeaves
<1>7. \A h \in Holds' : \A i : Still(h, {}) \/ ~IsFor(At(h), i)'
  <2>1. \A i : ~IsFor(Tty, i)'
    BY PcreateShape, TtyForNoneNext
  <2> QED
    BY <1>6, <2>1 DEF IsFor
<1>8. Tty \notin FifoFds
  BY Sizes DEF Tty
<1>9. Alive'
  <2>1. \A h \in Holds' : Still(h, {}) \/ InUse(At(h))'
    BY <1>7 DEF InUse
  <2>2. \A i \in Inodes : kind'[i] = "free" => bytes'[i] = <<>> /\ kind[i] = "free"
    BY <1>1 DEF Plumbed, Alive
  <2> QED
    BY <1>2, <1>5, <2>1, <2>2, AliveStays DEF Plumbed
<1>10. Joined'
  <2>1. ASSUME NEW l \in Progs, PipeOf(l)' # 0
        PROVE  /\ phase'[l] # "none"
               /\ Has(sh'.todo, "mkfifo") => l # sh'.pid
               /\ bytes'[PipeOf(l)'] \in Seq({l})
    <3>1. PipeOf(l) # 0 /\ Joins(l)
      BY <1>4, <2>1 DEF Plumbed, Joined
    <3>2. phase[l] # "none" /\ bytes[PipeOf(l)] \in Seq({l})
      BY <3>1 DEF Joins
    <3> QED
      BY <1>1, <1>3, <1>4, <3>2 DEF NewLeaves
  <2> QED
    BY <1>1, <1>2, <1>4, <1>5, <1>7, <2>1, JoinedStays DEF Plumbed
<1>11. Handed'
  BY <1>2 DEF Handed
<1>12. ToFeed'
  <2>1. LastPipe' = LastPipe /\ PipeOf(sh.left)' = PipeOf(sh.left)
    BY <1>1, <1>2, <1>5 DEF LastPipe, PipeOf, PipeName
  <2>2. \A h \in Holds' : Still(h, {}) \/ ~IsFor(At(h), PipeOf(sh.left))'
    BY <1>4, <1>7, <2>1 DEF IsFor
  <2> QED
    BY <1>2, <1>5, <2>1, <2>2, ToFeedStays DEF Plumbed
<1>13. Fed'
  <2>1. ASSUME NEW p \in Progs
        PROVE  /\ phase'[p] = "none" => phase[p] = "none"
               /\ phase'[p] \in {"none", "new"} => phase[p] \in {"none", "new"} /\ got'[p] = got[p]
               /\ feeder[p] # 0 => got'[p] \subseteq got[p] \union {feeder[p]}
               /\ feeder[p] # 0 /\ phase'[p] \in {"new", "run"} =>
                    phase[p] \in {"new", "run"} /\ table'[p][0] = table[p][0]
    <3>1. phase[p] = "none" => feeder[p] = 0
      BY DEF Plumbed, Fed, FedOf
    <3> QED
      BY <1>1, <1>3, <3>1 DEF NewLeaves
  <2> QED
    BY <1>1, <1>4, <1>5, <2>1, FedStays DEF Plumbed
<1>14. Given'
  BY <1>3, <1>8 DEF Given, NewLeaves
<1>15. Fresh'
  BY <1>1, <1>3 DEF NewLeaves, Plumbed, Fresh
<1>16. Uses(files, Holds)'
  <2>1. \A fd : IsPipe(fd) => IsPipe(fd)'
    BY <1>4, <1>5 DEF IsPipe, Steady
  <2>2. \A fd \in FifoFds : files'[fd].used = files[fd].used
    BY <1>3 DEF NewLeaves
  <2>3. Feeding' => Feeding /\ LastPipe' = LastPipe
    BY <1>2, <1>5 DEF Feeds, LastPipe
  <2>4. \A h \in Holds' : Still(h, {}) \/ At(h)' \notin FifoFds
    BY <1>6, <1>8
  <2> QED
    BY <1>2, <1>5, <2>1, <2>2, <2>3, <2>4, UsesStays DEF Plumbed
<1> QED
  BY <1>9, <1>10, <1>11, <1>12, <1>13, <1>14, <1>15, <1>16 DEF Plumbed

-----------------------------------------------------------------------------
(* Descriptors are given *)

\* fd was given for the inode i of a name.
NewIn(type, name, fd, i) ==
  /\ fd \in FdsOf(type) /\ ~Led(fd) /\ files[fd].used = 0
  /\ type = "fifo" => fd = alloc["fifo"].index /\ files'[fd].type = "fifo"
  /\ files'[fd].used = 1 /\ files'[fd].data = i
  /\ i \in Inodes /\ dir'[name] = i /\ kind'[i] # "free"
  /\ IF dir[name] = 0 THEN kind[i] = "free" ELSE dir[name] = i
  /\ \A n \in Names : n # name => dir'[n] = dir[n] /\ dir[n] # i
\* None was given; one that nothing leads to may have changed.
NotIn(fd) ==
  /\ fd \in FileFds \union {-1} /\ ~Led(fd) /\ ~Pending(fd)
  /\ \A i : ~IsFor(fd, i)'
  /\ UNCHANGED dir
Others(fd) ==
  /\ \A g \in Fds : g # fd => files'[g] = files[g]
  /\ \A j \in Inodes : kind'[j] = "free" => kind[j] = "free"
  /\ Fresh'

LEMMA AllocatedFresh ==
  ASSUME AllocIn(alloc), Fresh
  PROVE  /\ Allocated("file").alloc["fifo"] = alloc["fifo"]
         /\ LET a == Allocated("fifo") IN
            a.fd # -1 => /\ a.alloc["fifo"].index = a.alloc["fifo"].size + 1
                         /\ a.alloc["fifo"].index = a.fd + 1 /\ a.fd \in Nat
<1> DEFINE f == alloc["fifo"]
<1>1. /\ f.index \in Nat /\ f.size \in Nat /\ f.index = f.size + 1
      /\ alloc \in [{"fifo", "file"} -> Alloc]
      /\ First("fifo") = 1 /\ Many("fifo") = NFifos /\ NFifos \in Nat
  BY DescriptorsAssumption DEF AllocIn, Alloc, Fresh, First, Many
<1>2. Allocated("file").alloc["fifo"] = f
  BY <1>1 DEF Allocated
<1>3. CASE f.size + 1 = NFifos - 1
  BY <1>1, <1>2, <1>3 DEF Allocated
<1>4. CASE f.size + 1 # NFifos - 1
  <2>1. f.index + 1 # First("fifo") + Many("fifo") - 1
    BY <1>1, <1>4
  <2>2. Allocated("fifo") = [fd |-> f.index,
                             alloc |-> [alloc EXCEPT !["fifo"] = [index |-> f.index + 1, size |-> f.size + 1]]]
    BY <1>1, <1>4, <2>1 DEF Allocated
  <2>3. Allocated("fifo").alloc["fifo"] = [index |-> f.index + 1, size |-> f.size + 1]
    BY <1>1, <2>2
  <2> QED
    BY <1>1, <1>2, <2>2, <2>3
<1> QED
  BY <1>3, <1>4

LEMMA FreshStays ==
  ASSUME KernelTyped, Fresh, NEW type \in {"fifo", "file"}, alloc' = Allocated(type).alloc,
         NEW fd, fd \in FileFds \union {-1} \/ (type = "fifo" /\ fd = Allocated(type).fd /\ fd # -1),
         type = "fifo" => Allocated(type).fd # -1,
         \A g \in Fds : g # fd => files'[g] = files[g]
  PROVE  Fresh'
<1>1. FifoFds \subseteq Fds /\ FifoFds \subseteq Nat /\ FifoFds \intersect FileFds = {} /\ -1 \notin FifoFds
  BY Sizes DEF Fds
<1>2. AllocIn(alloc)
  BY DEF KernelTyped, AllocTyped
<1>3. CASE type = "file"
  <2>1. alloc'["fifo"] = alloc["fifo"]
    BY <1>2, <1>3, AllocatedFresh
  <2>2. \A g \in FifoFds : files'[g] = files[g]
    BY <1>1, <1>3
  <2> QED
    BY <2>1, <2>2 DEF Fresh
<1>4. CASE type = "fifo"
  <2> DEFINE a == Allocated("fifo")
  <2>1. /\ a.alloc["fifo"].index = a.alloc["fifo"].size + 1
        /\ a.alloc["fifo"].index = a.fd + 1 /\ a.fd \in Nat
    BY <1>2, <1>4, AllocatedFresh
  <2>2. a.fd = alloc["fifo"].index
    BY <1>2, <1>4, AllocatedGives
  <2>3. alloc'["fifo"] = a.alloc["fifo"]
    BY <1>4
  <2> HIDE DEF a
  <2>4. ASSUME NEW g \in FifoFds, g >= alloc'["fifo"].index PROVE files'[g].type # "fifo"
    <3>1. g \in Nat /\ g # a.fd /\ g >= a.fd
      BY <1>1, <2>1, <2>3, <2>4
    <3>2. g # fd
      BY <1>1, <1>4, <3>1 DEF a
    <3>3. files[g].type # "fifo"
      BY <2>2, <3>1 DEF Fresh
    <3> QED
      BY <1>1, <3>2, <3>3
  <2> QED
    BY <2>1, <2>3, <2>4 DEF Fresh
<1> QED
  BY <1>3, <1>4

LEMMA OpenNew ==
  ASSUME KernelTyped, Named, Clean, Fresh, NEW name \in Names, NEW new \in BOOLEAN,
         NEW type \in {"fifo", "file"}, type = "fifo" => new,
         NEW r \in FdOpen(type, name, new), r.slip = {}, Becomes(r)
  PROVE  \/ \E i \in Inodes : NewIn(type, name, r.fd, i) /\ Others(r.fd)
         \/ /\ r.fd \in {-1, ERR_PERMS, ERR_NO_EXIST}
            /\ type = "fifo" => r.fd = ERR_PERMS
            /\ type = "file" => \E fd : NotIn(fd) /\ Others(fd)
<1>0. PICK fd : fd = Allocated(type).fd
  OBVIOUS
<1>1. /\ NoneLeft(type, r) \/ Shared(type, r) \/ Made(type, name, new, r)
      /\ r.alloc = Allocated(type).alloc
      /\ fd \in FdsOf(type) \union {-1} /\ (fd # -1 => fd = alloc[type].index)
  BY <1>0, FdOpenCases, AllocatedGives DEF KernelTyped, AllocTyped
<1>2. files' = r.files /\ alloc' = Allocated(type).alloc /\ dir' = r.dir /\ kind' = r.kind
  BY <1>1 DEF Becomes
<1>3. /\ files \in [Fds -> File] /\ FileFds \subseteq Fds /\ FifoFds \subseteq Fds /\ -1 \notin Fds
      /\ dir \in Dirs /\ kind \in Kinds /\ FdsOf(type) \subseteq Fds
  BY Sizes DEF KernelTyped, FilesTyped, FilesIn, Fds, FdsOf
<1>4. CASE NoneLeft(type, r)
  <2>1. type = "file" /\ UNCHANGED <<files, dir, kind>> /\ r.fd = -1
    BY <1>2, <1>4 DEF NoneLeft
  <2>2. ~Led(-1) /\ ~Pending(-1)
    <3>1. ~Led(-1)
      BY DEF Led, Holds
    <3>2. ~Pending(-1)
      BY <1>3 DEF Clean, Slotted, Pending, Leads, LeadsIn
    <3> QED
      BY <3>1, <3>2
  <2>3. NotIn(-1)
    BY <1>3, <2>1, <2>2 DEF NotIn, IsFor
  <2>4. Fresh'
    BY <1>2, <2>1, FreshStays
  <2>5. Others(-1)
    BY <2>1, <2>4 DEF Others
  <2> QED
    BY <2>1, <2>3, <2>5
<1>5. CASE Shared(type, r)
  BY <1>5 DEF Shared
<1>6. CASE Made(type, name, new, r)
  <2>1. fd # -1 /\ ~(files[fd].used > 0) /\ fd \in FdsOf(type) /\ fd = alloc[type].index /\ fd \in Fds
    BY <1>0, <1>1, <1>3, <1>6 DEF Made
  <2>2. files[fd].used = 0
    <3>1. files[fd] \in File
      BY <1>3, <2>1
    <3> QED
      BY <2>1, <3>1 DEF File
  <2>3. ~Led(fd)
    BY <1>0, <1>6 DEF Made
  <2>4. PICK o \in FsOpen(name, new, type) :
          /\ r.fd = IF o.ino > 0 THEN fd ELSE o.ino
          /\ r.files = [files EXCEPT ![fd] = OpenedAs(type, o)]
          /\ r.dir = o.dir /\ r.kind = o.kind
    BY <1>0, <1>6 DEF Made
  <2>5. \A g \in Fds : g # fd => files'[g] = files[g]
    BY <1>2, <1>3, <2>4
  <2>6. files'[fd] = OpenedAs(type, o)
    BY <1>2, <1>3, <2>1, <2>4
  <2>7. Fresh'
    BY <1>0, <1>2, <2>1, <2>5, FreshStays DEF FdsOf
  <2>8. /\ o.ino \in Inodes \union {ERR_PERMS, ERR_NO_EXIST}
        /\ o.ino = ERR_NO_EXIST => ~new
        /\ o.ino \in Inodes => o.dir[name] = o.ino
        /\ \/ o.dir = dir /\ o.kind = kind
           \/ /\ o.ino \in Inodes /\ dir[name] = 0 /\ kind[o.ino] = "free"
              /\ o.dir = [dir EXCEPT ![name] = o.ino]
              /\ o.kind = [kind EXCEPT ![o.ino] = type]
    <3>1. dir \in Dirs /\ kind \in Kinds
      BY <1>3
    <3> QED
      BY <3>1, FsOpenGives
  <2>9. \/ o.dir = dir /\ o.kind = kind
        \/ /\ o.ino \in Inodes /\ dir[name] = 0 /\ kind[o.ino] = "free"
           /\ o.dir = [dir EXCEPT ![name] = o.ino]
           /\ o.kind = [kind EXCEPT ![o.ino] = type]
    BY <2>8
  <2>10. (o.ino > 0 => o.ino \in Inodes) /\ (o.ino \in Inodes => o.ino > 0)
    BY <1>3, OpenedAsTyped
  <2>11. dir' = o.dir /\ kind' = o.kind
    BY <1>2, <2>4
  <2>12. \A j \in Inodes : kind'[j] = "free" => kind[j] = "free"
    BY <1>3, <2>9, <2>11 DEF Kinds
  <2>13. Others(fd)
    BY <2>5, <2>7, <2>12 DEF Others
  <2>14. CASE o.ino > 0
    <3> DEFINE i == o.ino
    <3>1. r.fd = fd /\ i \in Inodes /\ dir'[name] = i
      BY <2>4, <2>8, <2>10, <2>11, <2>14
    <3>2. files'[fd].used = 1 /\ files'[fd].data = i /\ (type = "fifo" => files'[fd].type = "fifo")
      BY <2>6, <2>14 DEF OpenedAs
    <3>3. NamedIn(dir', kind')
      BY <1>2, FdOpenKeeps DEF OpenKeeps
    <3>4. i # 0
      BY <3>1, Sizes
    <3>5. kind'[i] # "free"
      BY <3>1, <3>3, <3>4 DEF NamedIn
    <3>6. ASSUME NEW n \in Names, n # name PROVE dir'[n] = dir[n] /\ dir[n] # i
      <4>1. dir'[n] = dir[n]
        BY <1>3, <2>9, <2>11, <3>6 DEF Dirs
      <4>2. dir'[n] # i
        BY <3>1, <3>3, <3>4, <3>6 DEF NamedIn
      <4> QED
        BY <4>1, <4>2
    <3>7. IF dir[name] = 0 THEN kind[i] = "free" ELSE dir[name] = i
      BY <2>9, <2>11, <3>1, <3>4
    <3>8. NewIn(type, name, fd, i)
      BY <2>1, <2>2, <2>3, <3>1, <3>2, <3>5, <3>6, <3>7 DEF NewIn
    <3> QED
      BY <2>13, <3>1, <3>8
  <2>15. CASE ~(o.ino > 0)
    <3>1. o.ino \in {ERR_PERMS, ERR_NO_EXIST} /\ (o.ino = ERR_NO_EXIST => ~new) /\ o.ino \notin Inodes
      BY <2>8, <2>10, <2>15
    <3>2. r.fd = o.ino
      BY <2>4, <2>15
    <3>3. CASE type = "fifo"
      BY <3>1, <3>2, <3>3
    <3>4. CASE type = "file"
      <4>1. fd \in FileFds
        BY <2>1, <3>4 DEF FdsOf
      <4>2. ~Pending(fd)
        BY <2>2, <4>1 DEF Clean, OneEach
      <4>3. files'[fd].type = "file"
        BY <2>6, <2>15, <3>4 DEF OpenedAs
      <4>4. NotIn(fd)
        BY <2>3, <2>9, <2>11, <3>1, <4>1, <4>2, <4>3 DEF NotIn, IsFor
      <4> QED
        BY <2>13, <3>1, <3>2, <3>4, <4>4
    <3> QED
      BY <3>3, <3>4
  <2> QED
    BY <2>14, <2>15
<1> QED
  BY <1>1, <1>4, <1>5, <1>6

\* Only fd changed, which is no pipe's, and it is in at most one slot, or the
\* shell is to duplicate it.
LEMMA PlumbedAdds ==
  ASSUME Shape, Plumbed, NEW fd, Steady({fd}), Passes, UNCHANGED <<bytes, phase, feeder, got>>,
         \A l \in Progs : PipeOf(l)' = PipeOf(l) /\ (PipeOf(l) # 0 => ~IsFor(fd, PipeOf(l))'),
         \A j \in Inodes : kind'[j] = "free" => kind[j] = "free" /\ ~IsFor(fd, j)',
         \A h \in Holds' : Still(h, {fd}) \/ At(h)' = fd,
         \A g, h \in Holds' : At(g)' = fd /\ At(h)' = fd => g = h,
         Ready' => (Waits({fd}) /\ UNCHANGED sh) \/ (Duplicated' = fd /\ fd \notin FifoFds),
         Feeding' => LastPipe' = LastPipe /\ LastPipe # fd,
         \A q \in Progs : feeder[q] # 0 /\ phase[q] \in {"new", "run"} =>
           table'[q][0] = table[q][0] /\ table[q][0] # fd,
         Has(sh.todo, "prun") => \A s \in {0, 1} :
           table'[sh.pid][s] = table[sh.pid][s] \/ table'[sh.pid][s] \notin FifoFds,
         \A g \in FifoFds : files'[g].used = IF g = fd THEN 1 ELSE files[g].used,
         Fresh'
  PROVE  Plumbed'
<1> DEFINE X == {fd}
<1>1. \A j \in Inodes : kind'[j] = "free" => ~IsFor(fd, j)'
  OBVIOUS
<1>2. ASSUME NEW h \in Holds' PROVE Still(h, X) \/ InUse(At(h))'
  BY <1>1 DEF InUse, IsFor
<1>3. Ready' => Waits(X) \/ InUse(Duplicated)'
  BY <1>1 DEF InUse, IsFor
<1>4. Alive'
  <2>1. \A i \in Inodes : kind'[i] = "free" => bytes'[i] = <<>> /\ kind[i] = "free"
    BY DEF Plumbed, Alive
  <2> HIDE DEF X
  <2>2. Steady(X)
    BY DEF X
  <2> QED
    BY <1>2, <1>3, <2>1, <2>2, AliveStays DEF Plumbed
<1>5. Joined'
  <2>1. ASSUME NEW l \in Progs, PipeOf(l)' # 0
        PROVE  /\ PipeOf(l)' = PipeOf(l) /\ phase'[l] # "none"
               /\ Has(sh'.todo, "mkfifo") => l # sh'.pid
               /\ bytes'[PipeOf(l)'] \in Seq({l})
               /\ \A h \in Holds' : Still(h, X) \/ ~IsFor(At(h), PipeOf(l))'
               /\ Ready' => Waits(X) \/ ~IsFor(Duplicated, PipeOf(l))'
    <3>1. PipeOf(l)' = PipeOf(l) /\ PipeOf(l) # 0 /\ ~IsFor(fd, PipeOf(l))'
      BY <2>1
    <3>2. Joins(l)
      BY <3>1 DEF Plumbed, Joined
    <3>3. phase'[l] # "none" /\ bytes'[PipeOf(l)'] \in Seq({l})
      BY <3>1, <3>2 DEF Joins
    <3>4. Has(sh'.todo, "mkfifo") => l # sh'.pid
      BY <3>2 DEF Joins, Passes, GoesOn, Before
    <3>5. \A h \in Holds' : Still(h, X) \/ ~IsFor(At(h), PipeOf(l))'
      BY <3>1 DEF IsFor
    <3>6. Ready' => Waits(X) \/ ~IsFor(Duplicated, PipeOf(l))'
      BY <3>1 DEF IsFor
    <3> QED
      BY <3>1, <3>3, <3>4, <3>5, <3>6
  <2> HIDE DEF X
  <2>2. Steady(X) /\ UNCHANGED feeder
    BY DEF X
  <2> QED
    BY <2>1, <2>2, JoinedStays DEF Plumbed
<1>6. Handed'
  BY HandedStays DEF Plumbed
<1>7. ToFeed'
  <2>1. ASSUME Feeding'
        PROVE  /\ LastPipe' = LastPipe /\ LastPipe \notin X
               /\ PipeOf(sh.left)' = PipeOf(sh.left)
               /\ \A h \in Holds' : Still(h, X) \/ ~IsFor(At(h), PipeOf(sh.left))'
    <3>1. sh'.left = sh.left /\ Feeding
      BY <2>1 DEF Passes, Feeds
    <3>2. sh.left \in Progs /\ PipeOf(sh.left) # 0
      BY <3>1 DEF Plumbed, ToFeed
    <3>3. PICK l \in Progs : l = sh.left /\ l = sh'.left
      BY <3>1, <3>2
    <3>4. PipeOf(l)' = PipeOf(l) /\ PipeOf(l) # 0 /\ ~IsFor(fd, PipeOf(l))'
      BY <3>2, <3>3
    <3>5. PipeOf(sh.left)' = PipeOf(l)'
      BY <3>3 DEF PipeOf, PipeName
    <3>6. \A h \in Holds' : Still(h, X) \/ ~IsFor(At(h), PipeOf(sh.left))'
      BY <3>4, <3>5 DEF IsFor
    <3> QED
      BY <2>1, <3>3, <3>4, <3>5, <3>6
  <2> HIDE DEF X
  <2>2. Steady(X) /\ Feeds
    BY DEF X, Passes
  <2> QED
    BY <2>1, <2>2, ToFeedStays DEF Plumbed
<1>8. Fed'
  <2>1. ASSUME NEW p \in Progs, feeder[p] # 0, phase'[p] \in {"new", "run"}
        PROVE  PipeOf(feeder[p])' = PipeOf(feeder[p])
    <3>1. PICK l \in Progs : l = feeder[p] /\ l = feeder'[p]
      BY <2>1 DEF Shape, Typed, ProgsTyped
    <3>2. PipeOf(l)' = PipeOf(l)
      OBVIOUS
    <3> QED
      BY <3>1, <3>2 DEF PipeOf, PipeName
  <2> QED
    BY <2>1, FedStays DEF Plumbed
<1>9. Given'
  BY GivenStays DEF Plumbed, Passes
<1>10. Uses(files, Holds)'
  <2>1. ASSUME NEW g \in FifoFds, g \notin X, IsPipe(g) PROVE IsPipe(g)'
    <3>1. PICK l \in Progs : PipeOf(l) # 0 /\ IsFor(g, PipeOf(l))
      BY <2>1 DEF IsPipe
    <3>2. PICK n : n = PipeOf(l) /\ n = PipeOf(l)'
      OBVIOUS
    <3>3. IsFor(g, n)'
      BY <2>1, <3>1, <3>2 DEF Steady
    <3> QED
      BY <3>1, <3>2, <3>3 DEF IsPipe, IsFor
  <2>2. Feeding' => Feeding /\ LastPipe' = LastPipe
    BY DEF Passes, Feeds
  <2> QED
    BY <2>1, <2>2, UsesStays DEF Plumbed
<1> QED
  BY <1>4, <1>5, <1>6, <1>7, <1>8, <1>9, <1>10 DEF Plumbed

\* What an open leaves of everything else
Settles(fd, p, u, name) ==
  /\ Steady({fd})
  /\ \A h \in Holds' : Still(h, {fd}) \/ (h = <<p, u>> /\ At(h)' = fd)
  /\ Ready => Duplicated # fd
  /\ \A q \in Progs \union {Shell} : q # p => table'[q] = table[q]
  /\ sh.stdin # 0 => table'[Shell][sh.stdin] = LastPipe /\ LastPipe # fd
  /\ \A l \in Progs : l # name \/ PipeOf(l) # 0 => PipeOf(l)' = PipeOf(l)
  /\ \A l \in Progs : l # name /\ PipeOf(l) # 0 => ~IsFor(fd, PipeOf(l))'
  /\ \A j \in Inodes : kind'[j] = "free" => kind[j] = "free" /\ ~IsFor(fd, j)'
  /\ \A q \in Progs : feeder[q] # 0 /\ phase[q] \in {"new", "run"} =>
       table'[q][0] = table[q][0] /\ table[q][0] # fd
  /\ \A g \in FifoFds : files'[g].used = IF g = fd THEN 1 ELSE files[g].used

LEMMA HeldStays ==
  ASSUME UNCHANGED <<phase, slot>>, NEW h \in Holds', table'[h[1]][h[2]] = table[h[1]][h[2]]
  PROVE  h \in Holds
<1>1. h[1] \in Progs /\ h[2] \in Slots /\ h = <<h[1], h[2]>>
  BY HoldsNext
<1>2. <<h[1], h[2]>> \in Holds'
  BY <1>1, Zenon
<1>3. <<h[1], h[2]>> \in Holds
  BY <1>1, <1>2, HoldsIs, HoldsNext
<1> QED
  BY <1>1, <1>3, Zenon

LEMMA OthersSteady == ASSUME NEW fd, Others(fd) PROVE Steady({fd})
BY DEF Others, Steady, IsFor

\* A pipe that a program reads from is held by it.
LEMMA FedHolds ==
  ASSUME Shape, Plumbed, NEW q \in Progs, feeder[q] # 0, phase[q] \in {"new", "run"}
  PROVE  table[q][0] \in FifoFds /\ Led(table[q][0])
<1>1. table[q][0] \in FifoFds
  BY DEF Plumbed, Fed, FedOf
<1>2. <<q, 0>> \in Holds /\ At(<<q, 0>>) = table[q][0]
  BY <1>1, Sizes, RunningHolds DEF Fds
<1> QED
  BY <1>1, <1>2 DEF Led, At

LEMMA NewSettles ==
  ASSUME Shape, Clean, Plumbed, NEW type \in {"fifo", "file"}, NEW name \in Names, NEW fd, NEW i,
         NewIn(type, name, fd, i), Others(fd), UNCHANGED <<phase, slot>>,
         NEW p \in Progs \union {Shell}, NEW u \in Slots, table[p][u] = -1,
         table' = [table EXCEPT ![p][u] = fd]
  PROVE  Settles(fd, p, u, name)
<1>1. /\ table \in Tables /\ FifoFds \intersect FileFds = {} /\ -1 \notin Fds /\ FifoFds \subseteq Fds
      /\ FileFds \subseteq Fds /\ 0 \in Slots /\ fd \in FifoFds \union FileFds /\ 0 \notin Inodes
  BY Sizes DEF Shape, Typed, ProgsTyped, Fds, NewIn, FdsOf
<1>2. /\ table'[p][u] = fd
      /\ \A q \in Progs \union {Shell}, s \in Slots : q # p \/ s # u => table'[q][s] = table[q][s]
  BY <1>1 DEF Tables
<1>3. \A q \in Progs \union {Shell} : q # p => table'[q] = table[q]
  BY <1>1 DEF Tables
<1>4. ~Led(fd) /\ files[fd].used = 0 /\ files'[fd].used = 1
  BY DEF NewIn
<1>5. ASSUME NEW h \in Holds' PROVE Still(h, {fd}) \/ (h = <<p, u>> /\ At(h)' = fd)
  <2>1. h[1] \in Progs /\ h[2] \in Slots /\ h = <<h[1], h[2]>>
    BY HoldsNext
  <2>2. CASE h[1] = p /\ h[2] = u
    BY <1>2, <2>1, <2>2 DEF At
  <2>3. CASE ~(h[1] = p /\ h[2] = u)
    <3>1. table'[h[1]][h[2]] = table[h[1]][h[2]]
      BY <1>2, <2>1, <2>3
    <3>2. h \in Holds
      BY <3>1, HeldStays
    <3> QED
      BY <1>4, <3>1, <3>2 DEF Still, At, Led
  <2> QED
    BY <2>2, <2>3
<1>6. Ready => Duplicated # fd
  <2>1. CASE fd \in FifoFds
    BY <1>4, <2>1 DEF Plumbed, Uses
  <2>2. CASE fd \in FileFds
    BY <1>4, <2>2 DEF Clean, OneEach, Pending, Duplicated
  <2> QED
    BY <1>1, <2>1, <2>2
<1>7. sh.stdin # 0 => table'[Shell][sh.stdin] = LastPipe /\ LastPipe # fd
  <2>1. SUFFICES ASSUME sh.stdin # 0 PROVE table'[Shell][sh.stdin] = LastPipe /\ LastPipe # fd
    OBVIOUS
  <2>2. sh.stdin \in Slots /\ LastPipe \in FifoFds /\ Leads(LastPipe)
    BY <2>1 DEF Clean, Slotted, LastPipe
  <2>3. files[LastPipe].type = "fifo"
    BY <1>1, <2>2 DEF Leads, LeadsIn
  <2>4. LastPipe # fd
    <3>1. CASE type = "fifo"
      <4>1. fd = alloc["fifo"].index /\ fd \in FifoFds /\ fd \in Nat
        BY <3>1, Sizes DEF NewIn, FdsOf
      <4>2. files[fd].type # "fifo"
        BY <4>1 DEF Plumbed, Fresh
      <4> QED
        BY <2>3, <4>2
    <3>2. CASE type = "file"
      BY <1>1, <2>2, <3>2 DEF NewIn, FdsOf
    <3> QED
      BY <3>1, <3>2
  <2>5. LastPipe # -1
    BY <1>1, <2>2
  <2>6. Shell # p \/ sh.stdin # u
    BY <2>5 DEF LastPipe
  <2> QED
    BY <1>2, <2>2, <2>4, <2>6 DEF LastPipe
<1>8. \A l \in Progs : l # name \/ PipeOf(l) # 0 => PipeOf(l)' = PipeOf(l)
  BY Sizes DEF NewIn, PipeOf, PipeName
<1>9. \A l \in Progs : l # name /\ PipeOf(l) # 0 => ~IsFor(fd, PipeOf(l))'
  <2>1. SUFFICES ASSUME NEW l \in Progs, l # name PROVE ~IsFor(fd, PipeOf(l))'
    OBVIOUS
  <2>2. files'[fd].data = i /\ dir'[l] = dir[l] /\ dir[l] # i
    BY <2>1, Sizes DEF NewIn
  <2> QED
    BY <2>2 DEF IsFor, PipeOf, PipeName
<1>10. \A j \in Inodes : kind'[j] = "free" => kind[j] = "free" /\ ~IsFor(fd, j)'
  <2>1. files'[fd].data = i /\ kind'[i] # "free"
    BY DEF NewIn
  <2> QED
    BY <2>1 DEF IsFor, Others
<1>11. ASSUME NEW q \in Progs, feeder[q] # 0, phase[q] \in {"new", "run"}
       PROVE  table'[q][0] = table[q][0] /\ table[q][0] # fd
  <2>1. table[q][0] \in FifoFds /\ Led(table[q][0])
    BY <1>11, FedHolds
  <2>2. table[q][0] # fd /\ table[q][0] # -1
    BY <1>1, <1>4, <2>1
  <2> QED
    BY <1>1, <1>2, <2>2
<1>12. \A g \in FifoFds : files'[g].used = IF g = fd THEN 1 ELSE files[g].used
  BY <1>1, <1>4 DEF Others
<1> QED
  BY <1>3, <1>5, <1>6, <1>7, <1>8, <1>9, <1>10, <1>11, <1>12, OthersSteady DEF Settles

LEMMA NoneSettles ==
  ASSUME Shape, Clean, Plumbed, NEW fd, NotIn(fd), Others(fd), UNCHANGED <<table, phase, slot>>
  PROVE  /\ Settles(fd, 0, 0, 0)
         /\ \A h \in Holds' : Still(h, {fd})
<1>1. FifoFds \intersect FileFds = {} /\ -1 \notin FifoFds /\ FifoFds \subseteq Fds /\ fd \notin FifoFds
  BY Sizes DEF Fds, NotIn
<1>2. ~Led(fd) /\ ~Pending(fd)
  BY DEF NotIn
<1>3. ASSUME NEW h \in Holds' PROVE Still(h, {fd})
  <2>1. h \in Holds
    BY <1>3, HeldStays
  <2> QED
    BY <1>2, <2>1 DEF Still, At, Led
<1>4. Ready => Duplicated # fd
  BY <1>2 DEF Pending, Duplicated
<1>5. sh.stdin # 0 => table'[Shell][sh.stdin] = LastPipe /\ LastPipe # fd
  BY <1>1 DEF Clean, Slotted, LastPipe
<1>6. \A l : PipeOf(l)' = PipeOf(l)
  BY PipesNext DEF NotIn
<1>7. \A j \in Inodes : kind'[j] = "free" => kind[j] = "free"
  BY DEF Others
<1>8. \A j : ~IsFor(fd, j)'
  BY DEF NotIn
<1>9. ASSUME NEW l \in Progs PROVE ~IsFor(fd, PipeOf(l))'
  BY <1>8 DEF IsFor
<1>10. \A q \in Progs : feeder[q] # 0 /\ phase[q] \in {"new", "run"} => table[q][0] # fd
  BY <1>1, FedHolds
<1>11. \A g \in FifoFds : files'[g].used = IF g = fd THEN 1 ELSE files[g].used
  BY <1>1 DEF Others
<1> QED
  BY <1>3, <1>4, <1>5, <1>6, <1>7, <1>8, <1>9, <1>10, <1>11, OthersSteady DEF Settles

\* What follows for an open of a program, or of a file by the shell
LEMMA PlumbedSettles ==
  ASSUME Shape, Plumbed, NEW fd, NEW p, NEW u, NEW name, Settles(fd, p, u, name), Fresh',
         name \notin Progs, UNCHANGED <<bytes, phase, feeder, got>>, Passes,
         Has(sh.todo, "prun") => p # sh.pid,
         \/ ~Ready'
         \/ UNCHANGED sh /\ (Ready => table'[Shell][sh.fd] = Duplicated)
         \/ Duplicated' = fd /\ fd \notin FifoFds
  PROVE  Plumbed'
<1>1. \A l \in Progs : PipeOf(l)' = PipeOf(l) /\ (PipeOf(l) # 0 => ~IsFor(fd, PipeOf(l))')
  BY DEF Settles
<1>2. \A g, h \in Holds' : At(g)' = fd /\ At(h)' = fd => g = h
  BY DEF Settles, Still
<1>3. Ready' => (Waits({fd}) /\ UNCHANGED sh) \/ (Duplicated' = fd /\ fd \notin FifoFds)
  BY DEF Settles, Waits, Ready, Duplicated
<1>4. Feeding' => LastPipe' = LastPipe /\ LastPipe # fd
  <2>1. Feeding' => Feeding /\ sh'.stdin = sh.stdin
    BY DEF Passes, Feeds
  <2>2. Feeding => sh.stdin # 0
    BY DEF Feeding
  <2> QED
    BY <2>1, <2>2 DEF Settles, LastPipe
<1>5. Has(sh.todo, "prun") => \A s \in {0, 1} : table'[sh.pid][s] = table[sh.pid][s]
  BY DEF Settles, Shape, Planned
<1> QED
  BY <1>1, <1>2, <1>3, <1>4, <1>5, PlumbedAdds DEF Settles

LEMMA PlumbedProgOpens ==
  ASSUME Shape, Clean, Plumbed, slip' = {}, NEW p \in Progs, ProgOpens(p) \/ ProgMkfifo(p)
  PROVE  Plumbed'
<1>1. /\ KernelTyped /\ Named /\ Fresh /\ table \in Tables /\ UNCHANGED <<bytes, phase, slot, sh, feeder, got>>
      /\ FreeSlot(p) \in Slots /\ table[p][FreeSlot(p)] = -1 /\ phase[p] = "run"
  <2>1. ~Loops(p) /\ UNCHANGED <<bytes, phase, slot, sh, feeder, got>> /\ phase[p] = "run"
    BY DEF ProgOpens, ProgMkfifo, Opens, Running
  <2> QED
    BY <2>1, FreeSlotIs DEF Shape, Typed, ProgsTyped, KernelTyped, Plumbed
<1>2. Passes /\ p # Shell
  BY <1>1, PassesSame, Sizes DEF Shell
<1>3. Has(sh.todo, "prun") => p # sh.pid
  BY <1>1 DEF Shape, Planned, Unrun
<1>4. ASSUME NEW type \in {"fifo", "file"}, NEW name \in {NamedFifo, DataFile}, NEW new \in BOOLEAN,
             NEW r \in FdOpen(type, name, new), type = "fifo" => new,
             r.slip = {}, Becomes(r), type = "fifo" => r.fd # ERR_PERMS,
             r.fd \in Fds => table' = [table EXCEPT ![p][FreeSlot(p)] = r.fd],
             r.fd \in {-1, ERR_PERMS, ERR_NO_EXIST} /\ type = "file" => table' = table
      PROVE  Plumbed'
  <2>1. name \in Names /\ name \notin Progs
    BY Sizes
  <2>2. \/ \E i \in Inodes : NewIn(type, name, r.fd, i) /\ Others(r.fd)
        \/ r.fd \in {-1, ERR_PERMS, ERR_NO_EXIST} /\ type = "file" /\ \E fd : NotIn(fd) /\ Others(fd)
    BY <1>1, <1>4, <2>1, OpenNew
  <2>3. CASE \E i \in Inodes : NewIn(type, name, r.fd, i) /\ Others(r.fd)
    <3>1. PICK i \in Inodes : NewIn(type, name, r.fd, i) /\ Others(r.fd)
      BY <2>3
    <3>2. r.fd \in Fds
      BY <3>1 DEF NewIn, FdsOf, Fds
    <3>3. table' = [table EXCEPT ![p][FreeSlot(p)] = r.fd]
      BY <1>4, <3>2
    <3>4. PICK u \in Slots : u = FreeSlot(p)
      BY <1>1
    <3>5. Settles(r.fd, p, u, name)
      BY <1>1, <2>1, <3>1, <3>3, <3>4, NewSettles
    <3>6. Ready => table'[Shell][sh.fd] = Duplicated
      BY <1>2, <3>5 DEF Settles, Duplicated
    <3> QED
      BY <1>1, <1>2, <1>3, <2>1, <3>1, <3>5, <3>6, PlumbedSettles DEF Others
  <2>4. CASE r.fd \in {-1, ERR_PERMS, ERR_NO_EXIST} /\ type = "file" /\ \E fd : NotIn(fd) /\ Others(fd)
    <3>1. table' = table
      BY <1>4, <2>4
    <3>2. PICK fd : NotIn(fd) /\ Others(fd)
      BY <2>4
    <3>3. Settles(fd, 0, 0, 0)
      BY <1>1, <3>1, <3>2, NoneSettles
    <3>4. 0 \notin Progs
      BY Sizes
    <3>5. Has(sh.todo, "prun") => 0 # sh.pid
      BY <3>4 DEF Shape, Planned
    <3>6. Ready => table'[Shell][sh.fd] = Duplicated
      BY <3>1 DEF Duplicated
    <3> QED
      BY <1>1, <1>2, <3>2, <3>3, <3>4, <3>5, <3>6, PlumbedSettles DEF Others
  <2> QED
    BY <2>2, <2>3, <2>4
<1>5. \A g \in Fds : g >= 0 /\ g # -1
  BY Sizes
<1>6. CASE ProgOpens(p)
  <2>1. PICK name \in {NamedFifo, DataFile}, new \in BOOLEAN :
               \E r \in FdOpen("file", name, new) : Opened(p, r)
    BY <1>6 DEF ProgOpens
  <2>2. PICK r \in FdOpen("file", name, new) : Opened(p, r)
    BY <2>1
  <2>3. r.slip = {} /\ Becomes(r)
    BY <2>2 DEF Opened
  <2>4. r.fd \in Fds => table' = [table EXCEPT ![p][FreeSlot(p)] = r.fd]
    BY <1>5, <2>2 DEF Opened
  <2>5. r.fd \in {-1, ERR_PERMS, ERR_NO_EXIST} => table' = table
    BY <2>2 DEF Opened, ERR_PERMS, ERR_NO_EXIST
  <2> QED
    BY <1>4, <2>3, <2>4, <2>5
<1>7. CASE ProgMkfifo(p)
  <2>1. PICK r \in FdOpen("fifo", NamedFifo, TRUE) : Mkfifoed(p, r)
    BY <1>7 DEF ProgMkfifo
  <2>2. r.slip = {} /\ ~(r.fd < -1) /\ Becomes(r)
    BY <2>1 DEF Mkfifoed
  <2>3. r.fd # ERR_PERMS
    BY <2>2 DEF ERR_PERMS
  <2>4. r.fd \in Fds => table' = [table EXCEPT ![p][FreeSlot(p)] = r.fd]
    BY <1>5, <2>1 DEF Mkfifoed
  <2> QED
    BY <1>4, <2>2, <2>3, <2>4
<1> QED
  BY <1>6, <1>7

\* The shell skips a dup.
LEMMA PassesSkipped ==
  ASSUME Shape, sh.todo # <<>>, sh.todo[1] \in {"out", "in"}, sh'.todo = Tail(Tail(sh.todo)),
         sh'.pid = sh.pid, sh'.piped = sh.piped, sh'.stdin = sh.stdin, sh'.left = sh.left
  PROVE  Passes
<1> DEFINE t == Tail(sh.todo)
           u == Tail(t)
<1>1. sh.todo \in Seq(Steps) /\ Ordered(sh.todo) /\ Head(sh.todo) = sh.todo[1]
  BY ShellFacts DEF Shape, Planned
<1>2. /\ t \in Seq(Steps) /\ Ordered(t) /\ t # <<>> /\ t[1] \in {"dup0", "dup1"}
      /\ \A x : Has(t, x) => Has(sh.todo, x)
      /\ \A x : Has(sh.todo, x) => x = Head(sh.todo) \/ Has(t, x)
  BY <1>1, TailOrdered
<1> HIDE DEF t
<1>3. /\ Head(t) = t[1] /\ \A x : Has(u, x) => Has(t, x)
      /\ \A x : Has(t, x) => x = Head(t) \/ Has(u, x)
  BY <1>2, TailOrdered
<1>4. sh'.todo = u
  BY DEF t
<1> HIDE DEF u
<1>5. \A x : Has(sh'.todo, x) => Has(sh.todo, x)
  BY <1>2, <1>3, <1>4
<1>6. \A x \in {"mkfifo", "loop"} : Has(sh.todo, x) => Has(sh'.todo, x)
  BY <1>1, <1>2, <1>3, <1>4
<1> QED
  BY <1>5, <1>6 DEF Passes, Feeds, GoesOn, Feeding

LEMMA PlumbedOpenFile == ASSUME Shape, Clean, Plumbed, slip' = {}, OpenFile PROVE Plumbed'
<1>1. /\ sh.todo # <<>> /\ Head(sh.todo) = sh.todo[1] /\ sh.todo[1] \in {"out", "in"} /\ ~Loops(Shell)
      /\ UNCHANGED <<line, bytes, phase, slot, feeder, got>> /\ sh.pid \in Progs
  BY ShellFacts DEF OpenFile, Calls, Before
<1>2. PICK r \in FdOpen("file", DataFile, Head(sh.todo) = "out") :
        /\ Opened(Shell, r)
        /\ sh' = IF r.fd >= 0 THEN [sh EXCEPT !.todo = Tail(@), !.fd = FreeSlot(Shell)]
                              ELSE [sh EXCEPT !.todo = Tail(Tail(@))]
  BY DEF OpenFile
<1>3. /\ KernelTyped /\ Named /\ Fresh /\ table \in Tables /\ sh \in Shells
      /\ FreeSlot(Shell) \in Slots /\ table[Shell][FreeSlot(Shell)] = -1
  BY <1>1, FreeSlotIs DEF Shape, Typed, ProgsTyped, ShellTyped, KernelTyped, Plumbed
<1>4. r.slip = {} /\ Becomes(r) /\ DataFile \in Names /\ DataFile \notin Progs /\ "file" \in {"fifo", "file"}
      /\ (Head(sh.todo) = "out") \in BOOLEAN /\ 0 \notin Progs
  BY <1>2, Sizes DEF Opened
<1>5. \/ \E i \in Inodes : NewIn("file", DataFile, r.fd, i) /\ Others(r.fd)
      \/ r.fd \in {-1, ERR_PERMS, ERR_NO_EXIST} /\ \E fd : NotIn(fd) /\ Others(fd)
  BY <1>3, <1>4, OpenNew
<1>6. CASE \E i \in Inodes : NewIn("file", DataFile, r.fd, i) /\ Others(r.fd)
  <2>1. PICK i \in Inodes : NewIn("file", DataFile, r.fd, i) /\ Others(r.fd)
    BY <1>6
  <2>2. r.fd \in FileFds /\ r.fd >= 0 /\ r.fd \notin FifoFds
    <3>1. PICK fd \in FileFds : fd = r.fd
      BY <2>1 DEF NewIn, FdsOf
    <3>2. fd \in Nat /\ fd \notin FifoFds
      BY Sizes
    <3> QED
      BY <3>1, <3>2
  <2>3. table' = [table EXCEPT ![Shell][FreeSlot(Shell)] = r.fd]
    BY <1>2, <2>2 DEF Opened
  <2>4. /\ sh'.todo = Tail(sh.todo) /\ sh'.fd = FreeSlot(Shell) /\ sh'.pid = sh.pid /\ sh'.piped = sh.piped
        /\ sh'.stdin = sh.stdin /\ sh'.left = sh.left
    BY <1>2, <1>3, <2>2 DEF Shells
  <2>5. Passes
    BY <1>1, <2>4, PassesDone
  <2>6. PICK u \in Slots : u = FreeSlot(Shell)
    BY <1>3
  <2>7. Settles(r.fd, Shell, u, DataFile)
    BY <1>1, <1>3, <1>4, <2>1, <2>3, <2>6, NewSettles
  <2>8. Duplicated' = r.fd
    BY <1>3, <2>3, <2>4 DEF Duplicated, Tables
  <2>9. Shell # sh.pid
    BY <1>1, <1>4 DEF Shell
  <2> QED
    BY <1>1, <1>4, <2>1, <2>2, <2>5, <2>7, <2>8, <2>9, PlumbedSettles DEF Others
<1>7. CASE r.fd \in {-1, ERR_PERMS, ERR_NO_EXIST} /\ \E fd : NotIn(fd) /\ Others(fd)
  <2>1. ~(r.fd >= 0)
    BY <1>7 DEF ERR_PERMS, ERR_NO_EXIST
  <2>2. table' = table
    BY <1>2, <2>1 DEF Opened
  <2>3. /\ sh'.todo = Tail(Tail(sh.todo)) /\ sh'.pid = sh.pid /\ sh'.piped = sh.piped
        /\ sh'.stdin = sh.stdin /\ sh'.left = sh.left
    BY <1>2, <1>3, <2>1 DEF Shells
  <2>4. ~Ready'
    BY <1>1, <2>3, StepSkipped DEF Shape, Typed
  <2>5. Passes
    BY <1>1, <2>3, PassesSkipped
  <2>6. PICK fd : NotIn(fd) /\ Others(fd)
    BY <1>7
  <2>7. Settles(fd, 0, 0, 0)
    BY <1>1, <2>2, <2>6, NoneSettles
  <2>8. 0 # sh.pid
    BY <1>1, <1>4
  <2> QED
    BY <1>1, <1>4, <2>4, <2>5, <2>6, <2>7, <2>8, PlumbedSettles DEF Others
<1> QED
  BY <1>5, <1>6, <1>7

\* What is true of a pipe that the shell has just made
MadePipe(fd, u, i, l) ==
  /\ l \in Progs /\ l = sh.pid /\ sh'.pid = l /\ phase[l] \in Unrun /\ Shell # l
  /\ fd \in FifoFds /\ files'[fd].type = "fifo" /\ files'[fd].data = i
  /\ i \in Inodes /\ dir'[l] = i /\ dir[l] = 0 /\ kind[i] = "free"
  /\ Settles(fd, Shell, u, l)
  /\ u \in Slots /\ u # 0 /\ table'[Shell][u] = fd
  /\ sh'.fd = u /\ sh'.stdin = u /\ sh'.left = l /\ sh'.piped
  /\ sh'.todo[1] = "dup1" /\ sh'.todo # <<>>
  /\ \A x \in {"out", "in", "mkfifo", "loop", "dup0", "duppipe"} : ~Has(sh'.todo, x)
  /\ GoesOn /\ Fresh'
  /\ UNCHANGED <<bytes, phase, slot, feeder, got>>

LEMMA OpenPipeMakes ==
  ASSUME Shape, Clean, Plumbed, slip' = {}, OpenPipe
  PROVE  \E fd, u, i, l : MadePipe(fd, u, i, l)
<1>1. /\ sh.todo # <<>> /\ Head(sh.todo) = sh.todo[1] /\ sh.todo[1] = "mkfifo" /\ ~Loops(Shell)
      /\ UNCHANGED <<line, bytes, phase, slot, feeder, got>> /\ sh.pid \in Progs /\ phase[sh.pid] \in Unrun
      /\ Has(sh.todo, "mkfifo") /\ sh.todo \in Seq(Steps)
  BY ShellFacts DEF OpenPipe, Calls, Before
<1>2. PICK r \in FdOpen("fifo", PipeName(sh.pid), TRUE) :
        /\ Mkfifoed(Shell, r)
        /\ LET stdout == IF r.fd # -1 THEN FreeSlot(Shell) ELSE -1 IN
           sh' = [sh EXCEPT !.todo = Tail(@), !.fd = stdout, !.stdin = stdout,
                            !.cad = PipeName(sh.pid), !.left = sh.pid]
  BY DEF OpenPipe
<1>3. /\ KernelTyped /\ Named /\ Fresh /\ table \in Tables /\ sh \in Shells
      /\ FreeSlot(Shell) \in Slots /\ FreeSlot(Shell) >= 3 /\ table[Shell][FreeSlot(Shell)] = -1
  BY <1>1, ShellSlot DEF Shape, Typed, ProgsTyped, ShellTyped, Plumbed
<1>4. PICK l \in Progs : l = sh.pid
  BY <1>1
<1>5. PipeName(sh.pid) = l /\ l \in Names /\ Shell # l
  BY <1>4, Sizes DEF Shell, PipeName
<1>6. /\ r.slip = {} /\ ~(r.fd < -1) /\ Becomes(r) /\ r \in FdOpen("fifo", l, TRUE)
      /\ "fifo" \in {"fifo", "file"} /\ TRUE \in BOOLEAN
  BY <1>2, <1>5 DEF Mkfifoed
<1>7. \/ \E i \in Inodes : NewIn("fifo", l, r.fd, i) /\ Others(r.fd)
      \/ r.fd = ERR_PERMS
  BY <1>3, <1>5, <1>6, OpenNew
<1>8. PICK i \in Inodes : NewIn("fifo", l, r.fd, i) /\ Others(r.fd)
  BY <1>6, <1>7 DEF ERR_PERMS
<1>9. PICK fd \in FifoFds : fd = r.fd
  BY <1>8 DEF NewIn, FdsOf
<1>10. PICK u \in Slots : u = FreeSlot(Shell) /\ u >= 3 /\ u # 0
  BY <1>3
<1>11. fd # -1
  BY Sizes
<1>12. table' = [table EXCEPT ![Shell][u] = fd]
  BY <1>2, <1>9, <1>10, <1>11 DEF Mkfifoed
<1>13. /\ sh'.todo = Tail(sh.todo) /\ sh'.fd = u /\ sh'.stdin = u /\ sh'.left = l
       /\ sh'.pid = l /\ sh'.piped = sh.piped
  BY <1>2, <1>3, <1>4, <1>9, <1>10, <1>11 DEF Shells
<1>14. NewIn("fifo", l, fd, i) /\ Others(fd)
  BY <1>8, <1>9
<1>15. Settles(fd, Shell, u, l)
  BY <1>1, <1>3, <1>5, <1>10, <1>12, <1>14, NewSettles
<1>16. table'[Shell][u] = fd
  BY <1>3, <1>10, <1>12 DEF Tables
<1>17. sh.piped /\ Ordered(sh.todo)
  BY <1>1 DEF Shape, Planned
<1>18. /\ \A x : Has(Tail(sh.todo), x) => Has(sh.todo, x) /\ Follows("mkfifo", x)
       /\ Tail(sh.todo) # <<>> /\ Tail(sh.todo)[1] = "dup1"
  BY <1>1, <1>17, TailOrdered
<1>19. \A x \in {"out", "in", "mkfifo", "loop", "dup0", "duppipe"} : ~Has(sh'.todo, x)
  BY <1>13, <1>18 DEF Follows
<1>20. GoesOn
  BY <1>4, <1>13, <1>18 DEF GoesOn
<1>21. dir[l] = 0 /\ kind[i] = "free" /\ dir'[l] = i
  <2>1. PipeOf(l) = 0
    BY <1>1, <1>4 DEF Plumbed, Joined, Joins
  <2>2. dir[l] = 0
    BY <2>1, <1>5, <1>4 DEF PipeOf
  <2> QED
    BY <2>2, <1>14 DEF NewIn
<1>22. files'[fd].type = "fifo" /\ files'[fd].data = i
  BY <1>14 DEF NewIn
<1>23. Fresh'
  BY <1>14 DEF Others
<1>24. MadePipe(fd, u, i, l)
  BY <1>1, <1>4, <1>5, <1>10, <1>13, <1>15, <1>16, <1>17, <1>18, <1>19, <1>20, <1>21, <1>22, <1>23
     DEF MadePipe
<1> QED
  BY <1>24

LEMMA PlumbedMadePipe ==
  ASSUME Shape, Plumbed, NEW fd, NEW u, NEW i, NEW l, MadePipe(fd, u, i, l)
  PROVE  Plumbed'
<1> DEFINE X == {fd}
<1>1. /\ l \in Progs /\ l = sh.pid /\ sh'.pid = l /\ phase[l] \in Unrun /\ Shell # l
      /\ fd \in FifoFds /\ files'[fd].type = "fifo" /\ files'[fd].data = i
      /\ i \in Inodes /\ dir'[l] = i /\ dir[l] = 0 /\ kind[i] = "free"
      /\ u \in Slots /\ u # 0 /\ table'[Shell][u] = fd
      /\ sh'.fd = u /\ sh'.stdin = u /\ sh'.left = l /\ sh'.piped
      /\ sh'.todo[1] = "dup1" /\ sh'.todo # <<>> /\ GoesOn /\ Fresh'
      /\ UNCHANGED <<bytes, phase, slot, feeder, got>>
  BY DEF MadePipe
<1>2. \A x \in {"out", "in", "mkfifo", "loop", "dup0", "duppipe"} : ~Has(sh'.todo, x)
  BY DEF MadePipe
<1>3. Settles(fd, Shell, u, l)
  BY DEF MadePipe
<1>4. Duplicated' = fd /\ LastPipe' = fd /\ Ready' /\ Feeding'
  BY <1>1, <1>2 DEF Duplicated, LastPipe, Ready, Feeding
<1>5. \A h \in Holds' : Still(h, X)
  <2>1. ASSUME NEW h \in Holds' PROVE Still(h, X)
    <3>1. h # <<Shell, u>>
      BY HoldsNext, Sizes DEF Shell
    <3> QED
      BY <1>3, <3>1 DEF Settles
  <2> QED
    BY <2>1
<1>6. Steady(X)
  BY <1>3 DEF Settles
<1>7. i # 0 /\ fd \in Fds /\ PipeOf(l) = 0 /\ PipeOf(l)' = i
  BY <1>1, Sizes DEF Fds, PipeOf, PipeName
<1>8. \A k \in Progs : k # l => PipeOf(k)' = PipeOf(k) /\ (PipeOf(k) # 0 => ~IsFor(fd, PipeOf(k))')
  BY <1>3 DEF Settles
<1>9. \A h \in Holds' : ~IsFor(At(h), i)'
  <2>1. SUFFICES ASSUME NEW h \in Holds' PROVE ~IsFor(At(h), i)'
    OBVIOUS
  <2>2. h \in Holds /\ At(h)' = At(h) /\ At(h) \notin X
    BY <1>5 DEF Still
  <2>3. PICK g : g = At(h) /\ g = At(h)' /\ g \notin X
    BY <2>2
  <2>4. ~IsFor(g, i)
    BY <1>1, <2>2, <2>3 DEF Plumbed, Alive
  <2>5. ~IsFor(g, i)'
    BY <1>6, <2>3, <2>4 DEF Steady
  <2> QED
    BY <2>3, <2>5 DEF IsFor
<1>10. \A j \in Inodes : kind'[j] = "free" => kind[j] = "free" /\ ~IsFor(fd, j)'
  BY <1>3 DEF Settles
<1>11. Alive'
  <2>1. \A j \in Inodes : kind'[j] = "free" => bytes'[j] = <<>> /\ kind[j] = "free"
    BY <1>1, <1>10 DEF Plumbed, Alive
  <2>2. InUse(Duplicated)'
    BY <1>4, <1>10 DEF InUse, IsFor
  <2> HIDE DEF X
  <2> QED
    BY <1>5, <1>6, <2>1, <2>2, AliveStays DEF Plumbed
<1>12. Joins(l)'
  <2>1. bytes'[PipeOf(l)'] \in Seq({l})
    <3>1. bytes[i] = <<>>
      BY <1>1 DEF Plumbed, Alive
    <3>2. bytes'[i] = <<>> /\ <<>> \in Seq({l})
      BY <1>1, <3>1
    <3> QED
      BY <1>7, <3>2
  <2>2. \A h \in Holds' : ~IsFor(At(h), PipeOf(l))'
    BY <1>7, <1>9 DEF IsFor
  <2> QED
    BY <1>1, <1>2, <1>4, <2>1, <2>2 DEF Joins, Unrun
<1>13. ASSUME NEW k \in Progs, k # l, PipeOf(k)' # 0 PROVE Joins(k)'
  <2>1. PipeOf(k)' = PipeOf(k) /\ PipeOf(k) # 0 /\ ~IsFor(fd, PipeOf(k))'
    BY <1>8, <1>13
  <2>2. Joins(k)
    BY <2>1 DEF Plumbed, Joined
  <2>3. phase'[k] # "none" /\ bytes'[PipeOf(k)'] \in Seq({k})
    BY <1>1, <2>1, <2>2 DEF Joins
  <2>4. ~IsFor(Duplicated, PipeOf(k))'
    BY <1>4, <2>1 DEF IsFor
  <2> HIDE DEF X
  <2> QED
    BY <1>1, <1>2, <1>5, <1>6, <2>1, <2>2, <2>3, <2>4, JoinsStays
<1>14. Joined'
  BY <1>12, <1>13 DEF Joined
<1>15. Handed'
  <2>1. \A h \in Holds' : At(h)' # Duplicated'
    BY <1>4, <1>5 DEF Still
  <2> QED
    BY <1>1, <1>2, <1>4, <2>1 DEF Handed
<1>16. ToFeed'
  <2>1. IsFor(LastPipe, PipeOf(sh.left))' /\ PipeOf(sh.left)' = i
    BY <1>1, <1>4, <1>7 DEF IsFor, PipeOf, PipeName
  <2>2. \A h \in Holds' : ~IsFor(At(h), PipeOf(sh.left))'
    BY <1>9, <2>1 DEF IsFor
  <2> QED
    BY <1>1, <1>7, <2>1, <2>2 DEF ToFeed
<1>17. Fed'
  <2>1. ASSUME NEW p \in Progs, feeder[p] # 0, phase'[p] \in {"new", "run"}
        PROVE  /\ table'[p][0] = table[p][0] /\ table[p][0] \notin X
               /\ PipeOf(feeder[p])' = PipeOf(feeder[p])
    <3>1. PICK k \in Progs : k = feeder[p] /\ k = feeder'[p]
      BY <1>1, <2>1 DEF Shape, Typed, ProgsTyped
    <3>2. PipeOf(k) # 0
      BY <1>1, <2>1, <3>1 DEF Plumbed, Fed, FedOf
    <3>3. PipeOf(k)' = PipeOf(k)
      BY <1>7, <1>8, <3>2
    <3>4. PipeOf(feeder[p])' = PipeOf(feeder[p])
      BY <3>1, <3>3 DEF PipeOf, PipeName
    <3> QED
      BY <1>1, <1>3, <2>1, <3>4 DEF Settles
  <2> HIDE DEF X
  <2> QED
    BY <1>1, <1>6, <2>1, FedStays DEF Plumbed
<1>18. Given'
  <2>1. table'[sh.pid] = table[sh.pid]
    BY <1>1, <1>3 DEF Settles
  <2> QED
    BY <1>1, <2>1, GivenStays DEF Plumbed
<1>19. Uses(files, Holds)'
  <2>1. ASSUME NEW g \in FifoFds, g \notin X, IsPipe(g) PROVE IsPipe(g)'
    <3>1. PICK k \in Progs : PipeOf(k) # 0 /\ IsFor(g, PipeOf(k))
      BY <2>1 DEF IsPipe
    <3>2. PICK n : n = PipeOf(k) /\ n = PipeOf(k)'
      BY <1>7, <1>8, <3>1
    <3>3. IsFor(g, n)'
      BY <1>6, <2>1, <3>1, <3>2 DEF Steady
    <3> QED
      BY <3>1, <3>2, <3>3 DEF IsPipe, IsFor
  <2>2. \A g \in FifoFds : /\ g \notin X => files'[g].used = files[g].used
                           /\ g \in X => files'[g].used = 1
    BY <1>3 DEF Settles
  <2>3. LastPipe' \in X /\ Duplicated' \in X
    BY <1>4
  <2>4. \A g, h \in Holds' : At(g)' \in X /\ At(h)' = At(g)' => g = h
    BY <1>5 DEF Still
  <2> HIDE DEF X
  <2> QED
    BY <1>5, <1>6, <2>1, <2>2, <2>3, <2>4, UsesStays DEF Plumbed
<1> QED
  BY <1>1, <1>11, <1>14, <1>15, <1>16, <1>17, <1>18, <1>19 DEF Plumbed

LEMMA PlumbedOpenPipe == ASSUME Shape, Clean, Plumbed, slip' = {}, OpenPipe PROVE Plumbed'
BY OpenPipeMakes, PlumbedMadePipe

\* The second program of a pipe gets it before it makes its own.
Piped == Has(sh.todo, "duppipe") /\ sh.piped => Has(sh.todo, "mkfifo")

\* A dup closes no fifo: it only counts one use less of the terminal's
\* descriptor or of a file's.
DupKeeps(fd2) ==
  /\ bytes' = bytes /\ Steady({})
  /\ \A g \in FifoFds : files'[g].used = files[g].used
  /\ \A g \in Fds : files'[g].type = files[g].type /\ files'[g].data = files[g].data
  /\ UNCHANGED <<alloc, dir, kind, phase, slot, got>>
  /\ sh'.pid = sh.pid /\ sh'.piped = sh.piped /\ sh'.stdin = sh.stdin /\ sh'.left = sh.left
  /\ ~Ready' /\ Passes
  /\ table[sh.pid][fd2] \notin FifoFds
  /\ table'[Shell] = table[Shell]
  /\ \A q \in Progs : q # sh.pid => table'[q] = table[q]
  /\ \A s \in Slots : s # fd2 => table'[sh.pid][s] = table[sh.pid][s]

LEMMA DupQuiet ==
  ASSUME Shape, TtyCounted, Clean, Plumbed, slip = {}, Dup \/ DupPipe,
         NEW fd1, NEW fd2, DupPuts(fd1, fd2),
         fd2 = 0 => sh.todo[1] \in {"dup0", "duppipe"}, fd2 = 1 => sh.todo[1] = "dup1"
  PROVE  DupKeeps(fd2)
<1> DEFINE p == sh.pid
           old == table[p][fd2]
<1>1. /\ fd2 \in {0, 1} /\ fd2 \in Slots /\ fd2 >= 0 /\ p \in Progs /\ slot[p] = 0 /\ phase[p] = "new" /\ ~Ready'
      /\ files' = FdClose(State, old).files /\ bytes' = FdClose(State, old).bytes
      /\ \A q \in Progs \union {Shell}, u \in Slots : q # p \/ u # fd2 => table'[q][u] = table[q][u]
  BY Sizes DEF DupPuts
<1>2. /\ sh.todo # <<>> /\ sh' = [sh EXCEPT !.todo = Then] /\ Head(sh.todo) = sh.todo[1]
      /\ sh.todo[1] \in {"dup0", "dup1", "duppipe"} /\ Has(sh.todo, sh.todo[1])
      /\ UNCHANGED <<alloc, dir, kind, phase, slot, got>>
  BY ShellFacts DEF Dup, DupPipe, Calls
<1>3. sh \in Shells /\ table \in Tables /\ files \in [Fds -> File] /\ Shell # p
  BY <1>1, Sizes DEF Shape, Typed, ShellTyped, ProgsTyped, KernelTyped, FilesTyped, FilesIn, Shell
<1>4. /\ sh'.pid = sh.pid /\ sh'.piped = sh.piped /\ sh'.stdin = sh.stdin /\ sh'.left = sh.left
      /\ sh'.todo = Then
  BY <1>2, <1>3 DEF Shells
<1>5. Passes
  BY <1>2, <1>4, PassesDone
<1>6. old \notin FifoFds
  <2>1. Has(sh.todo, "prun")
    BY <1>2 DEF Shape, Planned, Before
  <2> QED
    BY <1>1, <1>2, <2>1 DEF Plumbed, Given
<1>7. old = -1 \/ (old \in Fds \ FifoFds /\ files[old].used > 0)
  <2>1. SUFFICES ASSUME old # -1 PROVE old \in Fds \ FifoFds /\ files[old].used > 0
    OBVIOUS
  <2>2. <<p, fd2>> \in Holds /\ <<p, fd2>>[1] = p /\ <<p, fd2>>[2] = fd2
    BY <1>1, <2>1, HoldsIs
  <2>3. old = Tty \/ old \in FileFds
    BY <1>6, <2>2 DEF Clean, Slotted, Leads, LeadsIn
  <2>4. files[Tty].used > 0
    <3>1. files[Tty].used = 4 + Cardinality(TtyHeld) /\ Cardinality(TtyHeld) \in Nat
      BY TtyHeldIs DEF TtyCounted, TtyHeld
    <3> QED
      BY <3>1
  <2>5. old \in FileFds => files[old].used # 0
    BY <2>2 DEF Clean, OneEach
  <2>6. old \in Fds /\ files[old].used \in Nat
    BY <1>3, <2>3 DEF Fds, File
  <2> QED
    BY <1>6, <2>3, <2>4, <2>5, <2>6
<1> HIDE DEF old
<1>8. /\ bytes' = bytes
      /\ \A g \in Fds : g # old => files'[g] = files[g]
      /\ \A g \in Fds : files'[g].type = files[g].type /\ files'[g].data = files[g].data
  <2>1. CASE old = -1
    BY <1>1, <2>1 DEF FdClose, State
  <2>2. CASE old # -1
    <3>1. FdClose(State, old) = [State EXCEPT !.files[old].used = @ - 1]
      BY <1>7, <2>2 DEF FdClose, State
    <3>2. bytes' = bytes /\ files' = [files EXCEPT ![old].used = @ - 1]
      BY <1>1, <3>1 DEF State
    <3>3. \A g \in Fds : files[g] \in File
      BY <1>3
    <3> QED
      BY <1>3, <1>7, <2>2, <3>2, <3>3 DEF File
  <2> QED
    BY <2>1, <2>2
<1>9. \A g \in FifoFds : files'[g].used = files[g].used
  BY <1>6, <1>8 DEF Fds
<1>10. Steady({})
  BY <1>8, SameSteady
<1>11. /\ table'[Shell] = table[Shell]
       /\ \A q \in Progs : q # p => table'[q] = table[q]
       /\ \A s \in Slots : s # fd2 => table'[p][s] = table[p][s]
  <2>1. table' \in Tables
    BY DupsShape DEF Shape, Typed, ProgsTyped
  <2>2. \A q \in Progs \union {Shell} : table[q] \in [Slots -> Entries] /\ table'[q] \in [Slots -> Entries]
    BY <1>3, <2>1 DEF Tables, Entries
  <2>3. ASSUME NEW q \in Progs \union {Shell}, q # p PROVE table'[q] = table[q]
    <3>1. \A u \in Slots : table'[q][u] = table[q][u]
      BY <1>1, <2>3
    <3> QED
      BY <2>2, <3>1
  <2> QED
    BY <1>1, <1>3, <2>3
<1> QED
  BY <1>1, <1>2, <1>4, <1>5, <1>6, <1>8, <1>9, <1>10, <1>11 DEF DupKeeps, old

LEMMA DupStill ==
  ASSUME Shape, NEW fd1, NEW fd2, DupPuts(fd1, fd2), NEW h \in Holds'
  PROVE  \/ h = <<sh.pid, fd2>> /\ h[1] = sh.pid /\ h[2] = fd2 /\ At(h)' = table[Shell][fd1]
         \/ h \in Holds /\ h # <<sh.pid, fd2>> /\ At(h)' = At(h)
BY DupHolds DEF At

\* A program that has a pipe keeps it until it has all that it is to have.
LEMMA DupFed ==
  ASSUME Shape, Plumbed, NEW fd2, DupKeeps(fd2),
         NEW q \in Progs, feeder[q] # 0, phase[q] \in {"new", "run"}
  PROVE  table'[q][0] = table[q][0] /\ (fd2 = 0 => q # sh.pid)
<1>1. table[q][0] \in FifoFds
  BY DEF Plumbed, Fed, FedOf
<1>2. q = sh.pid => fd2 # 0
  BY <1>1 DEF DupKeeps
<1> QED
  BY <1>2, Sizes DEF DupKeeps

LEMMA FreshQuiet == ASSUME Fresh, UNCHANGED alloc, \A g \in Fds : files'[g].type = files[g].type PROVE Fresh'
BY DEF Fresh, Fds

LEMMA PlumbedDupFile ==
  ASSUME Shape, Clean, Plumbed, Dup, NEW fd1, NEW fd2, DupPuts(fd1, fd2), DupKeeps(fd2),
         Ready, fd1 = sh.fd, table[Shell][fd1] \notin FifoFds
  PROVE  Plumbed'
<1>1. PICK fd : fd = table[Shell][fd1]
  OBVIOUS
<1>2. fd \in FileFds /\ fd \notin FifoFds /\ Ready /\ fd = Duplicated /\ Pending(fd)
  BY <1>1 DEF DupPuts, Leads, LeadsIn, Duplicated, Pending
<1>3. \A h \in Holds : At(h) # fd
  BY <1>2 DEF Clean, OneEach, At
<1>4. /\ UNCHANGED <<bytes, alloc, dir, kind, phase, slot, got>> /\ Passes /\ ~Ready'
      /\ \A g \in FifoFds : files'[g].used = files[g].used
      /\ \A g \in Fds : files'[g].type = files[g].type
      /\ table'[Shell] = table[Shell] /\ sh'.stdin = sh.stdin
  BY DEF DupKeeps
<1>5. UNCHANGED feeder
  BY DEF Dup
<1>6. ~Ready' /\ Steady({fd}) /\ \A g : \A j : IsFor(g, j)' <=> IsFor(g, j)
  BY DEF DupKeeps, Steady
<1>7. ASSUME NEW l \in Progs PROVE PipeOf(l)' = PipeOf(l) /\ (PipeOf(l) # 0 => ~IsFor(fd, PipeOf(l))')
  <2>1. PICK n : n = PipeOf(l) /\ n = PipeOf(l)'
    BY <1>4, PipesNext
  <2>2. n # 0 => ~IsFor(fd, n)
    BY <1>2, <2>1 DEF Plumbed, Joined, Joins
  <2>3. n # 0 => ~IsFor(fd, n)'
    BY <1>6, <2>2
  <2> QED
    BY <2>1, <2>3 DEF IsFor
<1>8. \A j \in Inodes : kind'[j] = "free" => kind[j] = "free" /\ ~IsFor(fd, j)'
  BY <1>2, <1>4, <1>6 DEF Plumbed, Alive
<1>9. \A h \in Holds' : Still(h, {fd}) \/ At(h)' = fd
  BY <1>1, <1>3, DupStill DEF Still
<1>10. \A g, h \in Holds' : At(g)' = fd /\ At(h)' = fd => g = h
  BY <1>3, DupStill
<1>11. Feeding' => LastPipe' = LastPipe /\ LastPipe # fd
  <2>1. Feeding' => Feeding /\ sh'.stdin = sh.stdin
    BY <1>4 DEF Passes, Feeds
  <2>2. Feeding => LastPipe \in FifoFds
    BY DEF Feeding, Clean, Slotted, LastPipe
  <2> QED
    BY <1>2, <1>4, <2>1, <2>2 DEF LastPipe
<1>12. \A q \in Progs : feeder[q] # 0 /\ phase[q] \in {"new", "run"} =>
         table'[q][0] = table[q][0] /\ table[q][0] # fd
  BY <1>2, DupFed, FedHolds
<1>13. \A s \in {0, 1} : table'[sh.pid][s] = table[sh.pid][s] \/ table'[sh.pid][s] \notin FifoFds
  BY <1>1, <1>2, Sizes DEF DupKeeps, DupPuts
<1>14. \A g \in FifoFds : files'[g].used = IF g = fd THEN 1 ELSE files[g].used
  BY <1>2, <1>4
<1>15. Fresh'
  BY <1>4, FreshQuiet DEF Plumbed
<1> QED
  BY <1>4, <1>5, <1>6, <1>7, <1>8, <1>9, <1>10, <1>11, <1>12, <1>13, <1>14, <1>15, PlumbedAdds

\* Only fifos of two pipes have two inodes.
LEMMA PipesApart ==
  ASSUME Shape, NEW l \in Progs, NEW k \in Progs, NEW fd,
         IsFor(fd, PipeOf(l)), IsFor(fd, PipeOf(k)), PipeOf(l) # 0
  PROVE  l = k
<1>1. dir[l] = dir[k] /\ dir[l] # 0 /\ l \in Names /\ k \in Names
  BY PipesAt DEF IsFor
<1> QED
  BY <1>1 DEF Shape, Named, NamedIn

\* What a dup leaves of the pipes
DupPipes ==
  /\ \A l : PipeOf(l)' = PipeOf(l)
  /\ \A g : IsPipe(g)' <=> IsPipe(g)
  /\ Alive => \A j \in Inodes : kind'[j] = "free" => bytes'[j] = <<>> /\ kind[j] = "free"

LEMMA DupPipesStay == ASSUME NEW fd2, DupKeeps(fd2) PROVE DupPipes
<1>1. \A l : PipeOf(l)' = PipeOf(l)
  BY PipesNext DEF DupKeeps
<1>2. \A g, j : IsFor(g, j)' <=> IsFor(g, j)
  BY DEF DupKeeps, Steady
<1>3. ASSUME NEW g PROVE IsPipe(g)' <=> IsPipe(g)
  <2>1. ASSUME NEW l \in Progs
        PROVE  (PipeOf(l)' # 0 /\ IsFor(g, PipeOf(l))') <=> (PipeOf(l) # 0 /\ IsFor(g, PipeOf(l)))
    <3>1. PICK n : n = PipeOf(l) /\ n = PipeOf(l)'
      BY <1>1
    <3>2. IsFor(g, PipeOf(l))' <=> IsFor(g, n)'
      BY <3>1 DEF IsFor
    <3> QED
      BY <1>2, <3>1, <3>2
  <2> QED
    BY <2>1 DEF IsPipe
<1> QED
  BY <1>1, <1>3 DEF DupPipes, DupKeeps, Alive

\* The writer gets the pipe.
LEMMA PlumbedDupOut ==
  ASSUME Shape, Clean, Plumbed, Dup, NEW fd1, NEW fd2, DupPuts(fd1, fd2), DupKeeps(fd2),
         Ready, fd1 = sh.fd, table[Shell][fd1] \in FifoFds, fd2 = 0 => sh.todo[1] = "dup0"
  PROVE  Plumbed'
<1>1. PICK fd : fd = table[Shell][fd1]
  OBVIOUS
<1>2. /\ fd \in FifoFds /\ fd = Duplicated /\ fd = LastPipe /\ Feeding
      /\ sh.left = sh.pid /\ sh.todo[1] = "dup1"
      /\ \A x \in {"out", "in", "mkfifo"} : ~Has(sh.todo, x)
      /\ \A h \in Holds : At(h) # fd
  BY <1>1 DEF Duplicated, LastPipe, Plumbed, Handed
<1>3. fd2 = 1 /\ fd \in Fds /\ sh.pid \in Progs
  BY <1>2, Sizes DEF DupPuts, Fds
<1>4. PICK n : n = PipeOf(sh.pid)
  OBVIOUS
<1>5. n # 0 /\ IsFor(fd, n) /\ \A h \in Holds : ~IsFor(At(h), n)
  BY <1>2, <1>4 DEF Plumbed, ToFeed
<1>6. /\ UNCHANGED <<bytes, alloc, dir, kind, phase, slot, got, feeder>> /\ Passes /\ ~Ready'
      /\ Steady({}) /\ \A g \in FifoFds : files'[g].used = files[g].used
      /\ \A g \in Fds : files'[g].type = files[g].type
      /\ table'[Shell] = table[Shell] /\ sh'.stdin = sh.stdin /\ sh'.left = sh.left /\ sh'.pid = sh.pid
  BY DEF DupKeeps, Dup
<1>7. DupPipes
  BY DupPipesStay
<1>8. \A h \in Holds' : \/ h = <<sh.pid, 1>> /\ h[1] = sh.pid /\ h[2] = 1 /\ At(h)' = fd
                        \/ Still(h, {fd}) /\ Still(h, {})
  <2>1. SUFFICES ASSUME NEW h \in Holds'
                 PROVE  \/ h = <<sh.pid, 1>> /\ h[1] = sh.pid /\ h[2] = 1 /\ At(h)' = fd
                        \/ Still(h, {fd}) /\ Still(h, {})
    OBVIOUS
  <2>2. \/ h = <<sh.pid, fd2>> /\ h[1] = sh.pid /\ h[2] = fd2 /\ At(h)' = table[Shell][fd1]
        \/ h \in Holds /\ At(h)' = At(h)
    BY DupStill
  <2> QED
    BY <1>1, <1>2, <1>3, <2>2 DEF Still
<1>9. \A j : IsFor(fd, j)' <=> IsFor(fd, j)
  BY <1>6 DEF Steady
<1>10. Alive'
  <2>1. ASSUME NEW h \in Holds' PROVE Still(h, {}) \/ InUse(At(h))'
    <3>1. CASE At(h)' = fd
      <4>1. \A j \in Inodes : IsFor(fd, j) => kind[j] # "free"
        BY <1>2 DEF Plumbed, Alive, Ready
      <4>2. \A j \in Inodes : IsFor(At(h), j)' => IsFor(fd, j)
        BY <1>9, <3>1 DEF IsFor
      <4> QED
        BY <1>6, <4>1, <4>2 DEF InUse
    <3> QED
      BY <1>8, <3>1
  <2>2. \A j \in Inodes : kind'[j] = "free" => bytes'[j] = <<>> /\ kind[j] = "free"
    BY <1>7 DEF DupPipes, Plumbed
  <2> QED
    BY <1>6, <2>1, <2>2, AliveStays DEF Plumbed
<1>11. ASSUME NEW l \in Progs, PipeOf(l)' # 0 PROVE Joins(l)'
  <2>1. PICK m : m = PipeOf(l) /\ m = PipeOf(l)' /\ m # 0
    BY <1>7, <1>11 DEF DupPipes
  <2>2. Joins(l)
    BY <2>1 DEF Plumbed, Joined
  <2>3. /\ phase'[l] # "none" /\ (Has(sh'.todo, "mkfifo") => l # sh'.pid)
        /\ bytes'[PipeOf(l)'] \in Seq({l})
    BY <1>6, <2>1, <2>2 DEF Joins, Passes, GoesOn, Before
  <2>4. CASE l # sh.pid
    <3>1. ~IsFor(fd, m)
      BY <1>3, <1>4, <1>5, <2>1, <2>4, PipesApart
    <3>2. ~IsFor(fd, m)'
      BY <1>9, <3>1
    <3>3. \A h \in Holds' : Still(h, {}) \/ ~IsFor(At(h), PipeOf(l))'
      BY <1>8, <2>1, <3>2 DEF IsFor
    <3> QED
      BY <1>6, <2>1, <2>2, <2>3, <3>3, JoinsStays
  <2>5. CASE l = sh.pid
    <3>1. ASSUME NEW h \in Holds', IsFor(At(h), PipeOf(l))' PROVE h = <<l, 1>> /\ At(h)' = fd
      <4>1. CASE Still(h, {})
        <5>1. PICK g : g = At(h) /\ g = At(h)' /\ h \in Holds
          BY <4>1 DEF Still
        <5>2. IsFor(g, n)'
          BY <1>4, <2>1, <2>5, <3>1, <5>1 DEF IsFor
        <5>3. IsFor(g, n)
          BY <1>6, <5>2 DEF Steady
        <5> QED
          BY <1>5, <5>1, <5>3
      <4> QED
        BY <1>8, <2>5, <4>1
    <3> QED
      BY <1>2, <1>6, <2>3, <3>1 DEF Joins
  <2> QED
    BY <2>4, <2>5
<1>12. Joined'
  BY <1>11 DEF Joined
<1>13. Handed'
  BY <1>6 DEF Handed
<1>14. ToFeed'
  <2>1. SUFFICES ASSUME Feeding'
                 PROVE  /\ sh'.left \in Progs /\ PipeOf(sh.left)' # 0
                        /\ IsFor(LastPipe, PipeOf(sh.left))'
                        /\ \A h \in Holds' : IsFor(At(h), PipeOf(sh.left))' => At(h)' = LastPipe' /\ h[2] = 1
    BY DEF ToFeed
  <2>2. LastPipe' = fd
    BY <1>2, <1>6 DEF LastPipe
  <2>3. PipeOf(sh.left)' = n
    BY <1>2, <1>4, <1>6, <1>7 DEF DupPipes, PipeOf, PipeName
  <2>4. IsFor(LastPipe, PipeOf(sh.left))'
    BY <1>5, <1>9, <2>2, <2>3 DEF IsFor
  <2>5. ASSUME NEW h \in Holds', IsFor(At(h), PipeOf(sh.left))' PROVE At(h)' = fd /\ h[2] = 1
    <3>1. CASE Still(h, {})
      <4>1. PICK g : g = At(h) /\ g = At(h)' /\ h \in Holds
        BY <3>1 DEF Still
      <4>2. IsFor(g, n)'
        BY <2>3, <2>5, <4>1 DEF IsFor
      <4>3. IsFor(g, n)
        BY <1>6, <4>2 DEF Steady
      <4> QED
        BY <1>5, <4>1, <4>3
    <3> QED
      BY <1>8, <3>1
  <2> QED
    BY <1>2, <1>3, <1>5, <1>6, <2>2, <2>3, <2>4, <2>5
<1>15. Fed'
  <2>1. ASSUME NEW q \in Progs, feeder[q] # 0, phase'[q] \in {"new", "run"}
        PROVE  table'[q][0] = table[q][0] /\ PipeOf(feeder[q])' = PipeOf(feeder[q])
    <3>1. table'[q][0] = table[q][0]
      BY <1>6, <2>1, DupFed
    <3>2. PipeOf(feeder[q])' = PipeOf(feeder[q])
      BY <1>6 DEF PipeOf, PipeName
    <3> QED
      BY <3>1, <3>2
  <2> QED
    BY <1>6, <2>1, FedStays DEF Plumbed
<1>16. Given'
  <2>1. ~Has(sh'.todo, "dup1")
    <3>1. SUFFICES ASSUME NEW k \in 1 .. Len(sh'.todo), sh'.todo[k] = "dup1" PROVE FALSE
      BY DEF Has
    <3>2. Ordered(sh'.todo) /\ sh'.todo \in Seq(Steps)
      BY DupsShape DEF Shape, Planned, Typed, ShellTyped, Shells
    <3>3. k # 1
      BY <1>6, <3>1, <3>2 DEF Ready
    <3>4. k - 1 \in 1 .. Len(sh'.todo) /\ k - 1 < Len(sh'.todo) /\ k - 1 + 1 = k
      BY <3>1, <3>2, <3>3
    <3>5. sh'.todo[k - 1] \in {"out", "in", "mkfifo"}
      BY <3>1, <3>2, <3>4 DEF Ordered
    <3>6. \E x \in {"out", "in", "mkfifo"} : Has(sh'.todo, x)
      BY <3>4, <3>5 DEF Has
    <3>7. \A x \in {"out", "in", "mkfifo"} : Has(sh'.todo, x) => Has(sh.todo, x)
      BY <1>6 DEF Passes, GoesOn, Before
    <3> QED
      BY <1>2, <3>6, <3>7
  <2>2. table'[sh.pid][0] = table[sh.pid][0]
    BY <1>3, Sizes DEF DupKeeps
  <2> QED
    BY <1>6, <2>1, <2>2 DEF Given, Plumbed, Passes, GoesOn, Before
<1>17. Uses(files, Holds)'
  <2>1. Steady({fd}) /\ (Feeding' => LastPipe' \in {fd})
    BY <1>2, <1>6 DEF Steady, LastPipe
  <2>2. \A g \in FifoFds : /\ files'[g].used = files[g].used
                           /\ g \in {fd} => files'[g].used = 1
                           /\ IsPipe(g) => IsPipe(g)'
    BY <1>2, <1>6, <1>7 DEF Plumbed, Uses, DupPipes
  <2>3. \A h \in Holds' : Still(h, {fd}) \/ At(h)' \in {fd}
    BY <1>8
  <2>4. \A g, h \in Holds' : At(g)' \in {fd} /\ At(h)' = At(g)' => g = h
    BY <1>8 DEF Still
  <2> QED
    BY <1>6, <2>1, <2>2, <2>3, <2>4, UsesStays DEF Plumbed
<1>18. Fresh'
  BY <1>6, FreshQuiet DEF Plumbed
<1> QED
  BY <1>10, <1>12, <1>13, <1>14, <1>15, <1>16, <1>17, <1>18 DEF Plumbed

\* The reader gets the pipe.
LEMMA PlumbedDupIn ==
  ASSUME Shape, Clean, Plumbed, Piped, DupPipe, NEW fd1, NEW fd2, DupPuts(fd1, fd2), DupKeeps(fd2),
         sh.todo[1] = "duppipe", Has(sh.todo, "duppipe"), fd1 = sh.stdin, fd2 = 0
  PROVE  Plumbed'
<1> DEFINE p == sh.pid
           x == <<sh.pid, 0>>
<1>1. PICK fd : fd = table[Shell][fd1]
  OBVIOUS
<1>2. /\ sh.stdin # 0 /\ fd = LastPipe /\ fd \in FifoFds /\ fd \in Fds /\ Feeding
  <2>1. sh.stdin # 0
    BY DEF Shape, Planned
  <2>2. Feeding
    BY <2>1 DEF Feeding
  <2> QED
    BY <1>1, <2>1, <2>2, Sizes DEF Clean, Slotted, LastPipe, Fds
<1>3. PICK l \in Progs : l = sh.left
  BY <1>2 DEF Plumbed, ToFeed
<1>4. PICK n : n = PipeOf(l)
  OBVIOUS
<1>5. n # 0 /\ IsFor(fd, n) /\ \A h \in Holds : IsFor(At(h), n) => At(h) = fd /\ h[2] = 1
  BY <1>2, <1>3, <1>4 DEF Plumbed, ToFeed
<1>6. /\ UNCHANGED <<bytes, alloc, dir, kind, phase, slot, got>> /\ Passes /\ ~Ready'
      /\ Steady({}) /\ \A g \in FifoFds : files'[g].used = files[g].used
      /\ \A g \in Fds : files'[g].type = files[g].type
      /\ table'[Shell] = table[Shell] /\ sh'.stdin = sh.stdin /\ sh'.left = sh.left /\ sh'.pid = sh.pid
      /\ sh'.piped = sh.piped
      /\ \A q \in Progs : q # p => table'[q] = table[q]
      /\ table'[p][1] = table[p][1]
  BY Sizes DEF DupKeeps
<1>7. /\ feeder' = [feeder EXCEPT ![p] = l] /\ p \in Progs /\ phase[p] = "new" /\ table'[p][0] = fd
      /\ feeder \in [Progs -> Progs \union {0}]
  BY <1>1, <1>3 DEF DupPipe, DupPuts, Shape, Typed, ProgsTyped
<1>8. feeder[p] = 0
  <2>1. Has(sh.todo, "prun")
    BY DEF Shape, Planned, Before
  <2>2. table[p][0] \notin FifoFds
    BY <2>1 DEF Plumbed, Given
  <2> QED
    BY <1>7, <2>2 DEF Plumbed, Fed, FedOf
<1>9. \A q \in Progs : feeder'[q] = IF q = p THEN l ELSE feeder[q]
  BY <1>7
<1>10. DupPipes
  BY DupPipesStay
<1>11. \A h \in Holds' : \/ h = x /\ h[1] = p /\ h[2] = 0 /\ At(h)' = fd
                         \/ Still(h, {})
  <2>1. SUFFICES ASSUME NEW h \in Holds'
                 PROVE  (h = x /\ h[1] = p /\ h[2] = 0 /\ At(h)' = fd) \/ Still(h, {})
    OBVIOUS
  <2>2. \/ h = <<sh.pid, fd2>> /\ h[1] = sh.pid /\ h[2] = fd2 /\ At(h)' = table[Shell][fd1]
        \/ h \in Holds /\ At(h)' = At(h)
    BY DupStill
  <2> QED
    BY <1>1, <2>2 DEF Still
<1> HIDE DEF x
<1>12. \A g, j : IsFor(g, j)' <=> IsFor(g, j)
  BY <1>6 DEF Steady
\* Before it, only its writer had it.
<1>13. ASSUME NEW h \in Holds', IsFor(At(h), n)'
       PROVE  At(h)' = fd /\ (h = x \/ (Still(h, {}) /\ h \in Holds /\ At(h) = fd /\ IsFor(At(h), n) /\ h[2] = 1))
  <2>1. CASE Still(h, {})
    <3>1. PICK g : g = At(h) /\ g = At(h)' /\ h \in Holds
      BY <2>1 DEF Still
    <3>2. IsFor(g, n)'
      BY <1>13, <3>1 DEF IsFor
    <3>3. IsFor(g, n)
      BY <1>12, <3>2
    <3> QED
      BY <1>5, <2>1, <3>1, <3>3
  <2> QED
    BY <1>11, <2>1
<1>14. ~Feeding'
  <2>1. /\ \A y : Has(Tail(sh.todo), y) => Has(sh.todo, y) /\ Follows("duppipe", y)
        /\ \A y : Has(sh.todo, y) => y = "duppipe" \/ Has(Tail(sh.todo), y)
    <3>1. sh.todo \in Seq(Steps) /\ sh.todo # <<>> /\ Head(sh.todo) = "duppipe" /\ Ordered(sh.todo)
      BY ShellFacts DEF Shape, Planned, DupPipe, Calls
    <3> QED
      BY <3>1, TailOrdered
  <2>2. Has(sh.todo, "prun")
    BY DEF Shape, Planned, Before
  <2>3. sh'.todo = Tail(sh.todo)
    <3>1. Tail(sh.todo) # <<>>
      <4>1. Has(Tail(sh.todo), "prun")
        BY <2>1, <2>2
      <4>2. ~Has(<<>>, "prun")
        BY DEF Has
      <4> QED
        BY <4>1, <4>2
    <3>2. sh'.todo = Then
      BY DEF DupPipe, Shape, Typed, ShellTyped, Shells
    <3> QED
      BY <3>1, <3>2 DEF Then, Rest
  <2>4. ~Has(sh'.todo, "duppipe")
    BY <2>1, <2>3 DEF Follows
  <2>5. sh.piped => Has(sh'.todo, "mkfifo")
    BY <2>1, <2>3 DEF Piped
  <2> QED
    BY <1>6, <2>4, <2>5 DEF Feeding
<1>15. Alive'
  <2>1. ASSUME NEW h \in Holds' PROVE Still(h, {}) \/ InUse(At(h))'
    <3>1. CASE At(h)' = fd
      <4>1. kind[n] # "free" /\ files[fd].data = n
        BY <1>4, <1>5, PipesAt DEF Shape, Named, NamedIn, IsFor
      <4>2. \A j \in Inodes : IsFor(At(h), j)' => IsFor(fd, j)
        BY <1>12, <3>1 DEF IsFor
      <4> QED
        BY <1>6, <4>1, <4>2 DEF InUse, IsFor
    <3> QED
      BY <1>11, <3>1
  <2>2. \A j \in Inodes : kind'[j] = "free" => bytes'[j] = <<>> /\ kind[j] = "free"
    BY <1>10 DEF DupPipes, Plumbed
  <2> QED
    BY <1>6, <2>1, <2>2, AliveStays DEF Plumbed
<1>16. ASSUME NEW k \in Progs, PipeOf(k)' # 0 PROVE Joins(k)'
  <2>1. PICK m : m = PipeOf(k) /\ m = PipeOf(k)' /\ m # 0
    BY <1>10, <1>16 DEF DupPipes
  <2>2. Joins(k)
    BY <2>1 DEF Plumbed, Joined
  <2>3. /\ phase'[k] # "none" /\ (Has(sh'.todo, "mkfifo") => k # sh'.pid)
        /\ bytes'[PipeOf(k)'] \in Seq({k})
    BY <1>6, <2>1, <2>2 DEF Joins, Passes, GoesOn, Before
  <2>4. CASE k # l
    <3>1. ~IsFor(fd, m)
      BY <1>4, <1>5, <2>1, <2>4, PipesApart
    <3>2. ~IsFor(fd, m)'
      BY <1>12, <3>1
    <3>3. \A h \in Holds' : Still(h, {}) \/ ~IsFor(At(h), PipeOf(k))'
      BY <1>11, <2>1, <3>2 DEF IsFor
    <3>4. 0 # k /\ \A q \in Progs : feeder'[q] = feeder[q] \/ feeder[q] # k
      BY <1>8, <1>9, Sizes
    <3> QED
      BY <1>6, <2>1, <2>2, <2>3, <3>3, <3>4, JoinsStays
  <2>5. CASE k = l
    <3>1. ASSUME NEW h \in Holds', IsFor(At(h), PipeOf(k))'
          PROVE  At(h)' = fd /\ (h = <<k, 1>> \/ (h[2] = 0 /\ feeder'[h[1]] = k))
      <4>1. IsFor(At(h), n)'
        BY <1>4, <2>1, <2>5, <3>1 DEF IsFor
      <4>2. CASE h = x
        BY <1>9, <1>7, <1>13, <2>5, <4>1, <4>2 DEF x
      <4>3. CASE h # x
        <5>1. h \in Holds /\ At(h)' = fd /\ IsFor(At(h), PipeOf(k)) /\ h[2] = 1
          BY <1>4, <1>13, <2>5, <4>1, <4>3
        <5> QED
          BY <2>2, <5>1 DEF Joins
      <4> QED
        BY <4>2, <4>3
    <3> QED
      BY <1>2, <1>6, <2>3, <3>1 DEF Joins
  <2> QED
    BY <2>4, <2>5
<1>17. Joined'
  BY <1>16 DEF Joined
<1>18. Handed' /\ ToFeed'
  BY <1>6, <1>14 DEF Handed, ToFeed
<1>19. ASSUME NEW q \in Progs PROVE FedOf(q)'
  <2>1. FedOf(q)
    BY DEF Plumbed, Fed
  <2>2. PICK f : f = feeder'[q]
    OBVIOUS
  <2>3. PipeOf(feeder[q])' = PipeOf(f)
    BY <1>6, <2>2 DEF PipeOf, PipeName
  <2>4. CASE q = p
    <3>1. f = l /\ phase'[q] = "new" /\ got'[q] = {}
      BY <1>6, <1>7, <1>9, <2>1, <2>2, <2>4 DEF FedOf
    <3>2. IsFor(fd, PipeOf(feeder[q]))'
      BY <1>4, <1>5, <1>12, <2>3, <3>1 DEF IsFor
    <3>3. IsFor(table[q][0], PipeOf(feeder[q]))'
      BY <1>7, <2>4, <3>2 DEF IsFor
    <3> QED
      BY <1>2, <1>4, <1>5, <1>7, <2>2, <2>3, <2>4, <3>1, <3>3 DEF FedOf
  <2>5. CASE q # p
    <3>1. f = feeder[q] /\ table'[q] = table[q] /\ phase'[q] = phase[q] /\ got'[q] = got[q]
      BY <1>6, <1>9, <2>2, <2>5
    <3>2. IsFor(table[q][0], PipeOf(feeder[q]))' <=> IsFor(table[q][0], PipeOf(f))
      <4>1. PICK g, m : g = table[q][0] /\ g = table'[q][0] /\ m = PipeOf(f)
        BY <3>1
      <4>2. IsFor(table[q][0], PipeOf(feeder[q]))' <=> IsFor(g, m)'
        BY <2>3, <3>1, <4>1 DEF IsFor
      <4> QED
        BY <1>12, <4>1, <4>2
    <3> QED
      BY <2>1, <2>2, <2>3, <3>1, <3>2 DEF FedOf
  <2> QED
    BY <2>4, <2>5
<1>20. Fed'
  BY <1>19 DEF Fed
<1>21. Given'
  <2>1. \A y \in {"dup0", "in", "duppipe"} : ~Has(sh'.todo, y)
    <3>1. sh.todo \in Seq(Steps) /\ sh.todo # <<>> /\ Head(sh.todo) = "duppipe" /\ Ordered(sh.todo)
      BY ShellFacts DEF Shape, Planned, DupPipe, Calls
    <3>2. \A y : Has(Tail(sh.todo), y) => Follows("duppipe", y)
      BY <3>1, TailOrdered
    <3>3. \A y \in {"dup0", "in", "duppipe"} : ~Has(Tail(sh.todo), y) /\ ~Has(<<"pcreate">>, y)
      BY <3>2 DEF Follows, Has
    <3>4. sh'.todo = Then
      BY DEF DupPipe, Shape, Typed, ShellTyped, Shells
    <3> QED
      BY <3>3, <3>4 DEF Then, Rest
  <2> QED
    BY <1>6, <2>1 DEF Given, Plumbed, Passes, GoesOn, Before
<1>22. Uses(files, Holds)'
  <2>1. SUFFICES ASSUME NEW g \in FifoFds
                 PROVE  /\ files'[g].used <= 1
                        /\ \A h \in Holds' : At(h)' = g =>
                             /\ files'[g].used = 0 => IsPipe(g)'
                             /\ \A k \in Holds' : At(k)' = g /\ (files'[g].used = 0 \/ k[2] = h[2] \/ ~IsPipe(g)') => k = h
    BY <1>6, <1>14 DEF Uses
  <2>2. files'[g].used = files[g].used /\ (IsPipe(g)' <=> IsPipe(g))
    BY <1>6, <1>10 DEF DupPipes
  <2>3. /\ files[g].used <= 1
        /\ \A h \in Holds : At(h) = g =>
             /\ files[g].used = 0 => IsPipe(g) /\ ~(Feeding /\ g = LastPipe)
             /\ \A k \in Holds : At(k) = g /\ (files[g].used = 0 \/ k[2] = h[2] \/ ~IsPipe(g)) => k = h
    BY DEF Plumbed, Uses
  <2>4. CASE g # fd
    <3>1. \A h \in Holds' : At(h)' = g => h \in Holds /\ At(h) = g
      BY <1>11, <2>4 DEF Still
    <3> QED
      BY <2>2, <2>3, <3>1
  <2>5. CASE g = fd
    <3>1. IsPipe(g)
      BY <1>4, <1>5, <2>5 DEF IsPipe
    <3>2. ASSUME NEW h \in Holds', At(h)' = g, h # x
          PROVE  h \in Holds /\ At(h) = g /\ h[2] = 1 /\ files[g].used # 0
      <4>1. h \in Holds /\ At(h) = g
        BY <1>11, <3>2 DEF Still
      <4>2. h[2] = 1
        BY <1>5, <2>5, <4>1
      <4> QED
        BY <1>2, <2>3, <2>5, <4>1, <4>2
    <3>3. x[2] = 0
      BY DEF x
    <3> QED
      BY <2>2, <2>3, <3>1, <3>2, <3>3
  <2> QED
    BY <2>4, <2>5
<1>23. Fresh'
  BY <1>6, FreshQuiet DEF Plumbed
<1> QED
  BY <1>15, <1>17, <1>18, <1>20, <1>21, <1>22, <1>23 DEF Plumbed

LEMMA PlumbedDups ==
  ASSUME Shape, TtyCounted, Clean, Plumbed, Piped, slip = {}, slip' = {}, Dup \/ DupPipe
  PROVE  Plumbed'
<1>1. PICK fd1 \in Slots, fd2 \in {0, 1} :
        /\ DupPuts(fd1, fd2)
        /\ Dup => fd1 = sh.fd /\ fd2 = IF sh.todo[1] = "dup0" THEN 0 ELSE 1
        /\ DupPipe => fd1 = sh.stdin /\ fd2 = 0
  BY CleanDupIs
<1>2. /\ sh.todo # <<>> /\ Has(sh.todo, sh.todo[1])
      /\ Dup => sh.todo[1] \in {"dup0", "dup1"} /\ Ready
      /\ DupPipe => sh.todo[1] = "duppipe"
  BY ShellFacts DEF Dup, DupPipe, Calls, Ready
<1>3. (fd2 = 0 => sh.todo[1] \in {"dup0", "duppipe"}) /\ (fd2 = 1 => sh.todo[1] = "dup1")
  BY <1>1, <1>2
<1>4. DupPuts(fd1, fd2) /\ DupKeeps(fd2)
  BY <1>1, <1>3, DupQuiet
<1>5. CASE Dup
  <2>1. Ready /\ fd1 = sh.fd /\ (fd2 = 0 => sh.todo[1] = "dup0")
    BY <1>1, <1>2, <1>5
  <2> QED
    BY <1>4, <1>5, <2>1, PlumbedDupFile, PlumbedDupOut
<1>6. CASE DupPipe
  BY <1>1, <1>2, <1>4, <1>6, PlumbedDupIn
<1> QED
  BY <1>5, <1>6

\* What rm frees is nobody's.
LEMMA RmLeaves ==
  ASSUME Shape, slip' = {}, Rm
  PROVE  /\ UNCHANGED <<files, alloc, table, bytes, phase, slot, feeder, got>>
         /\ ~Ready' /\ ~Feeding' /\ Passes
         /\ \/ UNCHANGED <<dir, kind>>
            \/ \E i \in Inodes :
                 /\ bytes[i] = <<>> /\ \A h \in Holds : ~IsFor(At(h), i)
                 /\ \A j \in Inodes : kind'[j] = "free" => j = i \/ kind[j] = "free"
                 /\ \A l \in Progs : PipeOf(l)' = PipeOf(l) \/ (PipeOf(l)' = 0 /\ PipeOf(l) = i)
<1> DEFINE i == IF sh.cad = 0 THEN 0 ELSE dir[sh.cad]
<1>1. /\ sh.todo # <<>> /\ sh.todo[1] = "rm" /\ sh' = [sh EXCEPT !.todo = Then]
      /\ UNCHANGED <<files, alloc, table, bytes, phase, slot, line, feeder, got>>
      /\ IF i = 0 THEN UNCHANGED <<dir, kind>>
         ELSE /\ dir' = [dir EXCEPT ![sh.cad] = 0] /\ kind' = [kind EXCEPT ![i] = "free"]
              /\ slip' = slip \union (IF On(i) # {} \/ bytes[i] # <<>> THEN {"removed"} ELSE {})
  BY ShellFacts DEF Rm, Calls
<1>2. /\ sh \in Shells /\ sh.cad \in Names \union {0} /\ dir \in Dirs /\ kind \in Kinds /\ sh.todo \in Seq(Steps)
      /\ table \in Tables
  BY ShellFacts DEF Shape, Typed, ShellTyped, KernelTyped, ProgsTyped
<1>3. /\ sh'.todo = Then /\ sh'.pid = sh.pid /\ sh'.piped = sh.piped /\ sh'.stdin = sh.stdin /\ sh'.left = sh.left
  BY <1>1, <1>2 DEF Shells
<1>4. Passes
  BY <1>1, <1>3, PassesDone
<1>5. ~sh.piped /\ Has(sh.todo, "rm") /\ Ordered(sh.todo)
  BY <1>1, ShellFacts DEF Shape, Planned
<1>6. ~Has(sh.todo, "duppipe")
  <2>1. Head(sh.todo) = "rm"
    BY <1>1, ShellFacts
  <2>2. \A x : Has(sh.todo, x) => x = "rm" \/ Follows("rm", x)
    BY <1>1, <1>2, <1>5, <2>1, TailOrdered
  <2> QED
    BY <2>2 DEF Follows
<1>7. ~Feeding'
  <2>1. ~Has(sh'.todo, "duppipe")
    BY <1>4, <1>6 DEF Passes, GoesOn, Before
  <2> QED
    BY <1>3, <1>5, <2>1 DEF Feeding
<1>8. ~Ready'
  BY <1>1, <1>3, StepDone DEF Shape, Typed
<1>9. CASE i # 0
  <2>1. i \in Inodes /\ sh.cad \in Names /\ i = dir[sh.cad]
    BY <1>2, <1>9 DEF Dirs
  <2>2. dir' = [dir EXCEPT ![sh.cad] = 0] /\ kind' = [kind EXCEPT ![i] = "free"]
    BY <1>1, <1>9
  <2>3. On(i) = {} /\ bytes[i] = <<>>
    BY <1>1, <1>9
  <2>4. ASSUME NEW h \in Holds PROVE ~IsFor(At(h), i)
    <3>1. IsFor(At(h), i) => h[1] \in On(i)
      BY DEF IsFor, At, On
    <3> QED
      BY <2>3, <3>1
  <2>5. \A j \in Inodes : kind'[j] = "free" => j = i \/ kind[j] = "free"
    BY <1>2, <2>2 DEF Kinds
  <2>6. \A l \in Progs : PipeOf(l)' = PipeOf(l) \/ (PipeOf(l)' = 0 /\ PipeOf(l) = i)
    BY <1>2, <2>1, <2>2, Sizes DEF Dirs, PipeOf, PipeName
  <2> HIDE DEF i
  <2> QED
    BY <1>1, <1>4, <1>7, <1>8, <2>1, <2>3, <2>4, <2>5, <2>6
<1> QED
  BY <1>1, <1>4, <1>7, <1>8, <1>9

LEMMA PlumbedRm == ASSUME Shape, Plumbed, slip' = {}, Rm PROVE Plumbed'
<1>1. /\ UNCHANGED <<files, alloc, table, bytes, phase, slot, feeder, got>>
      /\ ~Ready' /\ ~Feeding' /\ Passes
  BY RmLeaves
<1>2. ASSUME NEW l \in Progs, PipeOf(l) # 0, NEW h \in Holds, IsFor(At(h), PipeOf(l))
      PROVE  PipeOf(l)' = PipeOf(l)
  <2>1. CASE UNCHANGED <<dir, kind>>
    BY <2>1, PipesNext
  <2>2. CASE ~UNCHANGED <<dir, kind>>
    <3>1. PICK i \in Inodes : /\ ~IsFor(At(h), i)
                              /\ PipeOf(l)' = PipeOf(l) \/ (PipeOf(l)' = 0 /\ PipeOf(l) = i)
      BY <2>2, RmLeaves
    <3> QED
      BY <1>2, <3>1
  <2> QED
    BY <2>1, <2>2
<1>3. ASSUME NEW l \in Progs, PipeOf(l)' # 0 PROVE PipeOf(l)' = PipeOf(l)
  <2>1. CASE UNCHANGED <<dir, kind>>
    BY <2>1, PipesNext
  <2> QED
    BY <1>3, <2>1, RmLeaves
<1>4. ASSUME NEW j \in Inodes, kind'[j] = "free"
      PROVE  bytes[j] = <<>> /\ \A h \in Holds : ~IsFor(At(h), j)
  <2>1. CASE kind[j] = "free"
    BY <2>1 DEF Plumbed, Alive
  <2>2. CASE kind[j] # "free"
    BY <1>4, <2>2, RmLeaves
  <2> QED
    BY <2>1, <2>2
<1>5. Steady({})
  BY <1>1, SameSteady
<1>6. Holds' = Holds /\ \A h \in Holds' : Still(h, {})
  <2>1. Holds' = Holds
    BY <1>1 DEF Holds, Live
  <2> QED
    BY <1>1, <2>1 DEF Still, At
<1>7. Alive'
  BY <1>1, <1>4, <1>5, <1>6, AliveStays DEF Plumbed
<1>8. Joined'
  <2>1. ASSUME NEW l \in Progs, PipeOf(l)' # 0
        PROVE  /\ PipeOf(l)' = PipeOf(l) /\ phase'[l] # "none"
               /\ Has(sh'.todo, "mkfifo") => l # sh'.pid
               /\ bytes'[PipeOf(l)'] \in Seq({l})
    <3>1. PipeOf(l)' = PipeOf(l) /\ PipeOf(l) # 0
      BY <1>3, <2>1
    <3>2. Joins(l)
      BY <3>1 DEF Plumbed, Joined
    <3> QED
      BY <1>1, <3>1, <3>2 DEF Joins, Passes, GoesOn, Before
  <2> QED
    BY <1>1, <1>5, <1>6, <2>1, JoinedStays DEF Plumbed
<1>9. Handed' /\ ToFeed'
  BY <1>1 DEF Handed, ToFeed
<1>10. Fed'
  <2>1. ASSUME NEW q \in Progs, feeder[q] # 0, phase'[q] \in {"new", "run"}
        PROVE  PipeOf(feeder[q])' = PipeOf(feeder[q])
    <3>1. PICK l \in Progs : l = feeder[q] /\ l = feeder'[q]
      BY <1>1, <2>1 DEF Shape, Typed, ProgsTyped
    <3>2. PipeOf(l) # 0 /\ IsFor(table[q][0], PipeOf(l)) /\ table[q][0] \in Fds
      BY <1>1, <2>1, <3>1 DEF Plumbed, Fed, FedOf, Fds
    <3>3. <<q, 0>> \in Holds /\ At(<<q, 0>>) = table[q][0]
      BY <1>1, <2>1, <3>2, Sizes, RunningHolds
    <3>4. PipeOf(l)' = PipeOf(l)
      BY <1>2, <3>2, <3>3
    <3> QED
      BY <3>1, <3>4 DEF PipeOf, PipeName
  <2> QED
    BY <1>1, <1>5, <2>1, FedStays DEF Plumbed
<1>11. Given'
  BY <1>1, GivenStays DEF Plumbed, Passes
<1>12. Uses(files, Holds)'
  <2>1. ASSUME NEW g \in FifoFds, IsPipe(g), NEW h \in Holds, At(h) = g PROVE IsPipe(g)'
    <3>1. PICK l \in Progs : PipeOf(l) # 0 /\ IsFor(g, PipeOf(l))
      BY <2>1 DEF IsPipe
    <3>2. PICK n : n = PipeOf(l) /\ n = PipeOf(l)'
      BY <1>2, <2>1, <3>1
    <3>3. IsFor(g, n)'
      BY <1>5, <3>1, <3>2 DEF Steady
    <3> QED
      BY <3>1, <3>2, <3>3 DEF IsPipe, IsFor
  <2> QED
    BY <1>1, <1>5, <1>6, <2>1, UsesStays DEF Plumbed
<1>13. Fresh'
  BY <1>1, FreshQuiet DEF Plumbed
<1> QED
  BY <1>7, <1>8, <1>9, <1>10, <1>11, <1>12, <1>13 DEF Plumbed

LEMMA PlumbedStart == ASSUME Init PROVE Plumbed
<1>1. /\ \A fd \in Fds : fd # Tty => files[fd].type = "none" /\ files[fd].used = 0
      /\ alloc["fifo"].index = 1 /\ alloc["fifo"].size = 0
      /\ \A n \in Names : dir[n] = 0
      /\ \A i \in Inodes : bytes[i] = <<>>
      /\ \A p \in Progs : phase[p] = "none" /\ feeder[p] = 0 /\ got[p] = {}
      /\ sh.todo = <<>> /\ sh.stdin = 0
  BY DEF Init, First
<1>2. Holds = {}
  BY <1>1, HoldsIs
<1>3. ~Ready /\ ~Feeding /\ ~Has(sh.todo, "prun")
  BY <1>1 DEF Ready, Feeding, Has
<1>4. \A fd \in FifoFds : fd \in Fds /\ fd # Tty
  BY Sizes DEF Fds, Tty
<1>5. \A l \in Progs : PipeOf(l) = 0
  BY <1>1, Sizes DEF PipeOf
<1>6. Fresh
  BY <1>1, <1>4 DEF Fresh
<1>7. Alive /\ Handed /\ ToFeed /\ Given
  BY <1>1, <1>2, <1>3 DEF Alive, Handed, ToFeed, Given
<1>8. Joined /\ Fed
  BY <1>1, <1>5 DEF Joined, Fed, FedOf
<1>9. Uses(files, Holds)
  BY <1>1, <1>2, <1>3, <1>4 DEF Uses
<1> QED
  BY <1>6, <1>7, <1>8, <1>9 DEF Plumbed

LEMMA PlumbedProgStep ==
  ASSUME Shape, TtyCounted, Clean, Plumbed, slip = {}, ~wild, slip' = {}, NEW p \in Progs, ProgStep(p)
  PROVE  Plumbed'
<1>1. ~Astray(p)
  <2>1. SUFFICES ASSUME Astray(p) PROVE FALSE
    OBVIOUS
  <2>2. PICK s \in Slots : table[p][s] < -1 /\ phase[p] = "run"
    BY <2>1 DEF Astray, Running
  <2>3. slot[p] = 0 /\ s >= 0 /\ table[p][s] # -1
    BY <2>2, Sizes DEF Shape, Unclosed
  <2>4. <<p, s>> \in Holds /\ <<p, s>>[1] = p /\ <<p, s>>[2] = s
    BY <2>2, <2>3, HoldsIs
  <2>5. table[p][s] = Tty \/ Leads(table[p][s])
    BY <2>4 DEF Clean, Slotted
  <2>6. table[p][s] \in Nat
    BY <2>5, Sizes DEF Leads, LeadsIn, Tty
  <2> QED
    BY <2>2, <2>6
<1> QED
  BY <1>1, PlumbedProgOpens, PlumbedRead, PlumbedWrite, PlumbedEnd, PlumbedCloses DEF ProgStep

LEMMA PlumbedStep ==
  ASSUME Shape, TtyCounted, Clean, Plumbed, Piped, slip = {}, ~wild, slip' = {}, [Next]_vars
  PROVE  Plumbed'
<1>1. CASE UNCHANGED vars
  <2>1. UNCHANGED <<files, table, alloc, dir, kind, feeder, slot, sh, phase, got, bytes>>
    BY <1>1 DEF vars
  <2>2. \A q \in Progs : Reads(q)
    BY <2>1 DEF Reads
  <2>3. BytesFit
    BY <2>1, SameBytes
  <2> QED
    BY <2>1, <2>2, <2>3, PlumbedCalm
<1>2. CASE \E p \in Progs : ProgStep(p)
  BY <1>2, PlumbedProgStep
<1>3. CASE ShellStep
  <2>1. CASE Prompt \/ Loop \/ Prun \/ Waitpid \/ Woken
    BY <2>1, PlumbedShell
  <2>2. CASE Dup \/ DupPipe
    BY <2>2, PlumbedDups
  <2> QED
    BY <1>3, <2>1, <2>2, PlumbedPcreate, PlumbedOpenFile, PlumbedOpenPipe, PlumbedRm DEF ShellStep
<1> QED
  BY <1>1, <1>2, <1>3 DEF Next

LEMMA HasJoined ==
  ASSUME NEW X, NEW s \in Seq(X), NEW t \in Seq(X), NEW x, Has(s, x) \/ Has(t, x)
  PROVE  s \o t \in Seq(X) /\ Has(s \o t, x)
<1>1. s \o t \in Seq(X) /\ Len(s \o t) = Len(s) + Len(t)
  OBVIOUS
<1>2. CASE Has(s, x)
  <2>1. PICK i \in 1 .. Len(s) : s[i] = x
    BY <1>2 DEF Has
  <2>2. i \in 1 .. Len(s \o t) /\ (s \o t)[i] = x
    BY <1>1, <2>1
  <2> QED
    BY <1>1, <2>2 DEF Has
<1>3. CASE Has(t, x)
  <2>1. PICK i \in 1 .. Len(t) : t[i] = x
    BY <1>3 DEF Has
  <2>2. Len(s) + i \in 1 .. Len(s \o t) /\ (s \o t)[Len(s) + i] = x
    BY <1>1, <2>1
  <2> QED
    BY <1>1, <2>2 DEF Has
<1> QED
  BY <1>2, <1>3

\* A program that is piped is to make its pipe.
LEMMA PipesPlan ==
  ASSUME NEW a \in BOOLEAN, NEW b \in BOOLEAN, NEW c \in BOOLEAN, NEW e \in BOOLEAN
  PROVE  Has(PlanFor(a, b, c, TRUE, e), "mkfifo")
<1> DEFINE s1 == If(a, <<"out", "dup1">>)
           s2 == If(b, <<"in", "dup0">>)
           s3 == If(c, <<"duppipe">>)
           s4 == If(TRUE, <<"mkfifo", "dup1">>)
           s5 == <<"prun">>
           s6 == If(e, <<"waitpid", "rm">>)
           s  == s1 \o s2 \o s3
<1>1. /\ s1 \in Seq(Steps) /\ s2 \in Seq(Steps) /\ s3 \in Seq(Steps)
      /\ s4 \in Seq(Steps) /\ s5 \in Seq(Steps) /\ s6 \in Seq(Steps)
  <2>1. \A x \in Steps, y \in Steps : <<x, y>> \in Seq(Steps)
    OBVIOUS
  <2>2. \A x \in Steps : <<x>> \in Seq(Steps)
    OBVIOUS
  <2>3. <<>> \in Seq(Steps)
    OBVIOUS
  <2>4. ASSUME NEW q \in BOOLEAN, NEW t \in Seq(Steps) PROVE If(q, t) \in Seq(Steps)
    BY <2>3 DEF If
  <2>5. {"out", "in", "dup0", "dup1", "duppipe", "mkfifo", "prun", "waitpid", "rm"} \subseteq Steps
    BY DEF Steps
  <2> QED
    BY <2>1, <2>2, <2>3, <2>4, <2>5
<1>2. Has(s4, "mkfifo")
  BY DEF If, Has
<1>3. PlanFor(a, b, c, TRUE, e) = s \o s4 \o s5 \o s6
  BY DEF PlanFor
<1> HIDE DEF s1, s2, s3, s4, s5, s6
<1>4. s \in Seq(Steps)
  BY <1>1
<1> HIDE DEF s
<1>5. s \o s4 \in Seq(Steps) /\ Has(s \o s4, "mkfifo")
  BY <1>1, <1>2, <1>4, HasJoined
<1>6. s \o s4 \o s5 \in Seq(Steps) /\ Has(s \o s4 \o s5, "mkfifo")
  BY <1>1, <1>5, HasJoined
<1>7. Has(s \o s4 \o s5 \o s6, "mkfifo")
  BY <1>1, <1>6, HasJoined
<1> QED
  BY <1>3, <1>7

LEMMA PipedDone ==
  ASSUME Shape, Piped, sh.todo # <<>>, sh.todo[1] # "mkfifo",
         sh'.todo \in {Tail(sh.todo), Then}, sh'.piped = sh.piped
  PROVE  Piped'
<1> DEFINE t == Tail(sh.todo)
<1>1. sh.todo \in Seq(Steps) /\ Ordered(sh.todo) /\ Head(sh.todo) = sh.todo[1]
  BY ShellFacts DEF Shape, Planned
<1>2. /\ \A x : Has(t, x) => Has(sh.todo, x)
      /\ \A x : Has(sh.todo, x) => x = Head(sh.todo) \/ Has(t, x)
  BY <1>1, TailOrdered
<1>3. sh'.todo = t \/ sh'.todo = <<"pcreate">>
  BY DEF Then, Rest
<1> HIDE DEF t
<1>4. ~Has(<<"pcreate">>, "duppipe")
  BY DEF Has
<1> QED
  BY <1>1, <1>2, <1>3, <1>4 DEF Piped

LEMMA PipedPcreate == ASSUME Shape, Pcreate PROVE Piped'
<1>1. /\ Command \in Commands /\ PipedNow \in BOOLEAN /\ sh'.piped = PipedNow
      /\ \/ sh'.todo = PcreatePlan
         \/ sh'.todo \in {<<"pcreate">>, <<>>}
  BY PcreateIs DEF PcreateKnown, PcreateUnknown
<1>2. CASE sh'.todo = PcreatePlan
  <2> DEFINE a == sh.out \/ Command.out
             b == sh.in \/ Command.in
             c == sh.stdin # 0
             e == ~Command.bg /\ ~PipedNow
  <2>1. a \in BOOLEAN /\ b \in BOOLEAN /\ c \in BOOLEAN /\ e \in BOOLEAN
    BY <1>1, ShellFacts DEF Commands
  <2>2. PcreatePlan = PlanFor(a, b, c, PipedNow, e)
    BY DEF PcreatePlan
  <2> HIDE DEF a, b, c, e
  <2>3. PipedNow => Has(PcreatePlan, "mkfifo")
    BY <1>1, <2>1, <2>2, PipesPlan
  <2> QED
    BY <1>1, <1>2, <2>3 DEF Piped
<1>3. CASE sh'.todo \in {<<"pcreate">>, <<>>}
  BY <1>3 DEF Piped, Has
<1> QED
  BY <1>1, <1>2, <1>3

LEMMA PipedStep == ASSUME Shape, Piped, [Next]_vars PROVE Piped'
<1>1. sh \in Shells /\ sh.todo \in Seq(Steps) /\ Ordered(sh.todo) /\ (sh.todo # <<>> => Head(sh.todo) = sh.todo[1])
  BY ShellFacts DEF Shape, Planned, Typed, ShellTyped
<1>2. CASE UNCHANGED sh
  BY <1>2 DEF Piped
<1>3. CASE Prompt \/ Loop
  <2>1. CASE Prompt
    <3>1. sh'.todo = <<"pcreate">>
      BY <2>1 DEF Prompt
    <3> QED
      BY <3>1 DEF Piped, Has
  <2>2. CASE Loop
    <3>1. sh'.todo = <<"loop">>
      BY <1>1, <2>2 DEF Loop, Shells
    <3> QED
      BY <3>1 DEF Piped, Has
  <2> QED
    BY <1>3, <2>1, <2>2
<1>4. CASE Dup \/ DupPipe \/ Prun \/ Woken \/ Rm
  <2>1. sh.todo # <<>> /\ sh.todo[1] # "mkfifo" /\ sh'.todo \in {Tail(sh.todo), Then} /\ sh'.piped = sh.piped
    BY <1>1, <1>4 DEF Dup, DupPipe, Prun, Woken, Rm, Calls, Shells
  <2> QED
    BY <2>1, PipedDone
<1>5. CASE Waitpid
  <2>1. sh.todo # <<>> /\ sh.todo[1] = "waitpid" /\ sh'.todo = <<"waiting">> \o Tail(sh.todo)
    BY <1>1, <1>5 DEF Waitpid, Calls, Shells
  <2>2. \A x : Has(sh'.todo, x) => x \in After
    BY <1>1, <2>1, WaitingPlan
  <2> QED
    BY <2>2 DEF Piped, After
<1>6. CASE OpenFile
  <2>1. sh.todo # <<>> /\ Head(sh.todo) \in {"out", "in"} /\ Head(sh.todo) = sh.todo[1] /\ sh'.piped = sh.piped
    BY <1>1, <1>6 DEF OpenFile, Calls, Shells
  <2>2. sh'.todo \in {Tail(sh.todo), Tail(Tail(sh.todo))}
    BY <1>1, <1>6 DEF OpenFile, Shells
  <2>3. CASE sh'.todo = Tail(sh.todo)
    BY <2>1, <2>3, PipedDone
  <2>4. CASE sh'.todo = Tail(Tail(sh.todo))
    <3> DEFINE t == Tail(sh.todo)
    <3>1. /\ t \in Seq(Steps) /\ Ordered(t) /\ t # <<>> /\ t[1] \in {"dup0", "dup1"}
          /\ \A x : Has(t, x) => Has(sh.todo, x)
          /\ \A x : Has(sh.todo, x) => x = Head(sh.todo) \/ Has(t, x)
      BY <1>1, <2>1, TailOrdered
    <3> HIDE DEF t
    <3>2. /\ Head(t) = t[1] /\ \A x : Has(Tail(t), x) => Has(t, x)
          /\ \A x : Has(t, x) => x = Head(t) \/ Has(Tail(t), x)
      BY <3>1, TailOrdered
    <3>3. sh'.todo = Tail(t)
      BY <2>4 DEF t
    <3> QED
      BY <2>1, <3>1, <3>2, <3>3 DEF Piped
  <2> QED
    BY <2>2, <2>3, <2>4
<1>7. CASE OpenPipe
  <2>1. sh.todo # <<>> /\ Head(sh.todo) = "mkfifo" /\ sh'.todo = Tail(sh.todo)
    BY <1>1, <1>7 DEF OpenPipe, Calls, Shells
  <2>2. \A x : Has(sh'.todo, x) => Follows("mkfifo", x)
    BY <1>1, <2>1, TailOrdered
  <2> QED
    BY <2>2 DEF Piped, Follows
<1>8. CASE \E p \in Progs : ProgStep(p)
  <2>1. UNCHANGED sh
    BY <1>8 DEF ProgStep, ProgOpens, ProgMkfifo, Astray, Read, Write, End, Close, Kill
  <2> QED
    BY <1>2, <2>1
<1>9. CASE UNCHANGED vars
  BY <1>2, <1>9 DEF vars
<1> QED
  BY <1>3, <1>4, <1>5, <1>6, <1>7, <1>8, <1>9, PipedPcreate DEF Next, ShellStep

PlumbedSoFar == slip = {} => Plumbed
Kept == Shape /\ TtyCounted /\ CleanSoFar
PipesSoFar == Kept /\ Piped /\ PlumbedSoFar

LEMMA PipesAlways == Spec => []PipesSoFar
<1>1. Init => Piped /\ PlumbedSoFar
  <2>1. Init => Piped
    BY DEF Init, Piped, Has
  <2> QED
    BY <2>1, PlumbedStart DEF PlumbedSoFar
<1>2. Kept /\ Piped /\ PlumbedSoFar /\ [Next]_vars => (Piped /\ PlumbedSoFar)'
  <2> SUFFICES ASSUME Kept, Piped, PlumbedSoFar, [Next]_vars PROVE (Piped /\ PlumbedSoFar)'
    OBVIOUS
  <2>1. Piped'
    BY PipedStep DEF Kept
  <2>2. ASSUME slip' = {} PROVE Plumbed'
    <3>1. slip = {}
      BY <2>2, SlipsStay DEF Kept
    <3> QED
      BY <2>2, <3>1, PlumbedStep DEF Kept, CleanSoFar, PlumbedSoFar
  <2> QED
    BY <2>1, <2>2 DEF PlumbedSoFar
<1>3. Spec => []Kept
  BY CleanAlways DEF Kept
<1> QED
  BY <1>1, <1>2, <1>3, PTL DEF Spec, PipesSoFar

\* A program reads from its pipe what the program on its left wrote, and
\* nothing of another pipe, an older one with the same descriptor or the same
\* name included, as long as none of the slips happens.
THEOREM DescriptorsPrivatePipes == Spec => []PrivatePipes
<1>1. PipesSoFar => PrivatePipes
  BY DEF PipesSoFar, PlumbedSoFar, Plumbed, Fed, FedOf, PrivatePipes
<1> QED
  BY <1>1, PipesAlways, PTL

\* The bytes of a fifo get fewer only by a read, or when nobody has it.
DropsRight ==
  slip' = {} => \A i \in Inodes :
    Len(bytes'[i]) < Len(bytes[i]) => (\E p \in Progs : Read(p)) \/ On(i)' = {}

LEMMA WriteGrows ==
  ASSUME Shape, NEW p \in Progs, Write(p), NEW i \in Inodes
  PROVE  ~(Len(bytes'[i]) < Len(bytes[i]))
<1>1. bytes \in [Inodes -> Seq(Progs)]
  BY DEF Shape, Typed, KernelTyped, BytesTyped
<1>2. PICK j : bytes' = [bytes EXCEPT ![j] = Append(@, p)]
  BY DEF Write
<1>3. bytes'[i] = bytes[i] \/ bytes'[i] = Append(bytes[i], p)
  BY <1>1, <1>2
<1>4. Len(Append(bytes[i], p)) = Len(bytes[i]) + 1 /\ Len(bytes[i]) \in Nat
  BY <1>1
<1> QED
  BY <1>3, <1>4

LEMMA DropsRightStep ==
  ASSUME PipesSoFar, [Next]_vars
  PROVE  DropsRight
<1> SUFFICES ASSUME slip' = {}, NEW i \in Inodes, Len(bytes'[i]) < Len(bytes[i]),
                    \A p \in Progs : ~Read(p)
             PROVE  On(i)' = {}
  BY DEF DropsRight
<1>1. Shape /\ TtyCounted /\ slip = {}
  BY SlipsStay DEF PipesSoFar, Kept
<1>2. Clean /\ ~wild /\ Plumbed
  BY <1>1 DEF PipesSoFar, Kept, CleanSoFar, PlumbedSoFar
<1>3. bytes' # bytes
  <2>1. Len(bytes[i]) \in Nat
    BY <1>1 DEF Shape, Typed, KernelTyped, BytesTyped
  <2> QED
    BY <2>1
<1>4. ~(Dup \/ DupPipe)
  <2>1. SUFFICES ASSUME Dup \/ DupPipe PROVE FALSE
    OBVIOUS
  <2>2. PICK fd1 \in Slots, fd2 \in {0, 1} :
          /\ DupPuts(fd1, fd2)
          /\ Dup => fd1 = sh.fd /\ fd2 = IF sh.todo[1] = "dup0" THEN 0 ELSE 1
          /\ DupPipe => fd1 = sh.stdin /\ fd2 = 0
    BY <1>1, <1>2, <2>1, CleanDupIs
  <2>3. (Dup => sh.todo[1] \in {"dup0", "dup1"}) /\ (DupPipe => sh.todo[1] = "duppipe")
    BY <1>1, ShellFacts DEF Dup, DupPipe, Calls
  <2>4. (fd2 = 0 => sh.todo[1] \in {"dup0", "duppipe"}) /\ (fd2 = 1 => sh.todo[1] = "dup1")
    BY <2>1, <2>2, <2>3
  <2>5. DupKeeps(fd2)
    BY <1>1, <1>2, <2>1, <2>2, <2>4, DupQuiet
  <2> QED
    BY <1>3, <2>5 DEF DupKeeps
<1>5. \E p \in Progs : Close(p) \/ Kill(p)
  <2>1. ~ShellStep /\ ~UNCHANGED vars
    BY <1>3, <1>4 DEF ShellStep, Prompt, Pcreate, OpenFile, OpenPipe, Loop, Prun, Waitpid, Woken, Rm, vars
  <2>2. PICK p \in Progs : ProgStep(p)
    BY <2>1 DEF Next
  <2>3. ~Write(p)
    BY <1>1, WriteGrows
  <2> QED
    BY <1>3, <2>2, <2>3 DEF ProgStep, ProgOpens, ProgMkfifo, Astray, End
<1>6. PICK p \in Progs : Close(p) \/ Kill(p)
  BY <1>5
<1>7. bytes'[i] = bytes[i] \/ \A h \in Holds' : ~IsFor(At(h), i)'
  BY <1>1, <1>2, <1>6, PlumbedCloses
<1>8. \A h \in Holds' : ~IsFor(At(h), i)'
  <2>1. Len(bytes[i]) \in Nat
    BY <1>1 DEF Shape, Typed, KernelTyped, BytesTyped
  <2> QED
    BY <1>7, <2>1
<1> QED
  BY <1>8 DEF On, IsFor, At

\* What is in a fifo goes to a reader, or is dropped by the close after which
\* no program that runs has the fifo, as long as none of the slips happens:
\* fd_close and the sharing of a pipe's descriptor lose no byte.
THEOREM DescriptorsPipeKept == Spec => PipeKept
<1>1. PipesSoFar /\ [Next]_vars => [DropsRight]_vars
  BY DropsRightStep
<1>2. PipeKept <=> [][DropsRight]_vars
  BY DEF PipeKept, DropsRight
<1> QED
  BY <1>1, <1>2, PipesAlways, PTL DEF Spec

=============================================================================
