----------------------------- MODULE FileBlocks -----------------------------
(***************************************************************************)
(* kernel/fs/fs.c and bitmap.c: the bytes of regular files.  An inode has   *)
(* NDirect direct blocks (12 in the code) and one block of each level of    *)
(* indirection; a block is Cells cells, each a byte or a block number (1024 *)
(* bytes or 256 numbers).  A third level needs more blocks than the disk    *)
(* has, and is left out.                                                    *)
(*                                                                         *)
(* A call is not interrupted; its loop over the bytes, or the blocks, is    *)
(* one step per turn, with the statics n and b of fs.c in between.          *)
(***************************************************************************)
EXTENDS Integers, Sequences, FiniteSets

CONSTANTS
  Inodes, NBlocks, NDirect, Cells,
  Byte(_, _),        \* what programs write in a file, by file and place
  WriteSizes, ReadSizes,
  MaxLen,            \* bytes a file may get in the instance
  MaxCalls

ASSUME BlocksAssumption ==
  /\ NBlocks \in Nat /\ NDirect \in Nat \ {0} /\ Cells \in Nat \ {0}
  /\ MaxLen \in Nat /\ WriteSizes \subseteq Nat /\ ReadSizes \subseteq Nat \ {0}
  /\ MaxLen < Cells * (NDirect + Cells + Cells * Cells)
  /\ \A r \in ReadSizes : MaxLen + r < Cells * (NDirect + Cells + Cells * Cells)
  /\ MaxCalls \in Nat /\ 0 \notin Inodes
  /\ \A i \in Inodes, p \in 0..MaxLen : Byte(i, p) \in Nat

VARIABLES
  ino,     \* the inodes, as block_read finds them
  taken,   \* bm_inodes
  marks,   \* bm_blocks
  blk,     \* the blocks, as block_read finds them
  n,       \* the inode a call works on
  b,       \* the block a call works on
  call,    \* the call that runs, and where it is
  result,  \* the last one that returned
  past,    \* not in the code: a read has gone past the end of a file
  calls

vars == <<ino, taken, marks, blk, n, b, call, result, past, calls>>

Blocks == 1..NBlocks
Cell   == 0..Cells-1
Slots  == 0..NDirect+1          \* data_blocks

NoInode == [blocks |-> 0, lwo |-> 0, data |-> [k \in Slots |-> 0]]
Zeroes  == [c \in Cell |-> 0]   \* block_clear
Idle    == [op |-> "none", ino |-> 0, l |-> 0, at |-> 0, left |-> 0,
            from |-> 0, got |-> <<>>]
NoResult == [op |-> "none", ino |-> 0, from |-> 0, size |-> 0, got |-> <<>>]

(***************************************************************************)
(* From a logical block to the way to it                                    *)
(***************************************************************************)
Level(l)    == IF l < NDirect THEN 0 ELSE IF l < NDirect + Cells THEN 1 ELSE 2
DirBlock(l) == IF Level(l) = 0 THEN l ELSE NDirect + Level(l) - 1
Indir1(l)   == IF Level(l) = 1 THEN l - NDirect ELSE (l - NDirect - Cells) \div Cells
Indir2(l)   == (l - NDirect - Cells) % Cells

FirstFree(used) ==            \* bitmap_first_valued(bm_blocks, size, 0) + 1
  CHOOSE k \in Blocks \ used : \A m \in Blocks \ used : k <= m

\* make_ph_block goes down one level after the other.  The disk on the way is
\* [marks, blk, n, ph, new, full]; new: ph was just allocated, and its contents
\* count as zeroes.  With no block free the code runs outside its bitmap: full.
Now == [marks |-> marks, blk |-> blk, n |-> n, ph |-> 0, new |-> FALSE, full |-> FALSE]

FromInode(d, k) ==
  IF d.full THEN d
  ELSE IF d.n.data[k] # 0 THEN [d EXCEPT !.ph = d.n.data[k], !.new = FALSE]
  ELSE IF Blocks \subseteq d.marks THEN [d EXCEPT !.full = TRUE]
  ELSE LET ph == FirstFree(d.marks) IN
       [d EXCEPT !.marks = @ \union {ph}, !.n.data[k] = ph, !.ph = ph, !.new = TRUE]

\* Mutant: a new block of numbers is read from the disk as it is.
FromBlockUncleared(d, c) ==
  LET bi == d.blk[d.ph] IN
  IF d.full THEN d
  ELSE IF bi[c] # 0 THEN [d EXCEPT !.ph = bi[c], !.new = FALSE]
  ELSE IF Blocks \subseteq d.marks THEN [d EXCEPT !.full = TRUE]
  ELSE LET ph == FirstFree(d.marks) IN
       [d EXCEPT !.marks = @ \union {ph}, !.blk[d.ph] = [bi EXCEPT ![c] = ph],
                 !.ph = ph, !.new = TRUE]

FromBlock(d, c) ==
  LET bi == IF d.new THEN Zeroes ELSE d.blk[d.ph] IN
  IF d.full THEN d
  ELSE IF bi[c] # 0 THEN [d EXCEPT !.ph = bi[c], !.new = FALSE]
  ELSE IF Blocks \subseteq d.marks THEN [d EXCEPT !.full = TRUE]
  ELSE LET ph == FirstFree(d.marks) IN
       [d EXCEPT !.marks = @ \union {ph}, !.blk[d.ph] = [bi EXCEPT ![c] = ph],
                 !.ph = ph, !.new = TRUE]

MakePh(d, l) ==
  LET d0 == FromInode(d, DirBlock(l)) IN
  CASE Level(l) = 0 -> d0
    [] Level(l) = 1 -> FromBlock(d0, Indir1(l))
    [] Level(l) = 2 -> FromBlock(FromBlock(d0, Indir1(l)), Indir2(l))

LogWrite(d, l, data) ==
  LET e == MakePh(d, l) IN
  IF e.full THEN e ELSE [e EXCEPT !.blk[e.ph] = data, !.marks = @ \union {e.ph}]

\* log_block_read: what is read is blk[ph] of the result
LogRead(d, l) ==
  LET e == MakePh(d, l) IN
  IF e.full THEN e ELSE [e EXCEPT !.marks = @ \union {e.ph}]

\* A step of a call that leaves the disk as d, its block read into b.
Reads(d) == /\ marks' = d.marks /\ blk' = d.blk /\ n' = d.n
            /\ b' = d.blk[d.ph]

Full == call' = [Idle EXCEPT !.op = "full"] /\ UNCHANGED <<marks, blk, n, b>>

Begin(op) == call = Idle /\ calls < MaxCalls /\ calls' = calls + 1

\* fs_open_file, of a name that is new
Create(i) ==
  /\ Begin("open") /\ i \notin taken
  /\ taken' = taken \union {i}
  /\ ino' = [ino EXCEPT ![i] = NoInode]
  /\ UNCHANGED <<marks, blk, n, b, call, result, past>>

(***************************************************************************)
(* fs_write_file                                                            *)
(***************************************************************************)
Size(i) == ino[i].blocks * Cells + ino[i].lwo

WriteCall(i, size) ==
  /\ Begin("write") /\ i \in taken /\ Size(i) + size <= MaxLen
  /\ \E d \in {LogRead([Now EXCEPT !.n = ino[i]], ino[i].blocks)} :
       IF d.full THEN Full
       ELSE /\ Reads(d)
            /\ call' = [Idle EXCEPT !.op = "write", !.ino = i, !.left = size,
                                    !.l = ino[i].blocks, !.at = ino[i].lwo]
  /\ UNCHANGED <<ino, taken, result, past>>

\* Mutant: a block is full one byte later.
WriteByteOver ==
  /\ call.op = "write" /\ call.left > 0
  /\ call' = [call EXCEPT !.left = @ - 1, !.at = @ + 1]
  /\ UNCHANGED <<ino, taken, marks, blk, n, b, result, past, calls>>

WriteByte ==
  LET byte == Byte(call.ino, Size(call.ino) + Len(call.got))
      c == [call EXCEPT !.left = @ - 1, !.got = Append(@, byte)] IN
  /\ call.op = "write" /\ call.left > 0
  /\ IF call.at = Cells - 1
     THEN \E d \in {LogRead(LogWrite(Now, call.l, [b EXCEPT ![call.at] = byte]), call.l + 1)} :
            IF d.full THEN Full
            ELSE Reads(d) /\ call' = [c EXCEPT !.l = @ + 1, !.at = 0]
     ELSE /\ b' = [b EXCEPT ![call.at] = byte]
          /\ call' = [c EXCEPT !.at = @ + 1]
          /\ UNCHANGED <<marks, blk, n>>
  /\ UNCHANGED <<ino, taken, result, past, calls>>

\* Mutant: the last bits are not saved.
WriteEndsUnsaved ==
  /\ call.op = "write" /\ call.left = 0
  /\ ino' = [ino EXCEPT ![call.ino] = [n EXCEPT !.lwo = call.at, !.blocks = call.l]]
  /\ result' = [NoResult EXCEPT !.op = "write", !.ino = call.ino, !.got = call.got]
  /\ call' = Idle
  /\ UNCHANGED <<taken, marks, blk, n, b, past, calls>>

WriteEnds ==
  /\ call.op = "write" /\ call.left = 0
  /\ \E d \in {LogWrite([Now EXCEPT !.n.lwo = call.at], call.l, b)} :
       IF d.full THEN Full /\ UNCHANGED <<ino, result>>
       ELSE /\ Reads(d)
            /\ ino' = [ino EXCEPT ![call.ino] = [d.n EXCEPT !.blocks = call.l]]
            /\ result' = [NoResult EXCEPT !.op = "write", !.ino = call.ino, !.got = call.got]
            /\ call' = Idle
  /\ UNCHANGED <<taken, past, calls>>

(***************************************************************************)
(* fs_read_file, of a file that exists, from an offset a descriptor may     *)
(* have.  The inode is not written back, whatever was allocated.            *)
(***************************************************************************)
ReadCall(i, from, size) ==
  LET l == from \div Cells
      at == from % Cells IN
  /\ Begin("read") /\ i \in taken /\ from <= Size(i)
  /\ IF l < ino[i].blocks \/ (l = ino[i].blocks /\ at < ino[i].lwo)
     THEN /\ \E d \in {LogRead([Now EXCEPT !.n = ino[i]], l)} :
               IF d.full THEN Full
               ELSE /\ Reads(d)
                    /\ call' = [Idle EXCEPT !.op = "read", !.ino = i, !.l = l, !.at = at,
                                            !.from = from, !.left = size]
          /\ UNCHANGED result
     ELSE /\ result' = [NoResult EXCEPT !.op = "read", !.ino = i, !.from = from, !.size = size]
          /\ UNCHANGED <<marks, blk, n, b, call>>
  /\ UNCHANGED <<ino, taken, past>>

\* The last byte of the file is copied to the caller but not counted.
AtTop == call.l = n.blocks /\ call.at = n.lwo - 1

ReadReturns(got) ==
  /\ result' = [op |-> "read", ino |-> call.ino, from |-> call.from, got |-> got,
                size |-> Len(call.got) + call.left]
  /\ call' = Idle
  /\ UNCHANGED <<marks, blk, n, b>>

ReadByte ==
  LET c == [call EXCEPT !.left = @ - 1, !.got = Append(@, b[call.at])] IN
  /\ call.op = "read" /\ call.left > 0
  /\ IF AtTop THEN ReadReturns(call.got)
     ELSE /\ IF call.at = Cells - 1
             THEN \E d \in {LogRead(Now, call.l + 1)} :
                    IF d.full THEN Full
                    ELSE Reads(d) /\ call' = [c EXCEPT !.l = @ + 1, !.at = 0]
             ELSE call' = [c EXCEPT !.at = @ + 1] /\ UNCHANGED <<marks, blk, n, b>>
          /\ UNCHANGED result
  /\ past' = (past \/ call.l > n.blocks \/ (call.l = n.blocks /\ call.at >= n.lwo))
  /\ UNCHANGED <<ino, taken, calls>>

ReadEnds ==
  /\ call.op = "read" /\ call.left = 0
  /\ ReadReturns(call.got)
  /\ UNCHANGED <<ino, taken, past, calls>>

(***************************************************************************)
(* fs_rm: the blocks from the last one down, each with what led to it once  *)
(* it is the first that was led to.                                         *)
(***************************************************************************)
\* Mutant: the block of numbers is freed with the first block it leads to only if
\* it is the last of its level.
InternalLate(d, l) ==
  LET i1 == d.n.data[DirBlock(l)] IN
  CASE Level(l) = 0 -> {i1}
    [] Level(l) = 1 -> IF Indir1(l) = 0 THEN {i1} ELSE {}
    [] Level(l) = 2 -> IF Indir1(l) = 0 /\ Indir2(l) = 0
                       THEN {i1, d.blk[i1][Indir1(l)]} ELSE {}

Internal(d, l) ==            \* delete_internal_inodes
  LET i1 == d.n.data[DirBlock(l)]
      i2 == d.blk[i1][Indir1(l)] IN
  CASE Level(l) = 0 -> {i1}
    [] Level(l) = 1 -> IF Indir1(l) = 0 THEN {i1} ELSE {}
    [] Level(l) = 2 -> (IF Indir2(l) = 0 THEN {i2} ELSE {})
                       \union (IF Indir1(l) = 0 /\ Indir2(l) = 0 THEN {i1} ELSE {})

RmCall(i) ==
  /\ Begin("rm") /\ i \in taken
  /\ n' = ino[i]
  /\ call' = [Idle EXCEPT !.op = "rm", !.ino = i, !.l = ino[i].blocks + 1]
  /\ UNCHANGED <<ino, taken, marks, blk, b, result, past>>

RmBlock ==
  /\ call.op = "rm" /\ call.l > 0
  /\ \E d \in {MakePh(Now, call.l - 1)} :
       IF d.full THEN Full
       ELSE /\ marks' = d.marks \ ({d.ph} \union Internal(d, call.l - 1))
            /\ blk' = d.blk /\ n' = d.n
            /\ call' = [call EXCEPT !.l = @ - 1]
            /\ UNCHANGED b
  /\ UNCHANGED <<ino, taken, result, past, calls>>

RmEnds ==
  /\ call.op = "rm" /\ call.l = 0
  /\ taken' = taken \ {call.ino}
  /\ result' = [NoResult EXCEPT !.op = "rm", !.ino = call.ino]
  /\ call' = Idle
  /\ UNCHANGED <<ino, marks, blk, n, b, past, calls>>

Init ==
  /\ ino = [i \in Inodes |-> NoInode]
  /\ taken = {} /\ marks = {}
  /\ blk = [k \in Blocks |-> Zeroes]
  /\ n = NoInode /\ b = Zeroes
  /\ call = Idle /\ result = NoResult
  /\ past = FALSE /\ calls = 0

Next ==
  \/ \E i \in Inodes :
       \/ Create(i) \/ RmCall(i)
       \/ \E size \in WriteSizes : WriteCall(i, size)
       \/ \E from \in 0..MaxLen, size \in ReadSizes : ReadCall(i, from, size)
  \/ WriteByte \/ WriteEnds \/ ReadByte \/ ReadEnds \/ RmBlock \/ RmEnds

Spec == Init /\ [][Next]_vars

(***************************************************************************)
(* Properties                                                               *)
(***************************************************************************)
\* No offset leaves a block, no block number the disk.
TypeOK ==
  /\ ino \in [Inodes -> [blocks : Nat, lwo : Cell, data : [Slots -> 0..NBlocks]]]
  /\ taken \subseteq Inodes /\ marks \subseteq Blocks
  /\ blk \in [Blocks -> [Cell -> Nat]] /\ b \in [Cell -> Nat]
  /\ n \in [blocks : Nat, lwo : Cell, data : [Slots -> 0..NBlocks]]
  /\ call \in [op : {"none", "write", "read", "rm", "full"}, ino : Inodes \union {0},
               l : Nat, at : Cell, left : Nat, from : Nat, got : Seq(Nat)]
  /\ past \in BOOLEAN /\ calls \in 0..MaxCalls

\* The block numbers of an inode, by how one gets to them.
Ways == {<<k>> : k \in Slots} \union ({NDirect, NDirect + 1} \X Cell)
        \union ({NDirect + 1} \X Cell \X Cell)
Ptr(rec, way) ==
  LET In(k, c) == IF k = 0 THEN 0 ELSE blk[k][c] IN
  CASE Len(way) = 1 -> rec.data[way[1]]
    [] Len(way) = 2 -> In(rec.data[way[1]], way[2])
    [] Len(way) = 3 -> In(In(rec.data[way[1]], way[2]), way[3])

\* The way to a logical block, and those on it
W(l) ==
  CASE Level(l) = 0 -> <<l>>
    [] Level(l) = 1 -> <<NDirect, Indir1(l)>>
    [] Level(l) = 2 -> <<NDirect + 1, Indir1(l), Indir2(l)>>
Path(l) ==
  CASE Level(l) = 0 -> {<<l>>}
    [] Level(l) = 1 -> {<<NDirect>>, W(l)}
    [] Level(l) = 2 -> {<<NDirect + 1>>, <<NDirect + 1, Indir1(l)>>, W(l)}

\* Files whose blocks are in place, and their inodes, in memory for the one that
\* is written.
Whole  == IF call.op = "rm" THEN taken \ {call.ino} ELSE taken
Rec(i) == IF call.op = "write" /\ call.ino = i THEN n ELSE ino[i]

\* A block, of data or of numbers, that a file leads to is marked in the bitmap,
\* and there is one way to it: no two files, and no two places of a file, share a
\* block, whatever was written before in the blocks that they were given.
OneOwner ==
  \A i, j \in Whole : \A v, w \in Ways :
    Ptr(Rec(i), v) # 0 =>
      /\ Ptr(Rec(i), v) \in marks
      /\ Ptr(Rec(i), v) = Ptr(Rec(j), w) => i = j /\ v = w

\* Between calls a marked block belongs to a file: fs_rm gives back all that
\* led to the blocks it frees (delete_internal_inodes), each once it is not used.
\* A read past the end takes a block that the inode is not told of.
NoLeak ==
  call = Idle /\ ~past =>
    marks \subseteq {Ptr(ino[i], w) : i \in taken, w \in Ways}

\* What the blocks hold, byte after byte, is a file as Files has it: appended to
\* by writes, read back by reads, whatever was allocated and freed around it.
PhOf(rec, l) == Ptr(rec, W(l))
Contents ==
  [i \in Inodes |->
     IF i \notin taken THEN <<>>
     ELSE [p \in 1..Size(i) |-> blk[PhOf(ino[i], (p - 1) \div Cells)][(p - 1) % Cells]]]

F == INSTANCE Files WITH files <- Contents
IsFiles == F!Spec
=============================================================================
