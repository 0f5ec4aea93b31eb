----------------------------- MODULE DiskProofs -----------------------------
(***************************************************************************)
(* The blocks of files, for every number of blocks, of direct blocks and of *)
(* cells in a block: no block has two owners, and none is lost.  Then their *)
(* places: no two things of the disk have the same place, for any number    *)
(* and size of groups, and so what FileDisk writes is there until it is     *)
(* written again.  A mount finds the bitmaps of the last call that saved    *)
(* them, with the blocks of each file that they name.  Last, what the       *)
(* blocks hold: FileBlocks implements Files.                                *)
(***************************************************************************)
EXTENDS FileDisk, WellFoundedInduction, SequenceTheorems, TLAPS

(***************************************************************************)
(* Ways to a block: of a slot of the inode, or of a cell of the block that  *)
(* another way leads to.                                                    *)
(***************************************************************************)
Inner == {<<NDirect>>, <<NDirect + 1>>} \union ({NDirect + 1} \X Cell)
Leaves == Ways \ Inner
Root(k) == <<k>>
Kid(v, c) == IF Len(v) = 1 THEN <<v[1], c>> ELSE <<v[1], v[2], c>>

Deref(B, k, c) == IF k = 0 THEN 0 ELSE B[k][c]
PtrIn(B, rec, w) ==
  CASE Len(w) = 1 -> rec.data[w[1]]
    [] Len(w) = 2 -> Deref(B, rec.data[w[1]], w[2])
    [] Len(w) = 3 -> Deref(B, Deref(B, rec.data[w[1]], w[2]), w[3])

\* The ways to the blocks of a file up to one
Reach(m) == UNION {Path(l) : l \in 0 .. m}

NLogical == NDirect + Cells + Cells * Cells
Logical  == 0 .. NLogical - 1

\* A number is its quotient and its remainder.
LEMMA QuotRem ==
  ASSUME NEW m \in Nat, NEW q \in Nat \ {0}
  PROVE  /\ m \div q \in Nat /\ m % q \in 0 .. q - 1
         /\ m = (m \div q) * q + (m % q)
  BY Z3

\* ... and there is no other such quotient and remainder.
LEMMA QuotRemUnique ==
  ASSUME NEW q \in Nat \ {0}, NEW g \in Nat, NEW h \in Nat,
         NEW r \in 0 .. q - 1, NEW s \in 0 .. q - 1, g * q + r = h * q + s
  PROVE  g = h /\ r = s
<1>1. ASSUME NEW x \in Nat, NEW y \in Nat, NEW t \in 0 .. q - 1, NEW u \in 0 .. q - 1,
             x < y
      PROVE  x * q + t # y * q + u
  <2>1. PICK d \in Nat : y = x + 1 + d
    <3>1. y - x - 1 \in Nat
      BY <1>1
    <3> QED
      BY <3>1
  <2>2. y * q = x * q + q + d * q
    BY <2>1, Z3
  <2>3. x * q \in Nat /\ d * q \in Nat
    BY <2>1, Z3
  <2> QED
    BY <2>2, <2>3
<1>2. ~(g < h) /\ ~(h < g)
  BY <1>1
<1>3. g * q \in Nat
  BY Z3
<1> QED
  BY <1>2, <1>3

\* The quotient of a number below p * q is below p.
LEMMA QuotBelow ==
  ASSUME NEW p \in Nat, NEW q \in Nat \ {0}, NEW m \in Nat, m < p * q
  PROVE  m \div q \in 0 .. p - 1
<1>1. m \div q \in Nat /\ m % q \in 0 .. q - 1 /\ m = (m \div q) * q + (m % q)
  BY QuotRem
<1>2. SUFFICES ASSUME m \div q >= p PROVE FALSE
  BY <1>1
<1>3. PICK d \in Nat : m \div q = p + d
  <2>1. (m \div q) - p \in Nat
    BY <1>1, <1>2
  <2> QED
    BY <2>1, <1>1
<1>4. (m \div q) * q = p * q + d * q
  BY <1>3, Z3
<1>5. d * q \in Nat /\ p * q \in Nat
  BY <1>3, Z3
<1> QED
  BY <1>1, <1>4, <1>5

LEMMA BlockSizes ==
  /\ NDirect \in Nat \ {0} /\ Cells \in Nat \ {0} /\ Cells * Cells \in Nat /\ NBlocks \in Nat
  /\ NLogical \in Nat /\ MaxLen \in Nat /\ MaxLen < Cells * NLogical
<1>1. Cells * Cells \in Nat
  BY BlocksAssumption, Z3
<1> QED
  BY <1>1, BlocksAssumption DEF NLogical

LEMMA CellSizes ==
  /\ NDirect \in Nat \ {0} /\ Cells \in Nat \ {0} /\ NBlocks \in Nat
  /\ NLogical \in Nat /\ MaxLen \in Nat
  BY BlockSizes

-----------------------------------------------------------------------------
(* The ways are those of slots, and of cells below an inner one. *)

LEMMA RootWays ==
  /\ \A k \in Slots : Root(k) \in Ways
  /\ \A k, m \in Slots : Root(k) = Root(m) => k = m
  BY DEF Ways, Root

LEMMA KidWays ==
  /\ \A v \in Inner : v \in Ways
  /\ \A v \in Inner, c \in Cell : Kid(v, c) \in Ways /\ \A k \in Slots : Kid(v, c) # Root(k)
  /\ \A u, v \in Inner : \A c, e \in Cell : Kid(u, c) = Kid(v, e) => u = v /\ c = e
<1> USE BlockSizes DEF Slots, Root
<1>1. \A v \in Inner : v \in Ways
  BY DEF Ways, Inner
<1>2. ASSUME NEW v \in Inner, NEW c \in Cell
      PROVE  Kid(v, c) \in Ways /\ \A k \in Slots : Kid(v, c) # Root(k)
  BY DEF Inner, Kid, Ways
<1>3. ASSUME NEW u \in Inner, NEW v \in Inner, NEW c \in Cell, NEW e \in Cell,
             Kid(u, c) = Kid(v, e)
      PROVE  u = v /\ c = e
  BY <1>3 DEF Inner, Kid
<1> QED
  BY <1>1, <1>2, <1>3

\* What holds of the slots, and of the cells below a way if it holds of that way,
\* holds of all ways.
LEMMA WayInduction ==
  ASSUME NEW S, \A k \in Slots : Root(k) \in S,
         \A v \in Inner, c \in Cell : v \in S => Kid(v, c) \in S
  PROVE  \A w \in Ways : w \in S
<1> USE BlockSizes DEF Slots, Root
<1>1. ASSUME NEW v \in Inner PROVE v \in S
  <2>1. CASE v \in {NDirect + 1} \X Cell
    <3>1. /\ NDirect + 1 \in Slots /\ v[2] \in Cell /\ Root(NDirect + 1) \in Inner
          /\ v = Kid(Root(NDirect + 1), v[2])
      BY <2>1 DEF Inner, Kid
    <3> QED
      BY <3>1
  <2>2. CASE v \in {<<NDirect>>, <<NDirect + 1>>}
    <3>1. NDirect \in Slots /\ NDirect + 1 \in Slots
      OBVIOUS
    <3> QED
      BY <2>2, <3>1
  <2> QED
    BY <2>1, <2>2 DEF Inner
<1>2. ASSUME NEW w \in Ways PROVE w \in S
  <2>1. CASE w \in {<<k>> : k \in Slots}
    BY <2>1
  <2>2. CASE w \in {NDirect, NDirect + 1} \X Cell
    <3>1. <<w[1]>> \in Inner /\ w[2] \in Cell /\ w = Kid(<<w[1]>>, w[2])
      BY <2>2 DEF Inner, Kid
    <3> QED
      BY <1>1, <3>1
  <2>3. CASE w \in {NDirect + 1} \X Cell \X Cell
    <3>1. <<w[1], w[2]>> \in Inner /\ w[3] \in Cell /\ w = Kid(<<w[1], w[2]>>, w[3])
      BY <2>3 DEF Inner, Kid
    <3> QED
      BY <1>1, <3>1
  <2> QED
    BY <2>1, <2>2, <2>3 DEF Ways
<1> QED
  BY <1>2

LEMMA PtrRoot ==
  ASSUME NEW B, NEW rec, NEW k
  PROVE  PtrIn(B, rec, Root(k)) = rec.data[k]
<1>1. Len(<<k>>) = 1 /\ <<k>>[1] = k /\ 1 # 2 /\ 1 # 3
  OBVIOUS
<1> QED
  BY <1>1, Zenon DEF PtrIn, Root

LEMMA PtrKid ==
  ASSUME NEW B, NEW rec, NEW v \in Inner, NEW c \in Cell
  PROVE  PtrIn(B, rec, Kid(v, c)) = Deref(B, PtrIn(B, rec, v), c)
<1>1. CASE Len(v) = 1
  <2>1. Kid(v, c) = <<v[1], c>>
    BY <1>1 DEF Kid
  <2> QED
    BY <1>1, <2>1 DEF PtrIn
<1>2. CASE Len(v) = 2
  <2>1. Kid(v, c) = <<v[1], v[2], c>>
    BY <1>2 DEF Kid
  <2> QED
    BY <1>2, <2>1 DEF PtrIn
<1> QED
  BY <1>1, <1>2 DEF Inner

LEMMA PtrIsIn == \A rec, w : Ptr(rec, w) = PtrIn(blk, rec, w)
  BY DEF Ptr, PtrIn, Deref

LEMMA WayOfBlock ==
  ASSUME NEW l \in Logical
  PROVE  /\ W(l) \in Leaves
         /\ \/ /\ Level(l) = 0 /\ DirBlock(l) = l /\ l \in 0 .. NDirect - 1
               /\ W(l) = Root(l) /\ Path(l) = {Root(l)}
            \/ /\ Level(l) = 1 /\ DirBlock(l) = NDirect /\ Indir1(l) \in Cell
               /\ l = NDirect + Indir1(l)
               /\ W(l) = Kid(Root(NDirect), Indir1(l)) /\ Path(l) = {Root(NDirect), W(l)}
            \/ /\ Level(l) = 2 /\ DirBlock(l) = NDirect + 1
               /\ Indir1(l) \in Cell /\ Indir2(l) \in Cell
               /\ l = NDirect + Cells + (Indir1(l) * Cells + Indir2(l))
               /\ W(l) = Kid(Kid(Root(NDirect + 1), Indir1(l)), Indir2(l))
               /\ Path(l) = {Root(NDirect + 1), Kid(Root(NDirect + 1), Indir1(l)), W(l)}
<1> USE BlockSizes DEF Root
<1>1. CASE Level(l) = 0
  <2>1. l \in 0 .. NDirect - 1
    BY <1>1 DEF Level, Logical
  <2> QED
    BY <1>1, <2>1 DEF W, Path, DirBlock, Leaves, Ways, Inner, Slots
<1>2. CASE Level(l) = 1
  <2>1. l >= NDirect /\ l < NDirect + Cells
    BY <1>2 DEF Level, Logical
  <2>2. Indir1(l) \in Cell /\ l = NDirect + Indir1(l)
    BY <1>2, <2>1 DEF Indir1, Cell, Logical
  <2>3. W(l) = <<NDirect, Indir1(l)>>
    BY <1>2 DEF W
  <2>4. Kid(<<NDirect>>, Indir1(l)) = <<NDirect, Indir1(l)>>
    BY DEF Kid
  <2>5. W(l) \in Leaves
    BY <2>2, <2>3 DEF Leaves, Ways, Inner
  <2> QED
    BY <1>2, <2>2, <2>3, <2>4, <2>5 DEF Path, DirBlock
<1>3. CASE Level(l) = 2
  <2>0. 2 # 0 /\ 2 # 1
    OBVIOUS
  <2> DEFINE m == l - NDirect - Cells
  <2>1. m \in Nat /\ m < Cells * Cells /\ l = NDirect + Cells + m
    BY <1>3 DEF Level, Logical, NLogical
  <2>2. Indir1(l) = m \div Cells /\ Indir2(l) = m % Cells
    BY <1>3 DEF Indir1, Indir2
  <2> HIDE DEF m
  <2>3. m \div Cells \in Cell /\ m % Cells \in Cell /\ m = (m \div Cells) * Cells + (m % Cells)
    <3>1. m % Cells \in 0 .. Cells - 1 /\ m = (m \div Cells) * Cells + (m % Cells)
      BY <2>1, QuotRem
    <3>2. m \div Cells \in 0 .. Cells - 1
      BY <2>1, QuotBelow
    <3> QED
      BY <3>1, <3>2 DEF Cell
  <2>4. W(l) = <<NDirect + 1, Indir1(l), Indir2(l)>>
    BY <1>3, <2>0, Zenon DEF W
  <2>5. /\ Kid(<<NDirect + 1>>, Indir1(l)) = <<NDirect + 1, Indir1(l)>>
        /\ Kid(<<NDirect + 1, Indir1(l)>>, Indir2(l)) = <<NDirect + 1, Indir1(l), Indir2(l)>>
    BY DEF Kid
  <2>6. W(l) \in Leaves
    BY <2>2, <2>3, <2>4 DEF Leaves, Ways, Inner
  <2>7. Path(l) = {<<NDirect + 1>>, <<NDirect + 1, Indir1(l)>>, W(l)}
    BY <1>3, <2>0, Zenon DEF Path
  <2>8. DirBlock(l) = NDirect + 1
    BY <1>3 DEF DirBlock
  <2>9. l = NDirect + Cells + (Indir1(l) * Cells + Indir2(l))
    BY <2>1, <2>2, <2>3
  <2> QED
    BY <1>3, <2>2, <2>3, <2>4, <2>5, <2>6, <2>7, <2>8, <2>9
<1> QED
  BY <1>1, <1>2, <1>3 DEF Level

LEMMA PathWays == \A l \in Logical : Path(l) \subseteq Ways
<1> SUFFICES ASSUME NEW l \in Logical PROVE Path(l) \subseteq Ways
  OBVIOUS
<1>1. W(l) \in Ways
  BY WayOfBlock DEF Leaves
<1>2. /\ Root(NDirect) \in Inner /\ Root(NDirect + 1) \in Inner
      /\ \A c \in Cell : Kid(Root(NDirect + 1), c) \in Inner
  BY CellSizes DEF Inner, Root, Kid
<1>3. Path(l) \subseteq Inner \union {W(l)}
  BY <1>2, WayOfBlock
<1> QED
  BY <1>1, <1>3, KidWays

LEMMA WayUnique == \A l, m \in Logical : W(l) = W(m) => l = m
<1> SUFFICES ASSUME NEW l \in Logical, NEW m \in Logical, W(l) = W(m) PROVE l = m
  OBVIOUS
<1>1. \A j \in Logical :
        \/ Level(j) = 0 /\ W(j) = <<j>>
        \/ Level(j) = 1 /\ W(j) = <<NDirect, Indir1(j)>> /\ j = NDirect + Indir1(j)
        \/ /\ Level(j) = 2 /\ W(j) = <<NDirect + 1, Indir1(j), Indir2(j)>>
           /\ j = NDirect + Cells + (Indir1(j) * Cells + Indir2(j))
  BY WayOfBlock DEF Kid, Root
<1> QED
  BY <1>1

-----------------------------------------------------------------------------
(***************************************************************************)
(* Files I, with the inodes R, on the blocks B.                             *)
(***************************************************************************)
Distinct(B, R, I) == \A i, j \in I : \A v, w \in Ways :
  PtrIn(B, R[i], v) # 0 /\ PtrIn(B, R[i], v) = PtrIn(B, R[j], w) => i = j /\ v = w
Within(B, R, I, M) == \A i \in I : \A v \in Ways :
  PtrIn(B, R[i], v) # 0 => PtrIn(B, R[i], v) \in M

\* The way w of the file i leads to ph, and all others where they led.
Adds(B, R, B2, R2, I, i, w, ph) == \A j \in I : \A v \in Ways :
  PtrIn(B2, R2[j], v) = IF j = i /\ v = w THEN ph ELSE PtrIn(B, R[j], v)

\* What is in a block of data is not on the way to any block.
LEMMA LeafWrite ==
  ASSUME NEW B, NEW B2, NEW R, NEW I, NEW M \in SUBSET Blocks,
         Distinct(B, R, I), Within(B, R, I, M),
         NEW i \in I, NEW w \in Leaves,
         \A k \in Blocks : k # PtrIn(B, R[i], w) => B2[k] = B[k]
  PROVE  \A j \in I : \A v \in Ways : PtrIn(B2, R[j], v) = PtrIn(B, R[j], v)
<1> SUFFICES ASSUME NEW j \in I
             PROVE  \A v \in Ways : PtrIn(B2, R[j], v) = PtrIn(B, R[j], v)
  OBVIOUS
<1> DEFINE S == {v \in Ways : PtrIn(B2, R[j], v) = PtrIn(B, R[j], v)}
<1>1. \A k \in Slots : Root(k) \in S
  BY PtrRoot, RootWays
<1>2. ASSUME NEW v \in Inner, NEW c \in Cell, v \in S
      PROVE  Kid(v, c) \in S
  <2>1. v \in Ways /\ w \in Ways /\ v # w /\ Kid(v, c) \in Ways
    BY KidWays DEF Leaves
  <2>2. /\ PtrIn(B2, R[j], Kid(v, c)) = Deref(B2, PtrIn(B, R[j], v), c)
        /\ PtrIn(B, R[j], Kid(v, c)) = Deref(B, PtrIn(B, R[j], v), c)
    BY <1>2, PtrKid
  <2>3. CASE PtrIn(B, R[j], v) = 0
    BY <2>1, <2>2, <2>3 DEF Deref
  <2>4. CASE PtrIn(B, R[j], v) # 0
    <3>1. PtrIn(B, R[j], v) # PtrIn(B, R[i], w)
      BY <2>1, <2>4 DEF Distinct
    <3>2. PtrIn(B, R[j], v) \in Blocks
      BY <2>1, <2>4 DEF Within
    <3> QED
      BY <2>1, <2>2, <3>1, <3>2 DEF Deref
  <2> QED
    BY <2>3, <2>4
<1> HIDE DEF S
<1>3. \A v \in Ways : v \in S
  BY <1>1, <1>2, WayInduction
<1> QED
  BY <1>3 DEF S

\* A block that is free is given to a slot of the inode of i, ...
LEMMA AllocRoot ==
  ASSUME NEW B, NEW B2, NEW R, NEW R2, NEW I, NEW M \in SUBSET Blocks,
         Within(B, R, I, M),
         NEW i \in I, NEW k \in Slots, NEW ph \in Blocks, ph \notin M,
         R[i].data[k] = 0,
         \A j \in I : \A m \in Slots :
           R2[j].data[m] = IF j = i /\ m = k THEN ph ELSE R[j].data[m],
         \A m \in Blocks : m # ph => B2[m] = B[m],
         \A c \in Cell : B2[ph][c] = 0
  PROVE  Adds(B, R, B2, R2, I, i, Root(k), ph)
<1> SUFFICES ASSUME NEW j \in I
             PROVE  \A v \in Ways : PtrIn(B2, R2[j], v) =
                      IF j = i /\ v = Root(k) THEN ph ELSE PtrIn(B, R[j], v)
  BY DEF Adds
<1> DEFINE S == {v \in Ways : PtrIn(B2, R2[j], v) =
                   IF j = i /\ v = Root(k) THEN ph ELSE PtrIn(B, R[j], v)}
<1>0. Root(k) \in Ways /\ 0 \notin Blocks
  BY RootWays DEF Blocks
<1>1. ASSUME NEW m \in Slots PROVE Root(m) \in S
  <2>1. PtrIn(B2, R2[j], Root(m)) = R2[j].data[m] /\ PtrIn(B, R[j], Root(m)) = R[j].data[m]
    BY PtrRoot
  <2> QED
    BY <2>1, RootWays
<1>2. ASSUME NEW v \in Inner, NEW c \in Cell, v \in S
      PROVE  Kid(v, c) \in S
  <2>1. v \in Ways /\ Kid(v, c) \in Ways /\ Kid(v, c) # Root(k)
    BY KidWays
  <2>2. /\ PtrIn(B2, R2[j], Kid(v, c)) = Deref(B2, PtrIn(B2, R2[j], v), c)
        /\ PtrIn(B, R[j], Kid(v, c)) = Deref(B, PtrIn(B, R[j], v), c)
    BY PtrKid
  <2>3. CASE j = i /\ v = Root(k)
    <3>1. PtrIn(B, R[j], v) = 0
      BY <2>3, PtrRoot
    <3>2. PtrIn(B2, R2[j], v) = ph
      BY <1>2, <2>3
    <3> QED
      BY <1>0, <2>1, <2>2, <3>1, <3>2 DEF Deref
  <2>4. CASE ~(j = i /\ v = Root(k)) /\ PtrIn(B, R[j], v) = 0
    BY <1>2, <2>1, <2>2, <2>4 DEF Deref
  <2>5. CASE ~(j = i /\ v = Root(k)) /\ PtrIn(B, R[j], v) # 0
    <3>1. PtrIn(B, R[j], v) \in Blocks /\ PtrIn(B, R[j], v) # ph
      BY <2>1, <2>5 DEF Within
    <3> QED
      BY <1>2, <2>1, <2>2, <2>5, <3>1 DEF Deref
  <2> QED
    BY <2>3, <2>4, <2>5
<1> HIDE DEF S
<1>3. \A v \in Ways : v \in S
  BY <1>1, <1>2, WayInduction
<1> QED
  BY <1>3 DEF S

\* ... or to a cell of a block of numbers of i.
LEMMA AllocKid ==
  ASSUME NEW B, NEW B2, NEW R, NEW I, NEW M \in SUBSET Blocks,
         Distinct(B, R, I), Within(B, R, I, M),
         NEW i \in I, NEW u \in Inner, NEW d \in Cell, NEW ph \in Blocks, ph \notin M,
         PtrIn(B, R[i], u) # 0, B[PtrIn(B, R[i], u)][d] = 0,
         \A m \in Blocks : m # ph /\ m # PtrIn(B, R[i], u) => B2[m] = B[m],
         \A c \in Cell : B2[PtrIn(B, R[i], u)][c] =
                           IF c = d THEN ph ELSE B[PtrIn(B, R[i], u)][c],
         \A c \in Cell : B2[ph][c] = 0
  PROVE  Adds(B, R, B2, R, I, i, Kid(u, d), ph)
<1> DEFINE p == PtrIn(B, R[i], u)
<1>4. /\ p = PtrIn(B, R[i], u) /\ p # 0 /\ B[p][d] = 0
      /\ \A m \in Blocks : m # ph /\ m # p => B2[m] = B[m]
      /\ \A c \in Cell : B2[p][c] = IF c = d THEN ph ELSE B[p][c]
  OBVIOUS
<1> HIDE DEF p
<1> SUFFICES ASSUME NEW j \in I
             PROVE  \A v \in Ways : PtrIn(B2, R[j], v) =
                      IF j = i /\ v = Kid(u, d) THEN ph ELSE PtrIn(B, R[j], v)
  BY DEF Adds
<1> DEFINE S == {v \in Ways : PtrIn(B2, R[j], v) =
                   IF j = i /\ v = Kid(u, d) THEN ph ELSE PtrIn(B, R[j], v)}
<1>0. u \in Ways /\ Kid(u, d) \in Ways /\ 0 \notin Blocks /\ p \in M /\ p \in Blocks /\ p # ph
  <2>1. u \in Ways /\ Kid(u, d) \in Ways
    BY KidWays
  <2>2. p \in M
    BY <1>4, <2>1 DEF Within
  <2>3. 0 \notin Blocks
    BY DEF Blocks
  <2>4. p \in Blocks /\ p # ph
    BY <2>2
  <2> QED
    BY <2>1, <2>2, <2>3, <2>4
<1>1. ASSUME NEW m \in Slots PROVE Root(m) \in S
  <2>1. PtrIn(B2, R[j], Root(m)) = R[j].data[m] /\ PtrIn(B, R[j], Root(m)) = R[j].data[m]
    BY PtrRoot
  <2>2. Root(m) \in Ways /\ Root(m) # Kid(u, d)
    BY RootWays, KidWays
  <2> QED
    BY <2>1, <2>2
<1>2. ASSUME NEW v \in Inner, NEW c \in Cell, v \in S
      PROVE  Kid(v, c) \in S
  <2>0. v \in Ways /\ Kid(v, c) \in Ways /\ (Kid(v, c) = Kid(u, d) => v = u /\ c = d)
    BY KidWays
  <2>1. PtrIn(B, R[i], Kid(u, d)) = 0
    <3>1. PtrIn(B, R[i], Kid(u, d)) = Deref(B, p, d)
      BY <1>4, PtrKid
    <3> QED
      BY <1>4, <3>1 DEF Deref
  <2>2. /\ PtrIn(B2, R[j], Kid(v, c)) = Deref(B2, PtrIn(B2, R[j], v), c)
        /\ PtrIn(B, R[j], Kid(v, c)) = Deref(B, PtrIn(B, R[j], v), c)
    BY PtrKid
  <2>3. CASE j = i /\ v = Kid(u, d)
    <3>1. PtrIn(B2, R[j], v) = ph /\ PtrIn(B, R[j], v) = 0
      BY <1>2, <1>4, <2>1, <2>3
    <3>2. Kid(v, c) # Kid(u, d)
      BY <1>4, <2>0, <2>3, <3>1
    <3> QED
      BY <1>0, <1>4, <2>0, <2>2, <3>1, <3>2 DEF Deref
  <2>4. CASE ~(j = i /\ v = Kid(u, d)) /\ PtrIn(B, R[j], v) = 0
    <3>1. ~(j = i /\ Kid(v, c) = Kid(u, d))
      BY <2>0, <2>4
    <3> QED
      BY <1>2, <2>0, <2>2, <2>4, <3>1 DEF Deref
  <2>5. CASE ~(j = i /\ v = Kid(u, d)) /\ PtrIn(B, R[j], v) # 0
    <3>1. PtrIn(B, R[j], v) \in Blocks /\ PtrIn(B, R[j], v) # ph
      BY <2>0, <2>5 DEF Within
    <3>2. PtrIn(B, R[j], v) = p => j = i /\ v = u
      BY <1>0, <1>4, <2>0, <2>5 DEF Distinct
    <3>3. /\ PtrIn(B2, R[j], Kid(v, c)) = B2[PtrIn(B, R[j], v)][c]
          /\ PtrIn(B, R[j], Kid(v, c)) = B[PtrIn(B, R[j], v)][c]
      BY <1>2, <2>2, <2>5 DEF Deref
    <3>4. CASE PtrIn(B, R[j], v) = p
      <4>1. j = i /\ v = u /\ (Kid(v, c) = Kid(u, d) <=> c = d)
        BY <2>0, <3>2, <3>4
      <4> QED
        BY <1>4, <2>0, <3>3, <3>4, <4>1
    <3>5. CASE PtrIn(B, R[j], v) # p
      <4>1. ~(j = i /\ Kid(v, c) = Kid(u, d))
        BY <1>4, <2>0, <3>5
      <4> QED
        BY <1>4, <2>0, <3>1, <3>3, <3>5, <4>1
    <3> QED
      BY <3>4, <3>5
  <2> QED
    BY <2>3, <2>4, <2>5
<1> HIDE DEF S
<1>3. \A v \in Ways : v \in S
  BY <1>1, <1>2, WayInduction
<1> QED
  BY <1>3 DEF S

\* The block has one owner.
LEMMA AddOwner ==
  ASSUME NEW B, NEW B2, NEW R, NEW R2, NEW I, NEW M,
         Distinct(B, R, I), Within(B, R, I, M),
         NEW i \in I, NEW w \in Ways, NEW ph, ph \notin M,
         Adds(B, R, B2, R2, I, i, w, ph)
  PROVE  Distinct(B2, R2, I) /\ Within(B2, R2, I, M \union {ph})
<1>1. Within(B2, R2, I, M \union {ph})
  BY DEF Within, Adds
<1>2. ASSUME NEW j \in I, NEW m \in I, NEW v \in Ways, NEW x \in Ways,
             PtrIn(B2, R2[j], v) # 0, PtrIn(B2, R2[j], v) = PtrIn(B2, R2[m], x)
      PROVE  j = m /\ v = x
  <2>1. \A k \in I, y \in Ways : PtrIn(B, R[k], y) # 0 => PtrIn(B, R[k], y) # ph
    BY DEF Within
  <2>2. /\ PtrIn(B2, R2[j], v) = IF j = i /\ v = w THEN ph ELSE PtrIn(B, R[j], v)
        /\ PtrIn(B2, R2[m], x) = IF m = i /\ x = w THEN ph ELSE PtrIn(B, R[m], x)
    BY DEF Adds
  <2>3. PtrIn(B, R[j], v) # 0 /\ PtrIn(B, R[j], v) = PtrIn(B, R[m], x) => j = m /\ v = x
    BY DEF Distinct
  <2> QED
    BY <1>2, <2>1, <2>2, <2>3
<1> QED
  BY <1>1, <1>2 DEF Distinct

-----------------------------------------------------------------------------
(***************************************************************************)
(* A disk on the way to a block.  A block that was just allocated counts as *)
(* zeroes.                                                                  *)
(***************************************************************************)
InodeRec == [blocks : Nat, lwo : Cell, data : [Slots -> 0 .. NBlocks]]
DiskRec == [marks : SUBSET Blocks, blk : [Blocks -> [Cell -> Nat]], n : InodeRec,
            ph : 0 .. NBlocks, new : BOOLEAN, full : BOOLEAN]
Eff(d) == IF d.new THEN [d.blk EXCEPT ![d.ph] = Zeroes] ELSE d.blk

\* The files R, the one that is worked on being i, have their blocks on d.
Good(d, R, I, i) ==
  /\ d \in DiskRec /\ R \in [I -> InodeRec] /\ i \in I /\ R[i] = d.n /\ ~d.full
  /\ d.new => d.ph \in d.marks
  /\ Distinct(Eff(d), R, I) /\ Within(Eff(d), R, I, d.marks)

With(R, i, e) == [R EXCEPT ![i] = e.n]

\* From d to e the block at the end of the way w is found, and what is missing of
\* the ways X to it is allocated.
Leads(d, e, R, I, i, X, w) ==
  /\ Good(e, With(R, i, e), I, i)
  /\ e.ph = PtrIn(Eff(e), e.n, w) /\ e.ph # 0
  /\ \A j \in I : \A v \in Ways :
       \/ PtrIn(Eff(e), With(R, i, e)[j], v) = PtrIn(Eff(d), R[j], v)
       \/ j = i /\ v \in X /\ PtrIn(Eff(d), R[j], v) = 0
  /\ d.marks \subseteq e.marks
  /\ e.marks \subseteq d.marks \union {PtrIn(Eff(e), e.n, v) : v \in X}
  /\ e.n.blocks = d.n.blocks /\ e.n.lwo = d.n.lwo
  /\ \A k \in Slots : d.n.data[k] \in {0, e.n.data[k]}

LEMMA FirstFreeIsFree ==
  ASSUME NEW M, ~(Blocks \subseteq M)
  PROVE  FirstFree(M) \in Blocks \ M
<1>1. IsWellFoundedOn(OpToRel(<, Nat), Nat)
  BY NatLessThanWellFounded
<1>2. Blocks \ M \subseteq Nat /\ Blocks \ M # {}
  BY BlockSizes DEF Blocks
<1>3. PICK x \in Blocks \ M : \A y \in Blocks \ M : <<y, x>> \notin OpToRel(<, Nat)
  BY <1>1, <1>2, WFMin
<1>4. ASSUME NEW y \in Blocks \ M PROVE x <= y
  <2>1. y < x => <<y, x>> \in {ss \in Nat \X Nat : ss[1] < ss[2]}
    BY <1>2, Zenon
  <2>2. ~(y < x)
    BY <1>3, <2>1 DEF OpToRel
  <2> QED
    BY <1>2, <2>2
<1> QED
  BY <1>4 DEF FirstFree

LEMMA FromInodeStep ==
  ASSUME NEW d, NEW R, NEW I, NEW i, Good(d, R, I, i), ~d.new, NEW k \in Slots,
         NEW e, e = FromInode(d, k)
  PROVE  \/ e.full
         \/ Leads(d, e, R, I, i, {Root(k)}, Root(k))
<1> DEFINE R2 == With(R, i, e)
<1>1. /\ d \in DiskRec /\ R \in [I -> InodeRec] /\ i \in I /\ R[i] = d.n /\ ~d.full
      /\ d.marks \subseteq Blocks /\ d.blk \in [Blocks -> [Cell -> Nat]] /\ d.n \in InodeRec
      /\ Eff(d) = d.blk /\ Distinct(d.blk, R, I) /\ Within(d.blk, R, I, d.marks)
  BY DEF Good, DiskRec, Eff
<1>2. PtrIn(Eff(d), d.n, Root(k)) = d.n.data[k] /\ d.n.data[k] \in 0 .. NBlocks /\ Root(k) \in Ways
  BY <1>1, PtrRoot, RootWays DEF InodeRec
<1>3. CASE d.n.data[k] # 0
  <2>1. e = [d EXCEPT !.ph = d.n.data[k], !.new = FALSE]
    BY <1>1, <1>3 DEF FromInode
  <2>2. /\ e \in DiskRec /\ e.n = d.n /\ e.blk = d.blk /\ e.marks = d.marks /\ ~e.new
        /\ ~e.full /\ e.ph = d.n.data[k] /\ Eff(e) = d.blk
    BY <1>1, <1>2, <2>1 DEF DiskRec, Eff
  <2>3. R2 = R
    BY <1>1, <2>2 DEF With
  <2>4. Good(e, R2, I, i)
    BY <1>1, <2>2, <2>3 DEF Good
  <2> QED
    BY <1>1, <1>2, <1>3, <2>2, <2>3, <2>4 DEF Leads
<1>4. CASE d.n.data[k] = 0 /\ Blocks \subseteq d.marks
  <2>1. e = [d EXCEPT !.full = TRUE]
    BY <1>1, <1>4 DEF FromInode
  <2> QED
    BY <1>1, <2>1 DEF DiskRec
<1>5. CASE d.n.data[k] = 0 /\ ~(Blocks \subseteq d.marks)
  <2> DEFINE ph == FirstFree(d.marks)
  <2>1. e = [d EXCEPT !.marks = @ \union {ph}, !.n.data[k] = ph, !.ph = ph, !.new = TRUE]
    BY <1>1, <1>5 DEF FromInode
  <2>2. ph \in Blocks /\ ph \notin d.marks
    BY <1>5, FirstFreeIsFree
  <2> HIDE DEF ph
  <2>3. /\ e.marks = d.marks \union {ph} /\ e.n = [d.n EXCEPT !.data[k] = ph] /\ e.ph = ph
        /\ e.new /\ ~e.full /\ e.blk = d.blk
    BY <1>1, <2>1 DEF DiskRec, InodeRec
  <2>4. e.n \in InodeRec /\ \A m \in Slots : e.n.data[m] = IF m = k THEN ph ELSE d.n.data[m]
    <3>1. /\ d.n \in [blocks : Nat, lwo : Cell, data : [Slots -> 0 .. NBlocks]]
          /\ ph \in 0 .. NBlocks
      BY <1>1, <2>2 DEF InodeRec, Blocks
    <3>2. /\ e.n.data = [d.n.data EXCEPT ![k] = ph]
          /\ e.n = [blocks |-> d.n.blocks, lwo |-> d.n.lwo, data |-> e.n.data]
      BY <2>3, <3>1
    <3>3. d.n.data \in [Slots -> 0 .. NBlocks] /\ d.n.blocks \in Nat /\ d.n.lwo \in Cell
      BY <3>1
    <3>4. e.n.data \in [Slots -> 0 .. NBlocks]
      BY <3>1, <3>2, <3>3
    <3> QED
      BY <3>2, <3>3, <3>4 DEF InodeRec
  <2>5. e \in DiskRec
    <3>1. e.marks \in SUBSET Blocks /\ e.ph \in 0 .. NBlocks /\ e.new \in BOOLEAN /\ e.full \in BOOLEAN
      BY <1>1, <2>1, <2>2, <2>3 DEF DiskRec, Blocks
    <3>2. e = [marks |-> e.marks, blk |-> e.blk, n |-> e.n, ph |-> e.ph, new |-> e.new, full |-> e.full]
      BY <1>1, <2>1 DEF DiskRec
    <3>3. e.blk \in [Blocks -> [Cell -> Nat]]
      BY <1>1, <2>3
    <3> HIDE DEF R2
    <3> QED
      BY <3>1, <3>2, <3>3, <2>4, Zenon DEF DiskRec
  <2>6. /\ \A m \in Blocks : m # ph => Eff(e)[m] = d.blk[m]
        /\ \A c \in Cell : Eff(e)[ph][c] = 0
    BY <1>1, <2>2, <2>3 DEF Eff, Zeroes
  <2>7. /\ R2 \in [I -> InodeRec] /\ R2[i] = e.n
        /\ \A j \in I : \A m \in Slots :
             R2[j].data[m] = IF j = i /\ m = k THEN ph ELSE R[j].data[m]
    BY <1>1, <2>4 DEF With
  <2> HIDE DEF R2
  <2>8. Adds(d.blk, R, Eff(e), R2, I, i, Root(k), ph)
    BY <1>1, <1>5, <2>2, <2>6, <2>7, AllocRoot
  <2>9. Distinct(Eff(e), R2, I) /\ Within(Eff(e), R2, I, e.marks)
    <3>1. ph \notin d.marks /\ Root(k) \in Ways /\ i \in I /\ e.marks = d.marks \union {ph}
      BY <1>1, <1>2, <2>2, <2>3
    <3>2. Distinct(d.blk, R, I) /\ Within(d.blk, R, I, d.marks)
      BY <1>1
    <3>3. Distinct(Eff(e), R2, I) /\ Within(Eff(e), R2, I, d.marks \union {ph})
      BY <3>1, <3>2, <2>8, AddOwner
    <3> QED
      BY <3>1, <3>3
  <2>10. Good(e, R2, I, i)
    BY <1>1, <2>2, <2>3, <2>5, <2>7, <2>9 DEF Good
  <2>11. PtrIn(Eff(e), e.n, Root(k)) = ph
    BY <2>4, PtrRoot
  <2>12. \A j \in I : \A v \in Ways :
           \/ PtrIn(Eff(e), R2[j], v) = PtrIn(Eff(d), R[j], v)
           \/ j = i /\ v \in {Root(k)} /\ PtrIn(Eff(d), R[j], v) = 0
    BY <1>1, <1>2, <1>5, <2>8 DEF Adds
  <2>13. e.n.blocks = d.n.blocks /\ e.n.lwo = d.n.lwo
    BY <1>1, <2>3 DEF InodeRec
  <2>14. ph # 0 /\ \A m \in Slots : d.n.data[m] \in {0, e.n.data[m]}
    BY <1>5, <2>2, <2>4 DEF Blocks
  <2> QED
    BY <1>2, <1>5, <2>3, <2>10, <2>11, <2>12, <2>13, <2>14 DEF Leads, R2
<1> QED
  BY <1>3, <1>4, <1>5

LEMMA FromBlockStep ==
  ASSUME NEW d, NEW R, NEW I, NEW i, Good(d, R, I, i), NEW u \in Inner, NEW c \in Cell,
         d.ph = PtrIn(Eff(d), d.n, u), d.ph # 0,
         NEW e, e = FromBlock(d, c)
  PROVE  \/ e.full
         \/ Leads(d, e, R, I, i, {Kid(u, c)}, Kid(u, c))
<1> DEFINE R2 == With(R, i, e)
           p == d.ph
           B == Eff(d)
<1>1. /\ d \in DiskRec /\ R \in [I -> InodeRec] /\ i \in I /\ R[i] = d.n /\ ~d.full
      /\ d.marks \in SUBSET Blocks /\ d.blk \in [Blocks -> [Cell -> Nat]] /\ d.n \in InodeRec
      /\ Distinct(B, R, I) /\ Within(B, R, I, d.marks)
  BY DEF Good, DiskRec
<1>2. u \in Ways /\ Kid(u, c) \in Ways /\ PtrIn(B, d.n, Kid(u, c)) = B[p][c]
  BY KidWays, PtrKid DEF Deref
<1>3. p \in d.marks /\ p \in Blocks
  BY <1>1, <1>2 DEF Within
<1>4. /\ B \in [Blocks -> [Cell -> Nat]]
      /\ B[p] = IF d.new THEN Zeroes ELSE d.blk[p]
      /\ \A m \in Blocks : m # p => B[m] = d.blk[m]
  BY <1>1, <1>3 DEF Eff, Zeroes
<1>5. e = IF B[p][c] # 0 THEN [d EXCEPT !.ph = B[p][c], !.new = FALSE]
          ELSE IF Blocks \subseteq d.marks THEN [d EXCEPT !.full = TRUE]
          ELSE [d EXCEPT !.marks = @ \union {FirstFree(d.marks)},
                         !.blk[p] = [B[p] EXCEPT ![c] = FirstFree(d.marks)],
                         !.ph = FirstFree(d.marks), !.new = TRUE]
  BY <1>1, <1>4, Zenon DEF FromBlock
<1>6. CASE B[p][c] # 0
  <2>1. ~d.new /\ B = d.blk
    BY <1>4, <1>6 DEF Zeroes, Eff
  <2>2. B[p][c] \in Blocks
    BY <1>1, <1>2, <1>6 DEF Within
  <2>3. e = [d EXCEPT !.ph = B[p][c], !.new = FALSE]
    BY <1>5, <1>6
  <2>4. /\ e \in DiskRec /\ e.n = d.n /\ e.blk = d.blk /\ e.marks = d.marks /\ ~e.new
        /\ ~e.full /\ e.ph = B[p][c] /\ Eff(e) = B
    <3> DEFINE q == B[p][c]
    <3>1. e = [d EXCEPT !.ph = q, !.new = FALSE] /\ q \in 0 .. NBlocks
      BY <2>2, <2>3 DEF Blocks
    <3> HIDE DEF q
    <3>2. /\ e \in DiskRec /\ e.n = d.n /\ e.blk = d.blk /\ e.marks = d.marks /\ ~e.new
          /\ ~e.full /\ e.ph = q
      BY <1>1, <3>1 DEF DiskRec
    <3> QED
      BY <2>1, <3>2 DEF Eff, q
  <2> HIDE DEF B
  <2>5. R2 = R
    BY <1>1, <2>4 DEF With
  <2>6. Good(e, R2, I, i)
    BY <1>1, <2>4, <2>5 DEF Good
  <2> QED
    BY <1>1, <1>2, <1>6, <2>4, <2>5, <2>6 DEF Leads, B
<1>7. CASE B[p][c] = 0 /\ Blocks \subseteq d.marks
  <2>1. e = [d EXCEPT !.full = TRUE]
    BY <1>5, <1>7
  <2> QED
    BY <1>1, <2>1 DEF DiskRec
<1>8. CASE B[p][c] = 0 /\ ~(Blocks \subseteq d.marks)
  <2> DEFINE ph == FirstFree(d.marks)
  <2>1. e = [d EXCEPT !.marks = @ \union {ph}, !.blk[p] = [B[p] EXCEPT ![c] = ph],
                      !.ph = ph, !.new = TRUE]
    BY <1>5, <1>8
  <2>2. ph \in Blocks /\ ph \notin d.marks /\ ph # p
    BY <1>3, <1>8, FirstFreeIsFree
  <2> HIDE DEF ph, B, p
  <2>3. /\ e.marks = d.marks \union {ph} /\ e.n = d.n /\ e.ph = ph /\ e.new /\ ~e.full
        /\ e.blk = [d.blk EXCEPT ![p] = [B[p] EXCEPT ![c] = ph]]
    BY <1>1, <2>1 DEF DiskRec
  <2>4. [B[p] EXCEPT ![c] = ph] \in [Cell -> Nat]
    <3>1. ph \in Nat /\ B[p] \in [Cell -> Nat]
      BY <1>3, <1>4, <2>2 DEF Blocks
    <3> QED
      BY <3>1
  <2>5. e \in DiskRec
    <3>1. e.marks \in SUBSET Blocks /\ e.ph \in 0 .. NBlocks /\ e.new \in BOOLEAN /\ e.full \in BOOLEAN
      BY <1>1, <2>1, <2>2, <2>3 DEF DiskRec, Blocks
    <3>2. e = [marks |-> e.marks, blk |-> e.blk, n |-> e.n, ph |-> e.ph, new |-> e.new, full |-> e.full]
      BY <1>1, <2>1 DEF DiskRec
    <3>3. e.blk \in [Blocks -> [Cell -> Nat]]
      BY <1>1, <2>3, <2>4
    <3>4. e.n \in InodeRec
      BY <1>1, <2>3
    <3> HIDE DEF R2
    <3> QED
      BY <3>1, <3>2, <3>3, <3>4, Zenon DEF DiskRec
  <2>6. /\ \A m \in Blocks : m # ph /\ m # p => Eff(e)[m] = B[m]
        /\ \A x \in Cell : Eff(e)[p][x] = IF x = c THEN ph ELSE B[p][x]
        /\ \A x \in Cell : Eff(e)[ph][x] = 0
    <3>1. Eff(e) = [e.blk EXCEPT ![ph] = Zeroes]
      BY <2>3 DEF Eff
    <3>2. e.blk \in [Blocks -> [Cell -> Nat]] /\ B[p] \in [Cell -> Nat]
      BY <1>1, <1>3, <1>4, <2>3, <2>4
    <3>3. \A m \in Blocks : m # ph /\ m # p => Eff(e)[m] = B[m]
      BY <1>1, <1>4, <2>3, <3>1, <3>2
    <3>4. Eff(e)[p] = [B[p] EXCEPT ![c] = ph] /\ Eff(e)[ph] = Zeroes
      BY <1>1, <1>3, <2>2, <2>3, <3>1, <3>2
    <3> QED
      BY <3>2, <3>3, <3>4 DEF Zeroes
  <2>7. R2 = R
    BY <1>1, <2>3 DEF With
  <2> HIDE DEF R2
  <2>8. Adds(B, R, Eff(e), R, I, i, Kid(u, c), ph)
    <3>1. PtrIn(B, R[i], u) # 0 /\ PtrIn(B, R[i], u) = p
      BY <1>1 DEF B, p
    <3>2. /\ d.marks \in SUBSET Blocks /\ Distinct(B, R, I) /\ Within(B, R, I, d.marks)
          /\ i \in I /\ ph \in Blocks /\ ph \notin d.marks /\ B[p][c] = 0
      BY <1>1, <1>8, <2>2
    <3> HIDE DEF R2
    <3> QED
      BY <2>6, <3>1, <3>2, AllocKid
  <2>9. Distinct(Eff(e), R, I) /\ Within(Eff(e), R, I, e.marks)
    <3>1. Distinct(Eff(e), R, I) /\ Within(Eff(e), R, I, d.marks \union {ph})
      BY <1>1, <1>2, <2>2, <2>8, AddOwner
    <3> QED
      BY <2>3, <3>1
  <2>10. Good(e, R, I, i)
    BY <1>1, <2>2, <2>3, <2>5, <2>9 DEF Good
  <2>11. PtrIn(Eff(e), e.n, Kid(u, c)) = ph
    BY <1>1, <1>2, <2>3, <2>8 DEF Adds
  <2>12. \A j \in I : \A v \in Ways :
           \/ PtrIn(Eff(e), R[j], v) = PtrIn(B, R[j], v)
           \/ j = i /\ v \in {Kid(u, c)} /\ PtrIn(B, R[j], v) = 0
    BY <1>1, <1>2, <1>8, <2>8 DEF Adds
  <2>13. ph # 0 /\ \A m \in Slots : d.n.data[m] \in {0, e.n.data[m]}
    BY <2>2, <2>3 DEF Blocks
  <2> QED
    BY <2>3, <2>7, <2>10, <2>11, <2>12, <2>13 DEF Leads, R2, B
<1> QED
  BY <1>6, <1>7, <1>8

\* One step to a way, and the next one below it.
LEMMA LeadsOn ==
  ASSUME NEW d, NEW e, NEW f, NEW R, NEW I, NEW i,
         Good(d, R, I, i), NEW X \in SUBSET Ways, NEW Y \in SUBSET Ways, NEW v, NEW w,
         Leads(d, e, R, I, i, X, v), Leads(e, f, With(R, i, e), I, i, Y, w)
  PROVE  Leads(d, f, R, I, i, X \union Y, w)
<1> DEFINE R2 == With(R, i, e)
           R3 == With(R, i, f)
<1>1. /\ R \in [I -> InodeRec] /\ i \in I /\ R[i] = d.n /\ d.marks \subseteq Blocks
      /\ R2 \in [I -> InodeRec] /\ R2[i] = e.n /\ e.marks \subseteq Blocks
  BY DEF Good, Leads, DiskRec
<1>2. With(R2, i, f) = R3 /\ R3[i] = f.n
  BY <1>1 DEF With
<1> HIDE DEF R2, R3
<1>3. /\ \A j \in I : \A y \in Ways :
           \/ PtrIn(Eff(e), R2[j], y) = PtrIn(Eff(d), R[j], y)
           \/ j = i /\ y \in X /\ PtrIn(Eff(d), R[j], y) = 0
      /\ d.marks \subseteq e.marks
      /\ e.marks \subseteq d.marks \union {PtrIn(Eff(e), e.n, y) : y \in X}
      /\ e.n.blocks = d.n.blocks /\ e.n.lwo = d.n.lwo
      /\ \A k \in Slots : d.n.data[k] \in {0, e.n.data[k]}
  BY DEF Leads, R2
<1>4. /\ Good(f, R3, I, i) /\ f.ph = PtrIn(Eff(f), f.n, w) /\ f.ph # 0
      /\ \A j \in I : \A y \in Ways :
           \/ PtrIn(Eff(f), R3[j], y) = PtrIn(Eff(e), R2[j], y)
           \/ j = i /\ y \in Y /\ PtrIn(Eff(e), R2[j], y) = 0
      /\ e.marks \subseteq f.marks
      /\ f.marks \subseteq e.marks \union {PtrIn(Eff(f), f.n, y) : y \in Y}
      /\ f.n.blocks = e.n.blocks /\ f.n.lwo = e.n.lwo
      /\ \A k \in Slots : e.n.data[k] \in {0, f.n.data[k]}
  BY <1>2 DEF Leads, R2
<1>5. \A j \in I : \A y \in Ways :
        \/ PtrIn(Eff(f), R3[j], y) = PtrIn(Eff(d), R[j], y)
        \/ j = i /\ y \in X \union Y /\ PtrIn(Eff(d), R[j], y) = 0
  BY <1>3, <1>4
<1>6. ASSUME NEW m \in f.marks, m \notin d.marks
      PROVE  m \in {PtrIn(Eff(f), f.n, y) : y \in X \union Y}
  <2>1. CASE m \in e.marks
    <3>1. PICK y \in X : m = PtrIn(Eff(e), e.n, y)
      BY <1>3, <1>6, <2>1
    <3>2. m # 0
      BY <1>1, <2>1 DEF Blocks
    <3>3. PtrIn(Eff(f), R3[i], y) = PtrIn(Eff(e), R2[i], y)
      BY <1>1, <1>4, <3>1, <3>2
    <3> QED
      BY <1>1, <1>2, <3>1, <3>3
  <2>2. CASE m \notin e.marks
    BY <1>4, <2>2
  <2> QED
    BY <2>1, <2>2
<1>7. \A k \in Slots : d.n.data[k] \in {0, f.n.data[k]}
  BY <1>3, <1>4
<1> QED
  BY <1>3, <1>4, <1>5, <1>6, <1>7 DEF Leads, R3

-----------------------------------------------------------------------------
(* make_ph_block, level after level. *)

LEMMA MakePhLevels ==
  ASSUME NEW d, NEW l
  PROVE  /\ Level(l) = 0 => MakePh(d, l) = FromInode(d, DirBlock(l))
         /\ Level(l) = 1 => MakePh(d, l) = FromBlock(FromInode(d, DirBlock(l)), Indir1(l))
         /\ Level(l) = 2 => MakePh(d, l) =
              FromBlock(FromBlock(FromInode(d, DirBlock(l)), Indir1(l)), Indir2(l))
<1>1. 1 # 0 /\ 2 # 0 /\ 2 # 1
  OBVIOUS
<1>2. Level(l) = 0 => MakePh(d, l) = FromInode(d, DirBlock(l))
  BY <1>1, Zenon DEF MakePh
<1>3. Level(l) = 1 => MakePh(d, l) = FromBlock(FromInode(d, DirBlock(l)), Indir1(l))
  BY <1>1, Zenon DEF MakePh
<1>4. Level(l) = 2 => MakePh(d, l) =
        FromBlock(FromBlock(FromInode(d, DirBlock(l)), Indir1(l)), Indir2(l))
  BY <1>1, Zenon DEF MakePh
<1> QED
  BY <1>2, <1>3, <1>4

FoundAt(d, p) == [d EXCEPT !.ph = p, !.new = FALSE]

LEMMA FoundBelow ==
  ASSUME NEW d \in DiskRec, ~d.full, NEW p, NEW c, d.blk[p][c] # 0
  PROVE  FromBlock(FoundAt(d, p), c) = FoundAt(d, d.blk[p][c])
<1> USE DEF FoundAt
<1> DEFINE f == [d EXCEPT !.ph = p, !.new = FALSE]
<1>1. f.ph = p /\ ~f.new /\ ~f.full /\ f.blk = d.blk
  BY DEF DiskRec
<1>2. [f EXCEPT !.ph = d.blk[p][c], !.new = FALSE] = [d EXCEPT !.ph = d.blk[p][c], !.new = FALSE]
  BY DEF DiskRec
<1> HIDE DEF f
<1>3. FromBlock(f, c) = [f EXCEPT !.ph = d.blk[p][c], !.new = FALSE]
  BY <1>1 DEF FromBlock
<1> QED
  BY <1>2, <1>3 DEF f

\* A block that a file has is found, and nothing is allocated.
LEMMA MakePhFound ==
  ASSUME NEW d \in DiskRec, ~d.full, NEW l \in Logical, PtrIn(d.blk, d.n, W(l)) # 0
  PROVE  MakePh(d, l) = FoundAt(d, PtrIn(d.blk, d.n, W(l)))
<1> DEFINE D(v) == PtrIn(d.blk, d.n, v)
           FoundBy(v) == FoundAt(d, D(v))
<1> USE BlockSizes
<1>1. ASSUME NEW k \in Slots, D(Root(k)) # 0
      PROVE  FromInode(d, k) = FoundBy(Root(k))
  <2>1. D(Root(k)) = d.n.data[k]
    BY PtrRoot
  <2> QED
    BY <1>1, <2>1 DEF FromInode, FoundAt
<1>2. ASSUME NEW u \in Inner, NEW c \in Cell, D(Kid(u, c)) # 0
      PROVE  D(u) # 0 /\ FromBlock(FoundBy(u), c) = FoundBy(Kid(u, c))
  <2>1. D(Kid(u, c)) = Deref(d.blk, D(u), c)
    BY PtrKid
  <2>2. D(u) # 0 /\ D(Kid(u, c)) = d.blk[D(u)][c]
    BY <1>2, <2>1 DEF Deref
  <2>3. d.blk[D(u)][c] # 0
    BY <1>2, <2>2
  <2> HIDE DEF D
  <2>4. FromBlock(FoundAt(d, D(u)), c) = FoundAt(d, d.blk[D(u)][c])
    BY <2>3, FoundBelow
  <2> QED
    BY <2>2, <2>4
<1> HIDE DEF D, FoundBy
<1>3. /\ Root(NDirect) \in Inner /\ Root(NDirect + 1) \in Inner
      /\ NDirect \in Slots /\ NDirect + 1 \in Slots
      /\ \A c \in Cell : Kid(Root(NDirect + 1), c) \in Inner
  BY DEF Inner, Slots, Root, Kid
<1>4. D(W(l)) # 0
  BY DEF D
<1>5. CASE Level(l) = 0
  <2>1. MakePh(d, l) = FromInode(d, l) /\ W(l) = Root(l) /\ l \in Slots
    BY <1>5, WayOfBlock, MakePhLevels DEF Slots
  <2> QED
    BY <1>1, <1>4, <2>1 DEF FoundBy, D
<1>6. CASE Level(l) = 1
  <2>1. /\ MakePh(d, l) = FromBlock(FromInode(d, NDirect), Indir1(l))
        /\ W(l) = Kid(Root(NDirect), Indir1(l)) /\ Indir1(l) \in Cell
    BY <1>6, WayOfBlock, MakePhLevels
  <2>2. D(Root(NDirect)) # 0 /\ FromBlock(FoundBy(Root(NDirect)), Indir1(l)) = FoundBy(W(l))
    BY <1>2, <1>3, <1>4, <2>1
  <2>3. FromInode(d, NDirect) = FoundBy(Root(NDirect))
    BY <1>1, <1>3, <2>2
  <2> QED
    BY <2>1, <2>2, <2>3 DEF FoundBy, D
<1>7. CASE Level(l) = 2
  <2> DEFINE u == Kid(Root(NDirect + 1), Indir1(l))
  <2>1. /\ MakePh(d, l) = FromBlock(FromBlock(FromInode(d, NDirect + 1), Indir1(l)), Indir2(l))
        /\ W(l) = Kid(u, Indir2(l)) /\ Indir1(l) \in Cell /\ Indir2(l) \in Cell
    BY <1>7, WayOfBlock, MakePhLevels
  <2>2. u \in Inner
    BY <1>3, <2>1
  <2>3. D(u) # 0 /\ FromBlock(FoundBy(u), Indir2(l)) = FoundBy(W(l))
    BY <1>2, <1>4, <2>1, <2>2
  <2>4. D(Root(NDirect + 1)) # 0 /\ FromBlock(FoundBy(Root(NDirect + 1)), Indir1(l)) = FoundBy(u)
    BY <1>2, <1>3, <2>1, <2>3
  <2>5. FromInode(d, NDirect + 1) = FoundBy(Root(NDirect + 1))
    BY <1>1, <1>3, <2>4
  <2> HIDE DEF u
  <2> QED
    BY <2>1, <2>3, <2>4, <2>5 DEF FoundBy, D
<1> QED
  BY <1>5, <1>6, <1>7, WayOfBlock

\* A block that a file has not is allocated with what leads to it.
LEMMA MakePhStep ==
  ASSUME NEW d, NEW R, NEW I, NEW i, Good(d, R, I, i), ~d.new, NEW l \in Logical,
         NEW e, e = MakePh(d, l)
  PROVE  e.full \/ Leads(d, e, R, I, i, Path(l), W(l))
<1> USE BlockSizes
<1>1. /\ Root(NDirect) \in Inner /\ Root(NDirect + 1) \in Inner
      /\ NDirect \in Slots /\ NDirect + 1 \in Slots
      /\ \A c \in Cell : Kid(Root(NDirect + 1), c) \in Inner
  BY DEF Inner, Slots, Root, Kid
<1> DEFINE d0 == FromInode(d, DirBlock(l))
           v0 == Root(DirBlock(l))
<1>2. DirBlock(l) \in Slots
  BY <1>1, WayOfBlock DEF Slots
<1>3. d0.full \/ Leads(d, d0, R, I, i, {v0}, v0)
  BY <1>2, FromInodeStep
<1>4. ASSUME NEW f, NEW u \in Inner, NEW c \in Cell, NEW X \in SUBSET Ways,
             f.full \/ Leads(d, f, R, I, i, X, u)
      PROVE  \/ FromBlock(f, c).full
             \/ Leads(d, FromBlock(f, c), R, I, i, X \union {Kid(u, c)}, Kid(u, c))
  <2>1. CASE f.full
    BY <2>1 DEF FromBlock
  <2>2. CASE Leads(d, f, R, I, i, X, u)
    <3>1. Good(f, With(R, i, f), I, i) /\ f.ph = PtrIn(Eff(f), f.n, u) /\ f.ph # 0
      BY <2>2 DEF Leads
    <3>2. \/ FromBlock(f, c).full
          \/ Leads(f, FromBlock(f, c), With(R, i, f), I, i, {Kid(u, c)}, Kid(u, c))
      BY <3>1, FromBlockStep
    <3>3. {Kid(u, c)} \in SUBSET Ways
      BY KidWays
    <3> QED
      BY <2>2, <3>2, <3>3, LeadsOn
  <2> QED
    BY <1>4, <2>1, <2>2
<1>5. {v0} \in SUBSET Ways
  BY <1>2, RootWays
<1> HIDE DEF d0, v0
<1>6. CASE Level(l) = 0
  <2>1. e = d0 /\ W(l) = v0 /\ Path(l) = {v0}
    BY <1>6, WayOfBlock, MakePhLevels DEF d0, v0
  <2> QED
    BY <1>3, <2>1
<1>7. CASE Level(l) = 1
  <2>1. /\ e = FromBlock(d0, Indir1(l)) /\ W(l) = Kid(v0, Indir1(l)) /\ Indir1(l) \in Cell
        /\ v0 = Root(NDirect) /\ Path(l) = {v0} \union {Kid(v0, Indir1(l))}
    BY <1>7, WayOfBlock, MakePhLevels DEF d0, v0
  <2> QED
    BY <1>1, <1>3, <1>4, <1>5, <2>1
<1>8. CASE Level(l) = 2
  <2> DEFINE d1 == FromBlock(d0, Indir1(l))
             v1 == Kid(v0, Indir1(l))
  <2>1. /\ e = FromBlock(d1, Indir2(l)) /\ W(l) = Kid(v1, Indir2(l))
        /\ Indir1(l) \in Cell /\ Indir2(l) \in Cell
        /\ v0 = Root(NDirect + 1) /\ Path(l) = ({v0} \union {v1}) \union {Kid(v1, Indir2(l))}
    BY <1>8, WayOfBlock, MakePhLevels DEF d0, v0
  <2>2. v0 \in Inner /\ v1 \in Inner
    BY <1>1, <2>1
  <2>3. d1.full \/ Leads(d, d1, R, I, i, {v0} \union {v1}, v1)
    BY <1>3, <1>4, <1>5, <2>1, <2>2
  <2>4. {v0} \union {v1} \in SUBSET Ways
    BY <1>5, <2>2, KidWays
  <2> HIDE DEF d1, v1
  <2> QED
    BY <1>4, <2>1, <2>2, <2>3, <2>4
<1> QED
  BY <1>6, <1>7, <1>8, WayOfBlock

-----------------------------------------------------------------------------
(* log_block_read and log_block_write. *)

Sound(M, B, R, I) ==
  /\ M \in SUBSET Blocks /\ B \in [Blocks -> [Cell -> Nat]] /\ R \in [I -> InodeRec]
  /\ Distinct(B, R, I) /\ Within(B, R, I, M)

\* From the disk with the bits M and the blocks B to that of e: the file i has got
\* the logical block l.
Gets(M, B, R, I, i, l, e) ==
  /\ Sound(e.marks, e.blk, With(R, i, e), I)
  /\ PtrIn(e.blk, e.n, W(l)) # 0 /\ e.ph = PtrIn(e.blk, e.n, W(l)) /\ e.ph \in Blocks
  /\ \A j \in I : \A v \in Ways :
       \/ PtrIn(e.blk, With(R, i, e)[j], v) = PtrIn(B, R[j], v)
       \/ j = i /\ v \in Path(l) /\ PtrIn(B, R[j], v) = 0
  /\ M \subseteq e.marks
  /\ e.marks \subseteq M \union {PtrIn(e.blk, e.n, v) : v \in Path(l)}
  /\ e.n.blocks = R[i].blocks /\ e.n.lwo = R[i].lwo
  /\ \A k \in Slots : R[i].data[k] \in {0, e.n.data[k]}

LEMMA GoodDisk ==
  ASSUME NEW R, NEW I, NEW i \in I, NEW d \in DiskRec, ~d.new, ~d.full, R[i] = d.n,
         Sound(d.marks, d.blk, R, I)
  PROVE  Good(d, R, I, i)
  BY DEF Good, Sound, Eff

\* A block that was just allocated is one of data: what it held does not matter.
LEMMA MakePhGets ==
  ASSUME NEW R, NEW I, NEW i \in I, NEW d \in DiskRec, ~d.new, ~d.full, R[i] = d.n,
         Sound(d.marks, d.blk, R, I), NEW l \in Logical, NEW e, e = MakePh(d, l)
  PROVE  \/ e.full
         \/ Gets(d.marks, d.blk, R, I, i, l, e) /\ e \in DiskRec /\ e.ph \in e.marks
<1> SUFFICES ASSUME ~e.full
             PROVE  Gets(d.marks, d.blk, R, I, i, l, e) /\ e \in DiskRec /\ e.ph \in e.marks
  OBVIOUS
<1> DEFINE R2 == With(R, i, e)
<1>1. Good(d, R, I, i) /\ Eff(d) = d.blk
  BY GoodDisk DEF Eff
<1>2. Leads(d, e, R, I, i, Path(l), W(l))
  BY <1>1, MakePhStep
<1>3. /\ Good(e, R2, I, i) /\ e.ph = PtrIn(Eff(e), e.n, W(l)) /\ e.ph # 0
      /\ \A j \in I : \A v \in Ways :
           \/ PtrIn(Eff(e), R2[j], v) = PtrIn(d.blk, R[j], v)
           \/ j = i /\ v \in Path(l) /\ PtrIn(d.blk, R[j], v) = 0
      /\ d.marks \subseteq e.marks
      /\ e.marks \subseteq d.marks \union {PtrIn(Eff(e), e.n, v) : v \in Path(l)}
      /\ e.n.blocks = d.n.blocks /\ e.n.lwo = d.n.lwo
      /\ \A k \in Slots : d.n.data[k] \in {0, e.n.data[k]}
  BY <1>1, <1>2 DEF Leads
<1>4. W(l) \in Leaves /\ W(l) \in Ways /\ Path(l) \subseteq Ways
  BY WayOfBlock, PathWays DEF Leaves
<1>5. /\ e \in DiskRec /\ R2 \in [I -> InodeRec] /\ R2[i] = e.n
      /\ Distinct(Eff(e), R2, I) /\ Within(Eff(e), R2, I, e.marks)
      /\ e.marks \in SUBSET Blocks /\ e.blk \in [Blocks -> [Cell -> Nat]]
  BY <1>3 DEF Good, DiskRec
<1> HIDE DEF R2
<1>6. e.ph \in e.marks /\ e.ph \in Blocks
  BY <1>3, <1>4, <1>5 DEF Within
<1>7. \A m \in Blocks : m # e.ph => e.blk[m] = Eff(e)[m]
  BY <1>5, <1>6 DEF Eff
<1>8. \A j \in I : \A v \in Ways : PtrIn(e.blk, R2[j], v) = PtrIn(Eff(e), R2[j], v)
  <2>1. e.ph = PtrIn(Eff(e), R2[i], W(l))
    BY <1>3, <1>5
  <2>2. \A m \in Blocks : m # PtrIn(Eff(e), R2[i], W(l)) => e.blk[m] = Eff(e)[m]
    BY <1>7, <2>1
  <2> QED
    BY <1>4, <1>5, <2>2, LeafWrite, SMTT(20)
<1>9. \A v \in Ways : PtrIn(e.blk, e.n, v) = PtrIn(Eff(e), e.n, v)
  BY <1>5, <1>8
<1>10. Distinct(e.blk, R2, I) /\ Within(e.blk, R2, I, e.marks)
  BY <1>5, <1>8 DEF Distinct, Within
<1>11. e.marks \subseteq d.marks \union {PtrIn(e.blk, e.n, v) : v \in Path(l)}
  BY <1>3, <1>4, <1>9
<1>12. \A j \in I : \A v \in Ways :
           \/ PtrIn(e.blk, R2[j], v) = PtrIn(d.blk, R[j], v)
           \/ j = i /\ v \in Path(l) /\ PtrIn(d.blk, R[j], v) = 0
  BY <1>3, <1>8
<1>13. PtrIn(e.blk, e.n, W(l)) # 0 /\ e.ph = PtrIn(e.blk, e.n, W(l))
  BY <1>3, <1>4, <1>9
<1>14. Sound(e.marks, e.blk, R2, I)
  BY <1>5, <1>10 DEF Sound
<1> QED
  BY <1>3, <1>5, <1>6, <1>11, <1>12, <1>13, <1>14 DEF Gets, R2

LEMMA LogReadGets ==
  ASSUME NEW R, NEW I, NEW i \in I, NEW d \in DiskRec, ~d.new, ~d.full, R[i] = d.n,
         Sound(d.marks, d.blk, R, I), NEW l \in Logical, NEW e, e = LogRead(d, l), ~e.full
  PROVE  Gets(d.marks, d.blk, R, I, i, l, e)
<1> DEFINE f == MakePh(d, l)
<1>1. ~f.full
  BY DEF LogRead
<1>2. e = [f EXCEPT !.marks = @ \union {f.ph}]
  BY <1>1 DEF LogRead
<1> HIDE DEF f
<1>3. Gets(d.marks, d.blk, R, I, i, l, f) /\ f \in DiskRec /\ f.ph \in f.marks
  BY <1>1, MakePhGets DEF f
<1>4. f.marks \union {f.ph} = f.marks
  BY <1>3
<1>5. e = [f EXCEPT !.marks = f.marks]
  BY <1>2, <1>4
<1>6. e = f
  BY <1>3, <1>5 DEF DiskRec
<1> QED
  BY <1>3, <1>6

LEMMA LogReadFound ==
  ASSUME NEW d \in DiskRec, ~d.full, NEW l \in Logical,
         NEW p, p = PtrIn(d.blk, d.n, W(l)), p # 0, p \in d.marks
  PROVE  LogRead(d, l) = FoundAt(d, p)
<1>1. MakePh(d, l) = FoundAt(d, p)
  BY MakePhFound
<1>2. /\ ~FoundAt(d, p).full /\ FoundAt(d, p).marks = d.marks /\ FoundAt(d, p).ph = p
      /\ d.marks \union {p} = d.marks
  BY DEF FoundAt, DiskRec
<1>3. [FoundAt(d, p) EXCEPT !.marks = d.marks] = FoundAt(d, p)
  BY DEF FoundAt, DiskRec
<1> QED
  BY <1>1, <1>2, <1>3 DEF LogRead

\* To write a block that a file has changes no way.
Wrote(d, e, R, I, l, data) ==
  /\ e \in DiskRec /\ ~e.new /\ ~e.full /\ e.n = d.n /\ e.marks = d.marks
  /\ e.ph = PtrIn(d.blk, d.n, W(l)) /\ e.blk = [d.blk EXCEPT ![e.ph] = data]
  /\ Sound(e.marks, e.blk, R, I)
  /\ \A j \in I : \A v \in Ways : PtrIn(e.blk, R[j], v) = PtrIn(d.blk, R[j], v)

LEMMA LogWriteFound ==
  ASSUME NEW R, NEW I, NEW i \in I, NEW d \in DiskRec, ~d.new, ~d.full, R[i] = d.n,
         Sound(d.marks, d.blk, R, I), NEW l \in Logical, NEW data \in [Cell -> Nat],
         PtrIn(d.blk, d.n, W(l)) # 0
  PROVE  Wrote(d, LogWrite(d, l, data), R, I, l, data)
<1> DEFINE e == LogWrite(d, l, data)
<1> DEFINE p == PtrIn(d.blk, d.n, W(l))
<1>1. W(l) \in Leaves /\ W(l) \in Ways
  BY WayOfBlock DEF Leaves
<1>2. /\ d.marks \in SUBSET Blocks /\ d.blk \in [Blocks -> [Cell -> Nat]] /\ R \in [I -> InodeRec]
      /\ Distinct(d.blk, R, I) /\ Within(d.blk, R, I, d.marks)
  BY DEF Sound
<1>3. p \in d.marks /\ p \in Blocks
  BY <1>1, <1>2 DEF Within
<1>4. MakePh(d, l) = FoundAt(d, p)
  BY MakePhFound
<1>5. p = PtrIn(d.blk, R[i], W(l))
  OBVIOUS
<1> HIDE DEF p
<1>6. /\ FoundAt(d, p).full = FALSE /\ FoundAt(d, p).ph = p
      /\ FoundAt(d, p).marks = d.marks /\ FoundAt(d, p).blk = d.blk
      /\ FoundAt(d, p).n = d.n /\ FoundAt(d, p).new = FALSE /\ p \in 0 .. NBlocks
      /\ FoundAt(d, p) \in DiskRec
  <2>1. p \in 0 .. NBlocks /\ d.full = FALSE
    BY <1>3 DEF Blocks, DiskRec
  <2> QED
    BY <2>1 DEF FoundAt, DiskRec
<1>7. e = [FoundAt(d, p) EXCEPT !.blk[p] = data, !.marks = @ \union {p}]
  BY <1>4, <1>6 DEF LogWrite
<1> HIDE DEF e
<1>8. d.marks \union {p} = d.marks /\ [d.blk EXCEPT ![p] = data] \in [Blocks -> [Cell -> Nat]]
  BY <1>2, <1>3
<1>9. e = [FoundAt(d, p) EXCEPT !.blk = [d.blk EXCEPT ![p] = data], !.marks = d.marks]
  BY <1>6, <1>7, <1>8 DEF DiskRec
<1>10. /\ e \in DiskRec /\ ~e.new /\ ~e.full /\ e.n = d.n /\ e.marks = d.marks
       /\ e.ph = p /\ e.blk = [d.blk EXCEPT ![p] = data]
  BY <1>6, <1>8, <1>9 DEF DiskRec
<1>11. \A m \in Blocks : m # PtrIn(d.blk, R[i], W(l)) => e.blk[m] = d.blk[m]
  BY <1>2, <1>5, <1>10
<1>12. \A j \in I : \A v \in Ways : PtrIn(e.blk, R[j], v) = PtrIn(d.blk, R[j], v)
  <2> DEFINE B2 == e.blk
  <2>1. \A m \in Blocks : m # PtrIn(d.blk, R[i], W(l)) => B2[m] = d.blk[m]
    BY <1>11
  <2> HIDE DEF B2
  <2>2. \A j \in I : \A v \in Ways : PtrIn(B2, R[j], v) = PtrIn(d.blk, R[j], v)
    BY <1>1, <1>2, <2>1, LeafWrite, SMTT(20)
  <2> QED
    BY <2>2 DEF B2
<1>13. Distinct(e.blk, R, I) /\ Within(e.blk, R, I, e.marks)
  <2>1. Distinct(e.blk, R, I)
    BY <1>2, <1>12 DEF Distinct
  <2>2. Within(e.blk, R, I, d.marks)
    BY <1>2, <1>12 DEF Within
  <2> QED
    BY <1>10, <2>1, <2>2
<1> QED
  BY <1>2, <1>8, <1>10, <1>12, <1>13 DEF Sound, p, Wrote, e

-----------------------------------------------------------------------------
(***************************************************************************)
(* The inductive invariant.                                                 *)
(***************************************************************************)
CallRec == [op : {"none", "write", "read", "rm", "full"}, ino : Inodes \union {0},
            l : Nat, at : Cell, left : Nat, from : Nat, got : Seq(Nat)]

\* The inodes, with what a call has added to its own.
Working == call.op \in {"write", "read", "rm"}
Recs == [j \in taken |-> IF Working /\ call.ino = j THEN n ELSE ino[j]]

\* The files that fs_rm has freed no block of
Started == call.op = "rm" /\ call.l <= n.blocks
Intact == IF Started THEN taken \ {call.ino} ELSE taken

Unique == Distinct(blk, Recs, taken)
Marked == Within(blk, Recs, Intact, marks)
Extends == Working =>
  /\ call.ino \in taken
  /\ n.blocks = ino[call.ino].blocks /\ n.lwo = ino[call.ino].lwo
  /\ \A k \in Slots : ino[call.ino].data[k] \in {0, n.data[k]}

\* A file that was written has all its blocks, the one its next byte goes to included.
IsWritten(rec) == rec.blocks > 0 \/ rec.lwo > 0
Filled(rec, m) == \A l \in 0 .. m : PtrIn(blk, rec, W(l)) # 0
FilledI == \A i \in taken : IsWritten(ino[i]) => Filled(ino[i], ino[i].blocks)
FilledW == call.op = "write" => Filled(n, call.l)

\* No call goes past the blocks that an inode can lead to.
Start(l) == l * Cells
Most == Cells * NLogical
Position == Start(call.l) + call.at
Bounded ==
  /\ \A i \in Inodes : Size(i) <= MaxLen
  /\ call.op = "write" => /\ Position = Size(call.ino) + Len(call.got)
                          /\ Position + call.left <= MaxLen
  /\ call.op = "read" => /\ Position = call.from + Len(call.got)
                         /\ Position + call.left < Most
  /\ call.op = "rm" => call.l <= n.blocks + 1

Structure == TypeOK /\ Unique /\ Marked /\ Extends /\ FilledI /\ FilledW /\ Bounded

LEMMA CellsTimes ==
  ASSUME NEW l \in Nat
  PROVE  Start(l) \in Nat /\ Start(l + 1) = Start(l) + Cells
<1>1. l * Cells \in Nat /\ (l + 1) * Cells = l * Cells + Cells
  BY BlockSizes, Z3
<1> QED
  BY <1>1 DEF Start

LEMMA MostIs == Most \in Nat /\ MaxLen < Most /\ Start(0) = 0
<1>1. Cells * NLogical \in Nat /\ 0 * Cells = 0
  BY BlockSizes, Z3
<1> QED
  BY <1>1, BlockSizes DEF Start, Most

LEMMA InLogical ==
  ASSUME NEW l \in Nat, NEW x \in Nat, Start(l) + x < Most
  PROVE  l \in Logical
<1> USE BlockSizes
<1>1. SUFFICES ASSUME l >= NLogical PROVE FALSE
  BY DEF Logical
<1>2. PICK d \in Nat : l = NLogical + d
  <2>1. l - NLogical \in Nat
    BY <1>1
  <2> QED
    BY <2>1
<1>3. (NLogical + d) * Cells = Cells * NLogical + d * Cells
  BY Z3
<1>4. Start(l) = Most + Start(d)
  BY <1>2, <1>3 DEF Start, Most
<1>5. Start(d) \in Nat /\ Most \in Nat
  BY CellsTimes, MostIs
<1> QED
  BY <1>4, <1>5

\* An inode that has some of the blocks of another leads nowhere else, ...
PartOf(small, big) == \A k \in Slots : small.data[k] \in {0, big.data[k]}
Keeps(B, rec, B2, rec2) ==
  \A v \in Ways : PtrIn(B, rec, v) # 0 => PtrIn(B2, rec2, v) = PtrIn(B, rec, v)

LEMMA PartLeads ==
  ASSUME NEW B, NEW small, NEW big, PartOf(small, big)
  PROVE  \A v \in Ways : PtrIn(B, small, v) \in {0, PtrIn(B, big, v)}
<1> USE DEF PartOf
<1> DEFINE S == {v \in Ways : PtrIn(B, small, v) \in {0, PtrIn(B, big, v)}}
<1>1. \A k \in Slots : Root(k) \in S
  BY PtrRoot, RootWays
<1>2. ASSUME NEW v \in Inner, NEW c \in Cell, v \in S
      PROVE  Kid(v, c) \in S
  <2>1. Kid(v, c) \in Ways
    BY KidWays
  <2>2. /\ PtrIn(B, small, Kid(v, c)) = Deref(B, PtrIn(B, small, v), c)
        /\ PtrIn(B, big, Kid(v, c)) = Deref(B, PtrIn(B, big, v), c)
    BY PtrKid
  <2> QED
    BY <1>2, <2>1, <2>2 DEF Deref
<1> HIDE DEF S
<1>3. \A v \in Ways : v \in S
  BY <1>1, <1>2, WayInduction
<1> QED
  BY <1>3 DEF S

\* ... and keeps its blocks as long as the other does.
LEMMA Kept ==
  ASSUME NEW B, NEW B2, NEW small, NEW big, NEW big2,
         PartOf(small, big), Keeps(B, big, B2, big2)
  PROVE  Keeps(B, small, B2, small)
<1> USE DEF Keeps
<1> DEFINE S == {v \in Ways : PtrIn(B, small, v) # 0
                              => PtrIn(B2, small, v) = PtrIn(B, small, v)}
<1>0. \A v \in Ways : PtrIn(B, small, v) \in {0, PtrIn(B, big, v)}
  BY PartLeads
<1>1. \A k \in Slots : Root(k) \in S
  BY PtrRoot, RootWays
<1>2. ASSUME NEW v \in Inner, NEW c \in Cell, v \in S
      PROVE  Kid(v, c) \in S
  <2>1. Kid(v, c) \in Ways /\ v \in Ways
    BY KidWays
  <2>2. /\ PtrIn(B, small, Kid(v, c)) = Deref(B, PtrIn(B, small, v), c)
        /\ PtrIn(B2, small, Kid(v, c)) = Deref(B2, PtrIn(B2, small, v), c)
        /\ PtrIn(B, big, Kid(v, c)) = Deref(B, PtrIn(B, big, v), c)
        /\ PtrIn(B2, big2, Kid(v, c)) = Deref(B2, PtrIn(B2, big2, v), c)
    BY PtrKid
  <2>3. SUFFICES ASSUME PtrIn(B, small, Kid(v, c)) # 0
                 PROVE  PtrIn(B2, small, Kid(v, c)) = PtrIn(B, small, Kid(v, c))
    BY <2>1
  <2> DEFINE p == PtrIn(B, small, v)
  <2>4. p # 0 /\ PtrIn(B, small, Kid(v, c)) = B[p][c]
    BY <2>2, <2>3 DEF Deref
  <2>5. PtrIn(B, big, v) = p /\ PtrIn(B2, small, v) = p
    BY <1>0, <1>2, <2>1, <2>4
  <2> HIDE DEF p
  <2>6. PtrIn(B2, big2, v) = p
    BY <2>1, <2>4, <2>5
  <2>7. PtrIn(B, big, Kid(v, c)) = B[p][c] /\ B[p][c] # 0
    BY <2>2, <2>3, <2>4, <2>5 DEF Deref
  <2>8. PtrIn(B2, big2, Kid(v, c)) = B[p][c] /\ PtrIn(B2, big2, Kid(v, c)) = B2[p][c]
    BY <2>1, <2>2, <2>4, <2>6, <2>7 DEF Deref
  <2>9. PtrIn(B2, small, Kid(v, c)) = B2[p][c]
    BY <2>2, <2>4, <2>5 DEF Deref
  <2> QED
    BY <2>4, <2>8, <2>9
<1> HIDE DEF S
<1>3. \A v \in Ways : v \in S
  BY <1>1, <1>2, WayInduction
<1> QED
  BY <1>3 DEF S

\* A new inode leads nowhere.
LEMMA NowhereWays == ASSUME NEW B PROVE \A v \in Ways : PtrIn(B, NoInode, v) = 0
<1> DEFINE S == {v \in Ways : PtrIn(B, NoInode, v) = 0}
<1>1. \A k \in Slots : Root(k) \in S
  BY PtrRoot, RootWays DEF NoInode
<1>2. ASSUME NEW v \in Inner, NEW c \in Cell, v \in S
      PROVE  Kid(v, c) \in S
  BY <1>2, KidWays, PtrKid DEF Deref
<1> HIDE DEF S
<1>3. \A v \in Ways : v \in S
  BY <1>1, <1>2, WayInduction
<1> QED
  BY <1>3 DEF S

-----------------------------------------------------------------------------
(***************************************************************************)
(* What the steps of the calls have in common.                              *)
(***************************************************************************)
LEMMA StructureFacts ==
  ASSUME Structure
  PROVE  /\ Recs \in [taken -> InodeRec] /\ taken \subseteq Inodes /\ ino \in [Inodes -> InodeRec]
         /\ marks \in SUBSET Blocks /\ blk \in [Blocks -> [Cell -> Nat]] /\ n \in InodeRec
         /\ call \in CallRec
         /\ Working => call.ino \in taken /\ Recs[call.ino] = n
         /\ \A j \in taken : ~(Working /\ call.ino = j) => Recs[j] = ino[j]
         /\ \A j \in taken : /\ Recs[j].blocks = ino[j].blocks /\ Recs[j].lwo = ino[j].lwo
                             /\ \A k \in Slots : ino[j].data[k] \in {0, Recs[j].data[k]}
         /\ ~Started => Sound(marks, blk, Recs, taken)
<1>1. /\ ino \in [Inodes -> InodeRec] /\ taken \subseteq Inodes
      /\ marks \in SUBSET Blocks /\ blk \in [Blocks -> [Cell -> Nat]] /\ n \in InodeRec
      /\ call \in CallRec
  BY DEF Structure, TypeOK, InodeRec, CallRec
<1>2. Recs \in [taken -> InodeRec]
  BY <1>1 DEF Recs
<1>3. Working => call.ino \in taken /\ Recs[call.ino] = n
  BY DEF Structure, Extends, Recs
<1>4. \A j \in taken : ~(Working /\ call.ino = j) => Recs[j] = ino[j]
  BY DEF Recs
<1>5. \A j \in taken : /\ Recs[j].blocks = ino[j].blocks /\ Recs[j].lwo = ino[j].lwo
                       /\ \A k \in Slots : ino[j].data[k] \in {0, Recs[j].data[k]}
  BY <1>3, <1>4 DEF Structure, Extends
<1>6. ~Started => Sound(marks, blk, Recs, taken)
  BY <1>1, <1>2 DEF Structure, Sound, Unique, Marked, Intact
<1> QED
  BY <1>1, <1>2, <1>3, <1>4, <1>5, <1>6

LEMMA FilesLogical ==
  ASSUME Structure, NEW i \in Inodes
  PROVE  /\ ino[i] \in InodeRec /\ ino[i].blocks \in Nat /\ ino[i].lwo \in Cell
         /\ Size(i) = Start(ino[i].blocks) + ino[i].lwo
         /\ Start(ino[i].blocks) \in Nat /\ Size(i) \in Nat /\ Size(i) <= MaxLen
         /\ \A m \in 0 .. ino[i].blocks : m \in Logical /\ W(m) \in Ways
<1> USE CellSizes
<1>1. ino[i] \in InodeRec /\ ino[i].blocks \in Nat /\ ino[i].lwo \in Cell /\ Size(i) <= MaxLen
  BY StructureFacts DEF InodeRec, Structure, Bounded
<1>2. Size(i) = Start(ino[i].blocks) + ino[i].lwo
  BY DEF Size, Start
<1>3. Size(i) \in Nat /\ Start(ino[i].blocks) + ino[i].lwo < Most
  <2>1. Start(ino[i].blocks) \in Nat /\ Most \in Nat /\ MaxLen < Most
    BY <1>1, CellsTimes, MostIs
  <2> QED
    BY <1>1, <1>2, <2>1 DEF Cell
<1>4. ino[i].blocks \in Logical
  <2>1. ino[i].lwo \in Nat
    BY <1>1 DEF Cell
  <2> QED
    BY <1>1, <1>3, <2>1, InLogical
<1>5. \A m \in 0 .. ino[i].blocks : m \in Logical
  BY <1>1, <1>4 DEF Logical
<1>6. \A m \in Logical : W(m) \in Ways
  BY WayOfBlock DEF Leaves
<1> QED
  BY <1>1, <1>2, <1>3, <1>5, <1>6, CellsTimes

\* The call of the file i has got the logical block l; the bits would be M.
Grew(M, i, l) ==
  /\ i \in taken /\ taken' = taken /\ ino' = ino
  /\ (Working => call.ino = i) /\ Working' /\ call'.ino = i
  /\ Sound(M, blk', Recs', taken)
  /\ PtrIn(blk', n', W(l)) # 0
  /\ \A j \in taken : \A v \in Ways :
       \/ PtrIn(blk', Recs'[j], v) = PtrIn(blk, Recs[j], v)
       \/ j = i /\ v \in Path(l) /\ PtrIn(blk, Recs[j], v) = 0
  /\ marks \subseteq M
  /\ M \subseteq marks \union {PtrIn(blk', n', v) : v \in Path(l)}
  /\ n'.blocks = Recs[i].blocks /\ n'.lwo = Recs[i].lwo
  /\ \A k \in Slots : Recs[i].data[k] \in {0, n'.data[k]}

LEMMA GetsGrew ==
  ASSUME Structure, NEW i \in taken, NEW B, NEW l, NEW e,
         Gets(marks, B, Recs, taken, i, l, e),
         \A j \in taken : \A v \in Ways : PtrIn(B, Recs[j], v) = PtrIn(blk, Recs[j], v),
         blk' = e.blk, n' = e.n, taken' = taken, ino' = ino,
         Working => call.ino = i, Working', call'.ino = i
  PROVE  Grew(e.marks, i, l)
<1> USE StructureFacts
<1>1. Recs' = [j \in taken |-> IF i = j THEN e.n ELSE ino[j]]
  BY DEF Recs
<1>2. Recs' = With(Recs, i, e)
  <2>1. \A j \in taken : j # i => Recs[j] = ino[j]
    OBVIOUS
  <2> QED
    BY <1>1, <2>1 DEF With
<1> QED
  BY <1>2 DEF Gets, Grew

LEMMA GrewKeeps ==
  ASSUME Structure, NEW M, NEW i, NEW l, Grew(M, i, l)
  PROVE  /\ Unique' /\ Extends' /\ FilledI' /\ (marks' = M => Marked')
         /\ n' \in InodeRec /\ blk' \in [Blocks -> [Cell -> Nat]] /\ M \in SUBSET Blocks
         /\ Recs'[i] = n' /\ PtrIn(blk', n', W(l)) # 0
         /\ \A v \in Ways : PtrIn(blk, Recs[i], v) # 0
                            => PtrIn(blk', n', v) = PtrIn(blk, Recs[i], v)
<1> USE StructureFacts
<1>1. /\ i \in taken /\ taken' = taken /\ ino' = ino
      /\ (Working => call.ino = i) /\ Working' /\ call'.ino = i
      /\ Sound(M, blk', Recs', taken)
      /\ PtrIn(blk', n', W(l)) # 0
      /\ \A j \in taken : \A v \in Ways :
           PtrIn(blk, Recs[j], v) # 0 => PtrIn(blk', Recs'[j], v) = PtrIn(blk, Recs[j], v)
      /\ n'.blocks = Recs[i].blocks /\ n'.lwo = Recs[i].lwo
      /\ \A k \in Slots : Recs[i].data[k] \in {0, n'.data[k]}
  BY DEF Grew
<1>2. /\ M \in SUBSET Blocks /\ blk' \in [Blocks -> [Cell -> Nat]]
      /\ Recs' \in [taken -> InodeRec] /\ Distinct(blk', Recs', taken)
      /\ Within(blk', Recs', taken, M)
  BY <1>1 DEF Sound
<1>3. Recs'[i] = n'
  BY <1>1 DEF Recs
<1>4. Unique'
  BY <1>1, <1>2 DEF Unique
<1>5. marks' = M => Marked'
  BY <1>1, <1>2 DEF Marked, Intact, Within
<1>6. Extends'
  <2>1. /\ n'.blocks = ino[i].blocks /\ n'.lwo = ino[i].lwo
        /\ \A k \in Slots : ino[i].data[k] \in {0, n'.data[k]}
    <3>1. /\ Recs[i].blocks = ino[i].blocks /\ Recs[i].lwo = ino[i].lwo
          /\ \A k \in Slots : ino[i].data[k] \in {0, Recs[i].data[k]}
      BY <1>1
    <3> QED
      BY <1>1, <3>1
  <2> QED
    BY <1>1, <2>1 DEF Extends
<1>7. FilledI'
  <2> SUFFICES ASSUME NEW j \in taken, IsWritten(ino[j]), NEW m \in 0 .. ino[j].blocks
               PROVE  PtrIn(blk', ino[j], W(m)) # 0
    BY <1>1 DEF FilledI, Filled
  <2>1. PtrIn(blk, ino[j], W(m)) # 0
    BY DEF Structure, FilledI, Filled
  <2>2. Keeps(blk, ino[j], blk', ino[j])
    <3>1. PartOf(ino[j], Recs[j])
      BY DEF PartOf
    <3>2. Keeps(blk, Recs[j], blk', Recs'[j])
      BY <1>1 DEF Keeps
    <3> QED
      BY <3>1, <3>2, Kept
  <2>3. W(m) \in Ways
    BY FilesLogical
  <2> QED
    BY <2>1, <2>2, <2>3 DEF Keeps
<1>8. \A v \in Ways : PtrIn(blk, Recs[i], v) # 0
                      => PtrIn(blk', n', v) = PtrIn(blk, Recs[i], v)
  BY <1>1, <1>3
<1>9. n' \in InodeRec
  BY <1>1, <1>2, <1>3
<1> QED
  BY <1>1, <1>2, <1>3, <1>4, <1>5, <1>6, <1>7, <1>8, <1>9

\* A call ends, or fails, and leaves its inode as it was on the disk.
LEMMA DropKeeps ==
  ASSUME Structure, ~Started, taken' = taken, ino' = ino, marks' = marks, blk' = blk, ~Working'
  PROVE  Unique' /\ Marked' /\ Extends' /\ FilledI' /\ FilledW'
<1> USE StructureFacts
<1>1. /\ Recs' = [j \in taken |-> ino[j]] /\ ~Started' /\ call'.op # "write"
      /\ Distinct(blk, Recs, taken) /\ Within(blk, Recs, taken, marks)
  BY DEF Recs, Working, Started, Sound
<1>2. \A j \in taken : \A v \in Ways : PtrIn(blk, Recs'[j], v) \in {0, PtrIn(blk, Recs[j], v)}
  <2> TAKE j \in taken
  <2>1. PartOf(Recs'[j], Recs[j])
    BY <1>1 DEF PartOf
  <2> QED
    BY <2>1, PartLeads
<1> HIDE DEF Working
<1>3. Distinct(blk, Recs', taken)
  BY <1>1, <1>2 DEF Distinct
<1>4. Within(blk, Recs', taken, marks)
  BY <1>1, <1>2 DEF Within
<1>5. Unique' /\ Marked'
  BY <1>1, <1>3, <1>4 DEF Unique, Marked, Intact
<1>6. FilledI'
  BY DEF Structure, FilledI, Filled
<1> QED
  BY <1>1, <1>5, <1>6 DEF Extends, FilledW

\* A step of a call on the block in memory.
LEMMA QuietKeeps ==
  ASSUME Structure, taken' = taken, ino' = ino, marks' = marks, blk' = blk, n' = n,
         call.op \in {"write", "read"}, call'.op = call.op, call'.ino = call.ino,
         call'.l = call.l
  PROVE  Unique' /\ Marked' /\ Extends' /\ FilledI' /\ FilledW'
<1>1. Recs' = Recs /\ Intact' = Intact /\ Working' = Working
  BY DEF Recs, Working, Intact, Started
<1>2. Unique' /\ Marked' /\ Extends'
  BY <1>1 DEF Structure, Unique, Marked, Extends
<1>3. FilledI' /\ FilledW'
  BY DEF Structure, FilledI, FilledW, Filled
<1> QED
  BY <1>2, <1>3

-----------------------------------------------------------------------------
(***************************************************************************)
(* The calls.                                                               *)
(***************************************************************************)
\* The disk is full: the call goes no further.
Stops == /\ ~Started /\ call' = [Idle EXCEPT !.op = "full"]
         /\ UNCHANGED <<ino, taken, marks, blk, n, b>>

LEMMA WithInode ==
  ASSUME NEW f \in DiskRec, NEW rec \in InodeRec
  PROVE  /\ [f EXCEPT !.n = rec] \in DiskRec /\ [f EXCEPT !.n = rec].n = rec
         /\ [f EXCEPT !.n = rec].new = f.new /\ [f EXCEPT !.n = rec].full = f.full
         /\ [f EXCEPT !.n = rec].marks = f.marks /\ [f EXCEPT !.n = rec].blk = f.blk
  BY DEF DiskRec

LEMMA NowDisk ==
  ASSUME Structure, NEW rec \in InodeRec
  PROVE  /\ Now \in DiskRec /\ Now.n = n /\ ~Now.new /\ ~Now.full
         /\ Now.marks = marks /\ Now.blk = blk
         /\ [Now EXCEPT !.n = rec] \in DiskRec /\ [Now EXCEPT !.n = rec].n = rec
         /\ ~[Now EXCEPT !.n = rec].new /\ ~[Now EXCEPT !.n = rec].full
         /\ [Now EXCEPT !.n = rec].marks = marks /\ [Now EXCEPT !.n = rec].blk = blk
<1>1. Now = [marks |-> marks, blk |-> blk, n |-> n, ph |-> 0, new |-> FALSE, full |-> FALSE]
  BY Zenon DEF Now
<1>2. /\ 0 \in 0 .. NBlocks /\ n \in InodeRec /\ marks \in SUBSET Blocks
      /\ blk \in [Blocks -> [Cell -> Nat]]
  BY StructureFacts, CellSizes
<1>3. Now \in DiskRec
  BY <1>1, <1>2, Zenon DEF DiskRec
<1>4. Now.n = n /\ Now.new = FALSE /\ Now.full = FALSE /\ Now.marks = marks /\ Now.blk = blk
  BY <1>1
<1> QED
  BY <1>3, <1>4, WithInode

LEMMA Begins ==
  ASSUME Structure
  PROVE  /\ past \in BOOLEAN /\ calls \in 0 .. MaxCalls /\ b \in [Cell -> Nat]
         /\ \A op : Begin(op) => calls' \in 0 .. MaxCalls
         /\ past' = past => past' \in BOOLEAN
<1>1. past \in BOOLEAN /\ calls \in 0 .. MaxCalls /\ b \in [Cell -> Nat]
  BY DEF Structure, TypeOK
<1>2. MaxCalls \in Nat
  BY BlocksAssumption
<1>3. \A op : Begin(op) => calls' \in 0 .. MaxCalls
  BY <1>1, <1>2 DEF Begin
<1> QED
  BY <1>1, <1>3

LEMMA StopsKeeps ==
  ASSUME Structure, Stops, past' \in BOOLEAN, calls' \in 0 .. MaxCalls
  PROVE  Structure'
<1>1. ~Working' /\ call'.op = "full" /\ call' \in CallRec
  <2>1. call' = [op |-> "full", ino |-> 0, l |-> 0, at |-> 0, left |-> 0, from |-> 0, got |-> <<>>]
    BY DEF Stops, Idle
  <2>2. 0 \in Cell /\ <<>> \in Seq(Nat)
    BY CellSizes DEF Cell
  <2> QED
    BY <2>1, <2>2 DEF Working, CallRec
<1>2. Unique' /\ Marked' /\ Extends' /\ FilledI' /\ FilledW'
  BY <1>1, DropKeeps DEF Stops
<1>3. TypeOK'
  BY <1>1 DEF Structure, Stops, TypeOK, CallRec
<1>4. Bounded'
  BY <1>1 DEF Structure, Stops, Bounded, Size
<1> QED
  BY <1>2, <1>3, <1>4 DEF Structure

\* A step of a call that gets a block of its file.
LEMMA GrewStructure ==
  ASSUME Structure, NEW i, NEW l, Grew(marks', i, l),
         call' \in CallRec, FilledW', Bounded', b' \in [Cell -> Nat],
         past' \in BOOLEAN, calls' \in 0 .. MaxCalls
  PROVE  Structure'
<1>1. /\ Unique' /\ Extends' /\ FilledI' /\ Marked'
      /\ n' \in InodeRec /\ blk' \in [Blocks -> [Cell -> Nat]] /\ marks' \in SUBSET Blocks
  BY GrewKeeps
<1>2. taken' \subseteq Inodes /\ ino' \in [Inodes -> InodeRec]
  BY StructureFacts DEF Grew
<1>3. TypeOK'
  BY <1>1, <1>2 DEF TypeOK, InodeRec, CallRec
<1> QED
  BY <1>1, <1>3 DEF Structure

LEMMA WriteCallStep ==
  ASSUME Structure, NEW i \in Inodes, NEW size \in WriteSizes, WriteCall(i, size)
  PROVE  \/ Stops
         \/ /\ Grew(marks', i, ino[i].blocks) /\ b' \in [Cell -> Nat]
            /\ call' = [Idle EXCEPT !.op = "write", !.ino = i, !.left = size,
                                    !.l = ino[i].blocks, !.at = ino[i].lwo]
<1> DEFINE d == [Now EXCEPT !.n = ino[i]]
           l == ino[i].blocks
           e == LogRead(d, l)
<1>1. /\ i \in taken /\ call = Idle /\ ~Working /\ ~Started /\ ino' = ino /\ taken' = taken
      /\ IF e.full THEN Full
         ELSE /\ Reads(e)
              /\ call' = [Idle EXCEPT !.op = "write", !.ino = i, !.left = size,
                                      !.l = ino[i].blocks, !.at = ino[i].lwo]
  BY DEF WriteCall, Begin, Idle, Working, Started
<1>2. ino[i] \in InodeRec /\ l \in Logical
  BY FilesLogical, StructureFacts DEF InodeRec
<1>3. /\ d \in DiskRec /\ ~d.new /\ ~d.full /\ d.n = ino[i] /\ d.marks = marks /\ d.blk = blk
  BY <1>2, NowDisk
<1>4. Recs[i] = ino[i] /\ Sound(marks, blk, Recs, taken)
  BY <1>1, StructureFacts
<1> HIDE DEF d, l
<1>5. CASE e.full
  BY <1>1, <1>5 DEF Stops, Full
<1>6. CASE ~e.full
  <2>1. Gets(marks, blk, Recs, taken, i, l, e)
    BY <1>1, <1>2, <1>3, <1>4, <1>6, LogReadGets
  <2> HIDE DEF e
  <2>2. /\ marks' = e.marks /\ blk' = e.blk /\ n' = e.n /\ b' = e.blk[e.ph]
        /\ Working' /\ call'.ino = i
    BY <1>1, <1>6 DEF Reads, Working, Idle
  <2>3. Grew(marks', i, l)
    BY <1>1, <2>1, <2>2, GetsGrew
  <2>4. b' \in [Cell -> Nat]
    BY <2>1, <2>2 DEF Gets, Sound
  <2> QED
    BY <1>1, <1>6, <2>3, <2>4 DEF l
<1> QED
  BY <1>5, <1>6

LEMMA WriteCallKeeps ==
  ASSUME Structure, NEW i \in Inodes, NEW size \in WriteSizes, WriteCall(i, size)
  PROVE  Structure'
<1> USE StructureFacts, FilesLogical, CellSizes
<1>1. /\ past' \in BOOLEAN /\ calls' \in 0 .. MaxCalls /\ i \in taken /\ call = Idle
      /\ ino' = ino /\ Size(i) + size <= MaxLen /\ size \in Nat
  <2>1. past' \in BOOLEAN /\ calls' \in 0 .. MaxCalls
    BY Begins DEF WriteCall
  <2>2. size \in Nat
    BY BlocksAssumption
  <2> QED
    BY <2>1, <2>2 DEF WriteCall, Begin
<1>2. CASE Stops
  BY <1>1, <1>2, StopsKeeps
<1>3. ASSUME Grew(marks', i, ino[i].blocks), b' \in [Cell -> Nat],
             call' = [Idle EXCEPT !.op = "write", !.ino = i, !.left = size,
                                  !.l = ino[i].blocks, !.at = ino[i].lwo]
      PROVE  Structure'
  <2>1. /\ call' = [op |-> "write", ino |-> i, l |-> ino[i].blocks, at |-> ino[i].lwo,
                    left |-> size, from |-> 0, got |-> <<>>]
        /\ call'.op = "write" /\ call'.ino = i /\ call'.l = ino[i].blocks
        /\ call'.at = ino[i].lwo /\ call'.left = size /\ Len(call'.got) = 0
    BY <1>3 DEF Idle
  <2>2. call' \in CallRec
    BY <1>1, <2>1 DEF CallRec
  <2>3. FilledW'
    <3> SUFFICES ASSUME NEW m \in 0 .. ino[i].blocks PROVE PtrIn(blk', n', W(m)) # 0
      BY <2>1 DEF FilledW, Filled
    <3>1. CASE IsWritten(ino[i])
      <4>1. PtrIn(blk, ino[i], W(m)) # 0 /\ Recs[i] = ino[i] /\ W(m) \in Ways
        BY <1>1, <3>1 DEF Structure, FilledI, Filled, Working, Idle
      <4>2. \A v \in Ways : PtrIn(blk, Recs[i], v) # 0
                            => PtrIn(blk', n', v) = PtrIn(blk, Recs[i], v)
        BY <1>3, GrewKeeps
      <4> QED
        BY <4>1, <4>2
    <3>2. CASE ~IsWritten(ino[i])
      <4>1. m = ino[i].blocks
        BY <3>2 DEF IsWritten
      <4> QED
        BY <1>3, <4>1, GrewKeeps
    <3> QED
      BY <3>1, <3>2
  <2>4. Bounded'
    <3>1. (\A j \in Inodes : Size(j) <= MaxLen)'
      BY <1>1 DEF Size
    <3>2. Position' = Size(i) /\ Size(i)' = Size(i)
      BY <1>1, <2>1 DEF Position, Size
    <3> HIDE DEF Size, Position
    <3>3. (Position = Size(call.ino) + Len(call.got) /\ Position + call.left <= MaxLen)'
      BY <1>1, <2>1, <3>2 DEF Size
    <3> QED
      BY <2>1, <3>1, <3>3 DEF Bounded
  <2> QED
    BY <1>1, <1>3, <2>2, <2>3, <2>4, GrewStructure
<1> QED
  BY <1>2, <1>3, WriteCallStep

LEMMA NextCell == ASSUME NEW c \in Cell, c # Cells - 1 PROVE c + 1 \in Cell
  BY CellSizes DEF Cell

LEMMA CallFacts ==
  ASSUME Structure
  PROVE  /\ call.l \in Nat /\ call.at \in Cell /\ call.left \in Nat /\ call.from \in Nat
         /\ call.got \in Seq(Nat) /\ Len(call.got) \in Nat /\ Position \in Nat
         /\ Start(call.l) \in Nat /\ Start(call.l + 1) = Start(call.l) + Cells
         /\ call.op = "write" => call.l \in Logical
         /\ call.op = "write" /\ call.left > 0 /\ call.at = Cells - 1 => call.l + 1 \in Logical
         /\ call.op = "read" => call.l \in Logical
         /\ call.op = "read" /\ call.left > 0 /\ call.at = Cells - 1 => call.l + 1 \in Logical
<1> USE CellSizes
<1>1. /\ call.l \in Nat /\ call.at \in Cell /\ call.left \in Nat /\ call.from \in Nat
      /\ call.got \in Seq(Nat)
  BY StructureFacts DEF CallRec
<1>2. Start(call.l) \in Nat /\ Start(call.l + 1) = Start(call.l) + Cells
  BY <1>1, CellsTimes
<1>3. Position \in Nat /\ Len(call.got) \in Nat
  BY <1>1, <1>2 DEF Position, Cell
<1>4. call.op \in {"write", "read"} => Position + call.left < Most
  BY <1>1, <1>3, MostIs DEF Structure, Bounded
<1>5. call.op \in {"write", "read"} => call.l \in Logical
  <2> DEFINE x == call.at + call.left
  <2>1. Position + call.left = Start(call.l) + x /\ x \in Nat
    BY <1>1, <1>2 DEF Position, Cell
  <2> HIDE DEF x
  <2> QED
    BY <1>1, <1>4, <2>1, InLogical
<1>6. ASSUME call.op \in {"write", "read"}, call.left > 0, call.at = Cells - 1
      PROVE  call.l + 1 \in Logical
  <2> DEFINE x == call.left - 1
             l == call.l + 1
  <2>1. Position + call.left = Start(l) + x /\ x \in Nat /\ l \in Nat
    BY <1>1, <1>2, <1>6, SMTT(20) DEF Position, Cell
  <2> HIDE DEF x, l
  <2>2. l \in Logical
    BY <1>4, <1>6, <2>1, InLogical
  <2> QED
    BY <2>2 DEF l
<1> QED
  BY <1>1, <1>2, <1>3, <1>5, <1>6

\* The next byte of a write, by whether its block is full with it.
LEMMA WriteByteStep ==
  ASSUME Structure, WriteByte
  PROVE  LET byte == Byte(call.ino, Size(call.ino) + Len(call.got))
             c == [call EXCEPT !.left = @ - 1, !.got = Append(@, byte)]
         IN  /\ byte \in Nat
             /\ \/ Stops
                \/ /\ call.at = Cells - 1 /\ call.l + 1 \in Logical
                   /\ Grew(marks', call.ino, call.l + 1) /\ b' \in [Cell -> Nat]
                   /\ call' = [c EXCEPT !.l = @ + 1, !.at = 0]
                \/ /\ call.at # Cells - 1 /\ b' \in [Cell -> Nat]
                   /\ UNCHANGED <<marks, blk, n, ino, taken>>
                   /\ call' = [c EXCEPT !.at = @ + 1]
<1> USE CellSizes
<1> DEFINE byte == Byte(call.ino, Size(call.ino) + Len(call.got))
           c == [call EXCEPT !.left = @ - 1, !.got = Append(@, byte)]
           data == [b EXCEPT ![call.at] = byte]
           d == LogWrite(Now, call.l, data)
           e == LogRead(d, call.l + 1)
           i == call.ino
<1>1. /\ call.op = "write" /\ call.left > 0 /\ taken' = taken /\ ino' = ino
      /\ IF call.at = Cells - 1
         THEN IF e.full THEN Full
              ELSE Reads(e) /\ call' = [c EXCEPT !.l = @ + 1, !.at = 0]
         ELSE /\ b' = data /\ call' = [c EXCEPT !.at = @ + 1]
              /\ UNCHANGED <<marks, blk, n>>
  BY DEF WriteByte
<1>2. /\ i \in taken /\ i \in Inodes /\ Recs[i] = n /\ ~Started /\ Working
      /\ Sound(marks, blk, Recs, taken) /\ PtrIn(blk, n, W(call.l)) # 0
  <2>1. Working /\ ~Started
    BY <1>1 DEF Working, Started
  <2>2. PtrIn(blk, n, W(call.l)) # 0
    BY <1>1, CallFacts DEF Structure, FilledW, Filled
  <2> QED
    BY <2>1, <2>2, StructureFacts
<1>3. byte \in Nat
  <2>1. /\ Position = Size(i) + Len(call.got) /\ Position + call.left <= MaxLen
        /\ Position \in Nat /\ call.left \in Nat
    BY <1>1, CallFacts DEF Structure, Bounded
  <2>2. Size(i) + Len(call.got) \in 0 .. MaxLen
    BY <2>1
  <2> QED
    BY <1>2, <2>2, BlocksAssumption
<1>4. data \in [Cell -> Nat]
  BY <1>3, CallFacts, Begins
<1> HIDE DEF byte, data, c
<1>5. CASE call.at # Cells - 1
  BY <1>1, <1>3, <1>4, <1>5 DEF byte, c
<1>6. CASE call.at = Cells - 1 /\ e.full
  BY <1>1, <1>2, <1>3, <1>6 DEF Stops, Full, byte
<1>7. CASE call.at = Cells - 1 /\ ~e.full
  <2>1. call.l \in Logical /\ call.l + 1 \in Logical
    BY <1>1, <1>7, CallFacts
  <2>2. /\ Now \in DiskRec /\ Now.n = n /\ ~Now.new /\ ~Now.full /\ Now.marks = marks /\ Now.blk = blk
    BY NowDisk, StructureFacts
  <2>3. /\ d \in DiskRec /\ ~d.new /\ ~d.full /\ d.n = n /\ d.marks = marks
        /\ Sound(marks, d.blk, Recs, taken)
        /\ \A j \in taken : \A v \in Ways : PtrIn(d.blk, Recs[j], v) = PtrIn(blk, Recs[j], v)
    <3>1. d = LogWrite(Now, call.l, data) /\ PtrIn(Now.blk, Now.n, W(call.l)) # 0
      BY <1>2, <2>2
    <3>2. /\ i \in taken /\ Recs[i] = Now.n /\ Sound(Now.marks, Now.blk, Recs, taken)
          /\ Now \in DiskRec /\ ~Now.new /\ ~Now.full
      BY <1>2, <2>2
    <3> HIDE DEF d, e, i
    <3>3. Wrote(Now, d, Recs, taken, call.l, data)
      BY <1>4, <2>1, <3>1, <3>2, LogWriteFound
    <3> QED
      BY <2>2, <3>3 DEF Wrote
  <2> HIDE DEF d
  <2>4. Gets(marks, d.blk, Recs, taken, i, call.l + 1, e)
    BY <1>2, <1>7, <2>1, <2>3, LogReadGets
  <2> HIDE DEF e
  <2>5. /\ marks' = e.marks /\ blk' = e.blk /\ n' = e.n /\ b' = e.blk[e.ph]
        /\ call' = [c EXCEPT !.l = @ + 1, !.at = 0]
    BY <1>1, <1>7 DEF Reads
  <2>6. Working' /\ call'.ino = i
    BY <1>1, <2>5, StructureFacts DEF Working, c, CallRec
  <2>7. Grew(marks', i, call.l + 1)
    BY <1>1, <1>2, <2>3, <2>4, <2>5, <2>6, GetsGrew
  <2>8. b' \in [Cell -> Nat]
    BY <2>4, <2>5 DEF Gets, Sound
  <2> QED
    BY <1>3, <1>7, <2>1, <2>5, <2>7, <2>8 DEF byte, c
<1> QED
  BY <1>5, <1>6, <1>7

LEMMA WriteByteKeeps ==
  ASSUME Structure, WriteByte
  PROVE  Structure'
<1>0. /\ call.l \in Nat /\ call.at \in Cell /\ call.left \in Nat /\ call.got \in Seq(Nat)
      /\ Len(call.got) \in Nat /\ Position \in Nat /\ Start(call.l) \in Nat
      /\ Start(call.l + 1) = Start(call.l) + Cells
  BY CallFacts
<1> DEFINE byte == Byte(call.ino, Size(call.ino) + Len(call.got))
           got == Append(call.got, byte)
<1>1. /\ past' \in BOOLEAN /\ calls' \in 0 .. MaxCalls /\ ino' = ino
      /\ call.op = "write" /\ call.left > 0 /\ call.ino \in taken /\ call.ino \in Inodes
      /\ call \in CallRec /\ Recs[call.ino] = n
  BY Begins, StructureFacts DEF WriteByte, Working
<1>2. byte \in Nat /\ got \in Seq(Nat) /\ Len(got) = Len(call.got) + 1
  <2>1. byte \in Nat
    BY WriteByteStep
  <2> HIDE DEF byte
  <2> QED
    BY <1>0, <2>1
<1>3. /\ \A j \in Inodes : Size(j) <= MaxLen /\ Size(j) \in Nat
      /\ Position = Size(call.ino) + Len(call.got) /\ Position + call.left <= MaxLen
      /\ MaxLen \in Nat
  BY CellSizes, <1>1, FilesLogical DEF Structure, Bounded
<1>4. \A j \in Inodes : Size(j)' = Size(j)
  BY <1>1 DEF Size
<1> HIDE DEF byte, got
<1>5. CASE Stops
  BY <1>1, <1>5, StopsKeeps
<1>6. ASSUME call.at = Cells - 1, call.l + 1 \in Logical,
             Grew(marks', call.ino, call.l + 1), b' \in [Cell -> Nat],
             call' = [[call EXCEPT !.left = @ - 1, !.got = got] EXCEPT !.l = @ + 1, !.at = 0]
      PROVE  Structure'
  <2>1. /\ call'.op = "write" /\ call'.ino = call.ino /\ call'.l = call.l + 1 /\ call'.at = 0
        /\ call'.left = call.left - 1 /\ call'.got = got /\ call' \in CallRec
    <3>1. call.left - 1 \in Nat /\ call.l + 1 \in Nat /\ 0 \in Cell
      BY <1>0, <1>1, CellSizes, SMTT(20) DEF Cell
    <3> QED
      BY <1>1, <1>2, <1>6, <3>1 DEF CallRec
  <2>2. FilledW'
    <3> SUFFICES ASSUME NEW m \in 0 .. call.l + 1 PROVE PtrIn(blk', n', W(m)) # 0
      BY <2>1 DEF FilledW, Filled
    <3>1. CASE m = call.l + 1
      BY <1>6, <3>1, GrewKeeps
    <3>2. CASE m \in 0 .. call.l
      <4>1. PtrIn(blk, n, W(m)) # 0
        BY <1>1, <3>2 DEF Structure, FilledW, Filled
      <4>2. W(m) \in Ways
        <5>1. m \in Logical
          BY <1>6, <3>2, CellSizes DEF Logical
        <5> QED
          BY <5>1, WayOfBlock DEF Leaves
      <4>3. \A v \in Ways : PtrIn(blk, Recs[call.ino], v) # 0
                            => PtrIn(blk', n', v) = PtrIn(blk, Recs[call.ino], v)
        BY <1>6, GrewKeeps
      <4> QED
        BY <1>1, <4>1, <4>2, <4>3
    <3> QED
      BY <1>0, <3>1, <3>2
  <2>3. Bounded'
    <3>1. Position' = Start(call.l + 1) + 0
      BY <2>1 DEF Position
    <3>2. Position' = Position + 1
      BY <1>0, <1>6, <3>1, CellSizes DEF Position, Cell
    <3>4. Size(call.ino)' = Size(call.ino)
      BY <1>1, <2>1 DEF Size
    <3>3. Position' = Size(call.ino)' + Len(call'.got) /\ Position' + call'.left <= MaxLen
      <4>1. Len(call'.got) = Len(call.got) + 1 /\ call'.left = call.left - 1
        BY <1>2, <2>1
      <4>2. Position = Size(call.ino) + Len(call.got) /\ Size(call.ino) \in Nat
        BY <1>1, <1>3
      <4>3. Position' = Size(call.ino)' + Len(call'.got)
        BY <1>0, <3>2, <3>4, <4>1, <4>2
      <4>4. Position' + call'.left <= MaxLen
        BY <1>0, <1>3, <3>2, <3>4, <4>1
      <4> QED
        BY <4>3, <4>4
    <3> QED
      BY <1>1, <1>3, <1>4, <2>1, <3>3 DEF Bounded
  <2> QED
    BY <1>1, <1>6, <2>1, <2>2, <2>3, GrewStructure
<1>7. ASSUME call.at # Cells - 1, b' \in [Cell -> Nat], UNCHANGED <<marks, blk, n, ino, taken>>,
             call' = [[call EXCEPT !.left = @ - 1, !.got = got] EXCEPT !.at = @ + 1]
      PROVE  Structure'
  <2>1. /\ call'.op = "write" /\ call'.ino = call.ino /\ call'.l = call.l /\ call'.at = call.at + 1
        /\ call'.left = call.left - 1 /\ call'.got = got /\ call' \in CallRec
    <3>1. call.left - 1 \in Nat /\ call.at + 1 \in Cell
      BY <1>0, <1>1, <1>7, NextCell
    <3> QED
      BY <1>1, <1>2, <1>7, <3>1 DEF CallRec
  <2>2. Unique' /\ Marked' /\ Extends' /\ FilledI' /\ FilledW'
    BY <1>1, <1>7, <2>1, QuietKeeps
  <2>3. Bounded'
    <3>1. Position' = Position + 1
      BY <1>0, <2>1 DEF Position, Cell
    <3>4. Size(call.ino)' = Size(call.ino)
      BY <1>1, <2>1 DEF Size
    <3>2. Position' = Size(call.ino)' + Len(call'.got) /\ Position' + call'.left <= MaxLen
      <4>1. Len(call'.got) = Len(call.got) + 1 /\ call'.left = call.left - 1
        BY <1>2, <2>1
      <4>2. Position = Size(call.ino) + Len(call.got) /\ Size(call.ino) \in Nat
        BY <1>1, <1>3
      <4>3. Position' = Size(call.ino)' + Len(call'.got)
        BY <1>0, <3>1, <3>4, <4>1, <4>2
      <4>4. Position' + call'.left <= MaxLen
        BY <1>0, <1>3, <3>1, <3>4, <4>1
      <4> QED
        BY <4>3, <4>4
    <3> QED
      BY <1>1, <1>3, <1>4, <2>1, <3>2 DEF Bounded
  <2>4. TypeOK'
    BY <1>1, <1>7, <2>1 DEF Structure, TypeOK, CallRec
  <2> QED
    BY <2>2, <2>3, <2>4 DEF Structure
<1> QED
  BY <1>5, <1>6, <1>7, WriteByteStep DEF byte, got

LEMMA SameData ==
  ASSUME NEW B, NEW rec, NEW rec2, rec.data = rec2.data
  PROVE  \A v : PtrIn(B, rec, v) = PtrIn(B, rec2, v)
  BY Zenon DEF PtrIn

\* The end of a write gives the file the blocks that it has got, and its new size.
LEMMA WriteEndsStep ==
  ASSUME Structure, WriteEnds
  PROVE  /\ call.op = "write" /\ call.left = 0 /\ call.ino \in taken
         /\ taken' = taken /\ marks' = marks /\ call' = Idle
         /\ blk' \in [Blocks -> [Cell -> Nat]] /\ b' \in [Cell -> Nat] /\ n' \in InodeRec
         /\ n'.data = n.data
         /\ ino' = [ino EXCEPT ![call.ino] = [n' EXCEPT !.blocks = call.l]]
         /\ n'.lwo = call.at
         /\ \A j \in taken : \A v \in Ways : PtrIn(blk', Recs[j], v) = PtrIn(blk, Recs[j], v)
         /\ PtrIn(blk, n, W(call.l)) # 0
         /\ blk' = [blk EXCEPT ![PtrIn(blk, n, W(call.l))] = b]
<1> DEFINE i == call.ino
           n1 == [n EXCEPT !.lwo = call.at]
           d == [Now EXCEPT !.n = n1]
           d1 == [Now EXCEPT !.n.lwo = call.at]
           e == LogWrite(d, call.l, b)
           R == [Recs EXCEPT ![i] = n1]
<1>1. /\ call.op = "write" /\ call.left = 0 /\ taken' = taken
      /\ IF LogWrite(d1, call.l, b).full THEN Full /\ UNCHANGED <<ino, result>>
         ELSE /\ Reads(LogWrite(d1, call.l, b)) /\ call' = Idle
              /\ ino' = [ino EXCEPT ![i] = [LogWrite(d1, call.l, b).n EXCEPT !.blocks = call.l]]
  BY DEF WriteEnds
<1>2. Working /\ ~Started
  BY <1>1 DEF Working, Started
<1>3. /\ i \in taken /\ Recs[i] = n /\ Recs \in [taken -> InodeRec] /\ n \in InodeRec
      /\ Sound(marks, blk, Recs, taken) /\ PtrIn(blk, n, W(call.l)) # 0
  <2>1. PtrIn(blk, n, W(call.l)) # 0
    BY <1>1, CallFacts DEF Structure, FilledW, Filled
  <2> QED
    BY <1>2, <2>1, StructureFacts
<1>4. n1 \in InodeRec /\ n1.data = n.data /\ n1.lwo = call.at
  BY <1>3, CallFacts DEF InodeRec
<1>5. d1 = d
  <2>1. Now.n = n /\ Now \in DiskRec
    BY <1>3, NowDisk
  <2> QED
    BY <2>1 DEF DiskRec
<1>6. /\ d \in DiskRec /\ ~d.new /\ ~d.full /\ d.n = n1 /\ d.marks = marks /\ d.blk = blk
  BY <1>4, NowDisk
<1> HIDE DEF n1, d, d1
<1>7. \A B : \A j \in taken : \A v : PtrIn(B, R[j], v) = PtrIn(B, Recs[j], v)
  <2> TAKE B
  <2> TAKE j \in taken
  <2>1. R[j].data = Recs[j].data
    BY <1>3, <1>4
  <2> QED
    BY <2>1, SameData
<1>8. R \in [taken -> InodeRec] /\ R[i] = d.n
  BY <1>3, <1>4, <1>6
<1> HIDE DEF R
<1>9. Sound(d.marks, d.blk, R, taken)
  BY <1>3, <1>6, <1>7, <1>8 DEF Sound, Distinct, Within
<1>10. PtrIn(blk, n1, W(call.l)) = PtrIn(blk, n, W(call.l))
  BY <1>4, SameData
<1>11. call.l \in Logical /\ b \in [Cell -> Nat]
  BY <1>1, CallFacts, Begins
<1>12. Wrote(d, e, R, taken, call.l, b)
  <2>1. PtrIn(d.blk, d.n, W(call.l)) # 0
    BY <1>3, <1>6, <1>10
  <2> QED
    BY <1>3, <1>6, <1>8, <1>9, <1>11, <2>1, LogWriteFound
<1> HIDE DEF e
<1>13. /\ ~e.full /\ e.n = n1 /\ e.marks = marks /\ e.ph = PtrIn(blk, n, W(call.l))
       /\ e.blk = [blk EXCEPT ![e.ph] = b] /\ Sound(e.marks, e.blk, R, taken)
       /\ e.ph \in Blocks
       /\ \A j \in taken : \A v \in Ways : PtrIn(e.blk, R[j], v) = PtrIn(blk, R[j], v)
  <2>1. e.ph \in Blocks
    <3>1. W(call.l) \in Ways
      BY <1>11, WayOfBlock DEF Leaves
    <3> QED
      BY <1>3, <1>6, <1>10, <1>12, <3>1 DEF Wrote, Sound, Within
  <2> QED
    BY <1>6, <1>10, <1>12, <2>1 DEF Wrote
<1>14. /\ marks' = marks /\ blk' = e.blk /\ n' = n1 /\ b' = e.blk[e.ph] /\ call' = Idle
       /\ ino' = [ino EXCEPT ![i] = [n1 EXCEPT !.blocks = call.l]]
  <2>1. e = LogWrite(d1, call.l, b)
    BY <1>5 DEF e
  <2> QED
    BY <1>1, <1>13, <2>1 DEF Reads
<1>15. blk' \in [Blocks -> [Cell -> Nat]] /\ b' \in [Cell -> Nat]
  BY <1>13, <1>14 DEF Sound
<1>16. \A j \in taken : \A v \in Ways : PtrIn(blk', Recs[j], v) = PtrIn(blk, Recs[j], v)
  <2> TAKE j \in taken
  <2> TAKE v \in Ways
  <2>1. PtrIn(e.blk, R[j], v) = PtrIn(blk, R[j], v)
    BY <1>13
  <2>2. PtrIn(e.blk, R[j], v) = PtrIn(e.blk, Recs[j], v) /\ PtrIn(blk, R[j], v) = PtrIn(blk, Recs[j], v)
    BY <1>7
  <2> QED
    BY <1>14, <2>1, <2>2
<1> QED
  BY <1>1, <1>3, <1>4, <1>13, <1>14, <1>15, <1>16

LEMMA WriteEndsKeeps ==
  ASSUME Structure, WriteEnds
  PROVE  Structure'
<1> DEFINE i == call.ino
           m1 == [n' EXCEPT !.blocks = call.l]
<1>1. /\ call.op = "write" /\ call.left = 0 /\ i \in taken /\ i \in Inodes
      /\ taken' = taken /\ marks' = marks /\ call' = Idle
      /\ blk' \in [Blocks -> [Cell -> Nat]] /\ b' \in [Cell -> Nat] /\ n' \in InodeRec
      /\ n'.data = n.data /\ n'.lwo = call.at /\ ino' = [ino EXCEPT ![i] = m1]
      /\ \A j \in taken : \A v \in Ways : PtrIn(blk', Recs[j], v) = PtrIn(blk, Recs[j], v)
  BY WriteEndsStep, StructureFacts
<1>2. /\ ~Working' /\ ~Started' /\ ~Started /\ Working /\ call' \in CallRec
      /\ call'.op = "none"
  <2>1. call' = [op |-> "none", ino |-> 0, l |-> 0, at |-> 0, left |-> 0, from |-> 0, got |-> <<>>]
    BY <1>1 DEF Idle
  <2>2. 0 \in Cell /\ <<>> \in Seq(Nat)
    BY CellSizes DEF Cell
  <2> QED
    BY <1>1, <2>1, <2>2 DEF Working, Started, CallRec
<1>3. m1 \in InodeRec /\ m1.data = n.data /\ m1.blocks = call.l /\ m1.lwo = call.at
  BY <1>1, CallFacts DEF InodeRec
<1> HIDE DEF m1
<1>4. /\ ino \in [Inodes -> InodeRec] /\ taken \subseteq Inodes
      /\ Recs[i] = n /\ \A j \in taken : j # i => Recs[j] = ino[j]
      /\ Sound(marks, blk, Recs, taken) /\ marks \in SUBSET Blocks
  BY <1>2, StructureFacts
<1>5. ino' \in [Inodes -> InodeRec] /\ \A j \in taken : ino'[j].data = Recs[j].data
  BY <1>1, <1>3, <1>4
<1>6. \A j \in taken : \A v \in Ways : PtrIn(blk', ino'[j], v) = PtrIn(blk, Recs[j], v)
  <2> TAKE j \in taken
  <2>1. \A v : PtrIn(blk', ino'[j], v) = PtrIn(blk', Recs[j], v)
    BY <1>5, SameData
  <2> QED
    BY <1>1, <2>1
<1>7. Recs' = [j \in taken |-> ino'[j]]
  BY <1>1, <1>2 DEF Recs
<1>8. Unique' /\ Marked' /\ Extends'
  <2>1. Distinct(blk', Recs', taken)
    BY <1>4, <1>6, <1>7 DEF Sound, Distinct
  <2>2. Within(blk', Recs', taken, marks)
    BY <1>4, <1>6, <1>7 DEF Sound, Within
  <2> QED
    BY <1>1, <1>2, <2>1, <2>2 DEF Unique, Marked, Intact, Extends
<1>9. FilledI'
  <2> SUFFICES ASSUME NEW j \in taken, IsWritten(ino'[j]), NEW m \in 0 .. ino'[j].blocks
               PROVE  PtrIn(blk', ino'[j], W(m)) # 0
    BY <1>1 DEF FilledI, Filled
  <2>1. CASE j = i
    <3>1. m \in 0 .. call.l
      BY <1>1, <1>3, <1>4, <2>1
    <3>2. PtrIn(blk, Recs[j], W(m)) # 0
      BY <1>1, <1>4, <2>1, <3>1 DEF Structure, FilledW, Filled
    <3>3. m \in Logical
      BY <1>1, <3>1, CallFacts, CellSizes DEF Logical
    <3>4. W(m) \in Ways
      BY <3>3, WayOfBlock DEF Leaves
    <3> QED
      BY <1>6, <3>2, <3>4
  <2>2. CASE j # i
    <3>1. ino'[j] = ino[j] /\ Recs[j] = ino[j] /\ j \in Inodes
      BY <1>1, <1>4, <2>2
    <3>2. PtrIn(blk, ino[j], W(m)) # 0
      BY <3>1 DEF Structure, FilledI, Filled
    <3>3. W(m) \in Ways
      BY <3>1, FilesLogical
    <3> QED
      BY <1>6, <3>1, <3>2, <3>3
  <2> QED
    BY <2>1, <2>2
<1>10. TypeOK'
  BY <1>1, <1>2, <1>4, <1>5 DEF Structure, TypeOK, InodeRec, CallRec, WriteEnds
<1>11. Bounded'
  <2>1. ASSUME NEW j \in Inodes PROVE Size(j)' <= MaxLen
    <3>1. CASE j = i
      <4>1. Size(j)' = Position
        BY <1>1, <1>3, <1>4, <3>1 DEF Size, Position, Start
      <4>2. Position + call.left <= MaxLen
        BY <1>1 DEF Structure, Bounded
      <4> QED
        BY <1>1, <4>1, <4>2, CallFacts
    <3>2. CASE j # i
      <4>1. Size(j)' = Size(j)
        BY <1>1, <1>4, <3>2 DEF Size
      <4> QED
        BY <4>1, FilesLogical
    <3> QED
      BY <3>1, <3>2
  <2> QED
    BY <1>2, <2>1 DEF Bounded
<1>12. FilledW'
  BY <1>2 DEF FilledW
<1> QED
  BY <1>8, <1>9, <1>10, <1>11, <1>12 DEF Structure

LEMMA IdleCall ==
  Idle \in CallRec /\ Idle.op = "none"
<1>1. Idle = [op |-> "none", ino |-> 0, l |-> 0, at |-> 0, left |-> 0, from |-> 0, got |-> <<>>]
  BY DEF Idle
<1>2. 0 \in Cell /\ <<>> \in Seq(Nat)
  BY CellSizes DEF Cell
<1> QED
  BY <1>1, <1>2 DEF CallRec

\* A call that changes nothing on the disk ends.
LEMMA EndKeeps ==
  ASSUME Structure, ~Started, call' = Idle, UNCHANGED <<ino, taken, marks, blk, n, b>>,
         past' \in BOOLEAN, calls' \in 0 .. MaxCalls
  PROVE  Structure'
<1>1. ~Working' /\ call'.op = "none" /\ call' \in CallRec
  BY IdleCall DEF Working
<1>2. Unique' /\ Marked' /\ Extends' /\ FilledI' /\ FilledW'
  BY <1>1, DropKeeps
<1>3. TypeOK'
  BY <1>1 DEF Structure, TypeOK, CallRec
<1>4. Bounded'
  BY <1>1 DEF Structure, Bounded, Size
<1> QED
  BY <1>2, <1>3, <1>4 DEF Structure

\* What a read starts from.
ReadFrom(i, from, size) ==
  [Idle EXCEPT !.op = "read", !.ino = i, !.l = from \div Cells, !.at = from % Cells,
               !.from = from, !.left = size]

LEMMA FromIs ==
  ASSUME NEW from \in 0 .. MaxLen
  PROVE  /\ from \in Nat /\ from \div Cells \in Nat /\ from % Cells \in 0 .. Cells - 1
         /\ Start(from \div Cells) + (from % Cells) = from
<1>1. from \in Nat /\ Cells \in Nat \ {0}
  BY CellSizes
<1>2. /\ from \div Cells \in Nat /\ from % Cells \in 0 .. Cells - 1
      /\ from = (from \div Cells) * Cells + (from % Cells)
  BY <1>1, QuotRem
<1> QED
  BY <1>1, <1>2 DEF Start

LEMMA ReadCallStep ==
  ASSUME Structure, NEW i \in Inodes, NEW from \in 0 .. MaxLen, NEW size \in ReadSizes,
         ReadCall(i, from, size)
  PROVE  /\ i \in taken /\ call = Idle /\ ino' = ino /\ taken' = taken
         /\ \/ Stops
            \/ call' = Idle /\ UNCHANGED <<marks, blk, n, b>>
            \/ /\ Grew(marks', i, from \div Cells) /\ b' \in [Cell -> Nat]
               /\ from \div Cells <= ino[i].blocks
               /\ call' = ReadFrom(i, from, size)
<1> DEFINE l == from \div Cells
           d == [Now EXCEPT !.n = ino[i]]
           e == LogRead(d, l)
<1>0. l \in Nat /\ from % Cells \in 0 .. Cells - 1 /\ Start(l) + (from % Cells) = from
  BY FromIs
<1>1. l \in Logical
  <2>1. Start(l) + (from % Cells) < Most /\ from % Cells \in Nat
    BY <1>0, MostIs, CellSizes
  <2> QED
    BY <1>0, <2>1, InLogical
<1>2. /\ i \in taken /\ call = Idle /\ ~Working /\ ~Started /\ ino' = ino /\ taken' = taken
      /\ \/ call' = Idle /\ UNCHANGED <<marks, blk, n, b>>
         \/ /\ l < ino[i].blocks \/ l = ino[i].blocks
            /\ IF e.full THEN Full ELSE Reads(e) /\ call' = ReadFrom(i, from, size)
  <2>1. /\ i \in taken /\ call = Idle /\ ino' = ino /\ taken' = taken
        /\ \/ call' = Idle /\ UNCHANGED <<marks, blk, n, b>>
           \/ /\ l < ino[i].blocks \/ l = ino[i].blocks
              /\ IF e.full THEN Full ELSE Reads(e) /\ call' = ReadFrom(i, from, size)
    BY DEF ReadCall, Begin, ReadFrom
  <2> QED
    BY <2>1, IdleCall DEF Working, Started
<1>3. ino[i] \in InodeRec /\ ino[i].blocks \in Nat
  BY FilesLogical
<1>4. /\ d \in DiskRec /\ ~d.new /\ ~d.full /\ d.n = ino[i] /\ d.marks = marks /\ d.blk = blk
  BY <1>3, NowDisk
<1>5. Recs[i] = ino[i] /\ Sound(marks, blk, Recs, taken)
  BY <1>2, StructureFacts
<1> HIDE DEF d, l
<1>6. CASE call' = Idle /\ UNCHANGED <<marks, blk, n, b>>
  BY <1>2, <1>6
<1>7. CASE Full
  BY <1>2, <1>7 DEF Stops, Full
<1>8. CASE ~e.full /\ Reads(e) /\ call' = ReadFrom(i, from, size) /\ l <= ino[i].blocks
  <2>1. Gets(marks, blk, Recs, taken, i, l, e)
    BY <1>1, <1>2, <1>4, <1>5, <1>8, LogReadGets
  <2> HIDE DEF e
  <2>2. /\ marks' = e.marks /\ blk' = e.blk /\ n' = e.n /\ b' = e.blk[e.ph]
        /\ Working' /\ call'.ino = i
    BY <1>8 DEF Reads, Working, Idle, ReadFrom
  <2>3. Grew(marks', i, l)
    BY <1>2, <2>1, <2>2, GetsGrew
  <2>4. b' \in [Cell -> Nat]
    BY <2>1, <2>2 DEF Gets, Sound
  <2> QED
    BY <1>2, <1>8, <2>3, <2>4 DEF l
<1> QED
  BY <1>0, <1>2, <1>3, <1>6, <1>7, <1>8 DEF l

LEMMA ReadCallKeeps ==
  ASSUME Structure, NEW i \in Inodes, NEW from \in 0 .. MaxLen, NEW size \in ReadSizes,
         ReadCall(i, from, size)
  PROVE  Structure'
<1> DEFINE l == from \div Cells
<1>1. /\ past' \in BOOLEAN /\ calls' \in 0 .. MaxCalls
      /\ i \in taken /\ call = Idle /\ ino' = ino /\ taken' = taken /\ ~Started
  <2>1. i \in taken /\ call = Idle /\ ino' = ino /\ taken' = taken
    BY ReadCallStep
  <2> QED
    BY <2>1, Begins, IdleCall DEF ReadCall, Started
<1>2. CASE Stops
  BY <1>1, <1>2, StopsKeeps
<1>3. CASE call' = Idle /\ UNCHANGED <<marks, blk, n, b>>
  BY <1>1, <1>3, EndKeeps
<1>4. ASSUME Grew(marks', i, l), b' \in [Cell -> Nat], call' = ReadFrom(i, from, size)
      PROVE  Structure'
  <2>0. /\ l \in Nat /\ from % Cells \in 0 .. Cells - 1 /\ Start(l) + (from % Cells) = from
        /\ size \in Nat /\ from \in Nat
    <3>1. size \in Nat
      BY BlocksAssumption
    <3> QED
      BY <3>1, FromIs, CellSizes
  <2>1. /\ call' = [op |-> "read", ino |-> i, l |-> l, at |-> from % Cells,
                    left |-> size, from |-> from, got |-> <<>>]
        /\ call'.op = "read" /\ call'.ino = i /\ call'.l = l
        /\ call'.at = from % Cells /\ call'.left = size /\ call'.from = from
        /\ Len(call'.got) = 0
    BY <1>4 DEF ReadFrom, Idle
  <2>2. call' \in CallRec
    BY <2>0, <2>1 DEF CallRec, Cell
  <2>3. Bounded'
    <3>1. \A j \in Inodes : Size(j)' <= MaxLen
      BY <1>1, FilesLogical DEF Size
    <3>2. Position' = from
      BY <2>0, <2>1 DEF Position
    <3>3. from + size < Most
      <4>1. MaxLen + size < Most
        BY BlocksAssumption DEF Most, NLogical
      <4> QED
        BY <2>0, <4>1, CellSizes, MostIs
    <3> QED
      BY <2>0, <2>1, <3>1, <3>2, <3>3 DEF Bounded
  <2>4. FilledW'
    BY <2>1 DEF FilledW
  <2> QED
    BY <1>1, <1>4, <2>2, <2>3, <2>4, GrewStructure
<1> QED
  BY <1>2, <1>3, <1>4, ReadCallStep

LEMMA ReadByteStep ==
  ASSUME Structure, ReadByte
  PROVE  LET c == [call EXCEPT !.left = @ - 1, !.got = Append(@, b[call.at])]
         IN  /\ call.op = "read" /\ call.left > 0 /\ ino' = ino /\ taken' = taken
             /\ \/ Stops
                \/ AtTop /\ call' = Idle /\ UNCHANGED <<marks, blk, n, b>>
                \/ /\ ~AtTop /\ call.at = Cells - 1 /\ call.l + 1 \in Logical
                   /\ Grew(marks', call.ino, call.l + 1) /\ b' \in [Cell -> Nat]
                   /\ call' = [c EXCEPT !.l = @ + 1, !.at = 0]
                \/ /\ ~AtTop /\ call.at # Cells - 1 /\ UNCHANGED <<marks, blk, n, b>>
                   /\ call' = [c EXCEPT !.at = @ + 1]
<1> DEFINE c == [call EXCEPT !.left = @ - 1, !.got = Append(@, b[call.at])]
           e == LogRead(Now, call.l + 1)
           i == call.ino
<1>1. /\ call.op = "read" /\ call.left > 0 /\ taken' = taken /\ ino' = ino
      /\ IF AtTop THEN call' = Idle /\ UNCHANGED <<marks, blk, n, b>>
         ELSE IF call.at = Cells - 1
         THEN IF e.full THEN Full
              ELSE Reads(e) /\ call' = [c EXCEPT !.l = @ + 1, !.at = 0]
         ELSE call' = [c EXCEPT !.at = @ + 1] /\ UNCHANGED <<marks, blk, n, b>>
  BY DEF ReadByte, ReadReturns
<1>2. /\ i \in taken /\ Recs[i] = n /\ ~Started /\ Working /\ Sound(marks, blk, Recs, taken)
  <2>1. Working /\ ~Started
    BY <1>1 DEF Working, Started
  <2> QED
    BY <2>1, StructureFacts
<1> HIDE DEF c
<1>3. CASE AtTop
  BY <1>1, <1>3
<1>4. CASE ~AtTop /\ call.at # Cells - 1
  BY <1>1, <1>4 DEF c
<1>5. CASE ~AtTop /\ call.at = Cells - 1 /\ e.full
  BY <1>1, <1>2, <1>5 DEF Stops, Full
<1>6. CASE ~AtTop /\ call.at = Cells - 1 /\ ~e.full
  <2>1. call.l + 1 \in Logical
    BY <1>1, <1>6, CallFacts
  <2>2. /\ Now \in DiskRec /\ Now.n = n /\ ~Now.new /\ ~Now.full /\ Now.marks = marks /\ Now.blk = blk
    BY NowDisk, StructureFacts
  <2>3. Gets(marks, blk, Recs, taken, i, call.l + 1, e)
    BY <1>2, <1>6, <2>1, <2>2, LogReadGets
  <2> HIDE DEF e
  <2>4. /\ marks' = e.marks /\ blk' = e.blk /\ n' = e.n /\ b' = e.blk[e.ph]
        /\ call' = [c EXCEPT !.l = @ + 1, !.at = 0]
    BY <1>1, <1>6 DEF Reads
  <2>5. Working' /\ call'.ino = i
    BY <1>1, <2>4, StructureFacts DEF Working, c, CallRec
  <2>6. Grew(marks', i, call.l + 1)
    BY <1>1, <1>2, <2>3, <2>4, <2>5, GetsGrew
  <2>7. b' \in [Cell -> Nat]
    BY <2>3, <2>4 DEF Gets, Sound
  <2> QED
    BY <1>1, <1>6, <2>1, <2>4, <2>6, <2>7 DEF c
<1> QED
  BY <1>3, <1>4, <1>5, <1>6

LEMMA ReadByteKeeps ==
  ASSUME Structure, ReadByte
  PROVE  Structure'
<1> DEFINE got == Append(call.got, b[call.at])
<1>0. /\ call.l \in Nat /\ call.at \in Cell /\ call.left \in Nat /\ call.got \in Seq(Nat)
      /\ call.from \in Nat
      /\ Len(call.got) \in Nat /\ Position \in Nat /\ Start(call.l) \in Nat
      /\ Start(call.l + 1) = Start(call.l) + Cells
  BY CallFacts
<1>1. /\ past' \in BOOLEAN /\ calls' \in 0 .. MaxCalls /\ ino' = ino /\ taken' = taken
      /\ call.op = "read" /\ call.left > 0 /\ call.ino \in taken /\ call.ino \in Inodes
      /\ call \in CallRec /\ ~Started /\ b \in [Cell -> Nat]
  <2>1. past' \in BOOLEAN
    BY Begins DEF ReadByte
  <2> QED
    BY <2>1, Begins, StructureFacts DEF ReadByte, Working, Started
<1>2. got \in Seq(Nat) /\ Len(got) = Len(call.got) + 1
  <2>1. b[call.at] \in Nat
    BY <1>0, <1>1
  <2> QED
    BY <1>0, <2>1
<1>3. Position = call.from + Len(call.got) /\ Position + call.left < Most /\ Most \in Nat
  BY <1>1, MostIs DEF Structure, Bounded
<1>4. \A j \in Inodes : Size(j)' <= MaxLen
  BY <1>1, FilesLogical DEF Size
<1> HIDE DEF got
<1>5. CASE Stops
  BY <1>1, <1>5, StopsKeeps
<1>6. CASE call' = Idle /\ UNCHANGED <<marks, blk, n, b>>
  BY <1>1, <1>6, EndKeeps
<1>7. ASSUME call.at = Cells - 1, Grew(marks', call.ino, call.l + 1), b' \in [Cell -> Nat],
             call' = [[call EXCEPT !.left = @ - 1, !.got = got] EXCEPT !.l = @ + 1, !.at = 0]
      PROVE  Structure'
  <2>1. /\ call'.op = "read" /\ call'.ino = call.ino /\ call'.l = call.l + 1 /\ call'.at = 0
        /\ call'.left = call.left - 1 /\ call'.got = got /\ call'.from = call.from
        /\ call' \in CallRec
    <3>1. call.left - 1 \in Nat /\ call.l + 1 \in Nat /\ 0 \in Cell
      <4>1. 0 \in Cell
        BY CellSizes DEF Cell
      <4> QED
        BY <1>0, <1>1, <4>1
    <3> QED
      BY <1>1, <1>2, <1>7, <3>1 DEF CallRec
  <2>2. FilledW'
    BY <2>1 DEF FilledW
  <2>3. Bounded'
    <3>1. Position' = Start(call.l + 1) + 0
      BY <2>1 DEF Position
    <3>2. Position' = Position + 1
      BY <1>0, <1>7, <3>1, CellSizes DEF Position, Cell
    <3>3. Position' = call'.from + Len(call'.got) /\ Position' + call'.left < Most
      <4>1. /\ Len(call'.got) = Len(call.got) + 1 /\ call'.left = call.left - 1
            /\ call'.from = call.from
        BY <1>2, <2>1
      <4>2. Position' = call'.from + Len(call'.got)
        BY <1>0, <1>3, <3>2, <4>1
      <4>3. Position' + call'.left < Most
        BY <1>0, <1>3, <3>2, <4>1
      <4> QED
        BY <4>2, <4>3
    <3> QED
      BY <1>4, <2>1, <3>3 DEF Bounded
  <2> QED
    BY <1>1, <1>7, <2>1, <2>2, <2>3, GrewStructure
<1>8. ASSUME call.at # Cells - 1, UNCHANGED <<marks, blk, n, b>>,
             call' = [[call EXCEPT !.left = @ - 1, !.got = got] EXCEPT !.at = @ + 1]
      PROVE  Structure'
  <2>1. /\ call'.op = "read" /\ call'.ino = call.ino /\ call'.l = call.l /\ call'.at = call.at + 1
        /\ call'.left = call.left - 1 /\ call'.got = got /\ call'.from = call.from
        /\ call' \in CallRec
    <3>1. call.left - 1 \in Nat /\ call.at + 1 \in Cell
      BY <1>0, <1>1, <1>8, NextCell
    <3> QED
      BY <1>1, <1>2, <1>8, <3>1 DEF CallRec
  <2>2. Unique' /\ Marked' /\ Extends' /\ FilledI' /\ FilledW'
    BY <1>1, <1>8, <2>1, QuietKeeps
  <2>3. Bounded'
    <3>1. Position' = Position + 1
      BY <1>0, <2>1 DEF Position, Cell
    <3>2. Position' = call'.from + Len(call'.got) /\ Position' + call'.left < Most
      <4>1. /\ Len(call'.got) = Len(call.got) + 1 /\ call'.left = call.left - 1
            /\ call'.from = call.from
        BY <1>2, <2>1
      <4>2. Position' = call'.from + Len(call'.got)
        BY <1>0, <1>3, <3>1, <4>1
      <4>3. Position' + call'.left < Most
        BY <1>0, <1>3, <3>1, <4>1
      <4> QED
        BY <4>2, <4>3
    <3> QED
      BY <1>4, <2>1, <3>2 DEF Bounded
  <2>4. TypeOK'
    BY <1>1, <1>8, <2>1 DEF Structure, TypeOK, CallRec
  <2> QED
    BY <2>2, <2>3, <2>4 DEF Structure
<1> QED
  BY <1>5, <1>6, <1>7, <1>8, ReadByteStep DEF got

LEMMA ReadEndsKeeps ==
  ASSUME Structure, ReadEnds
  PROVE  Structure'
<1>1. /\ past' \in BOOLEAN /\ calls' \in 0 .. MaxCalls /\ ~Started
      /\ call' = Idle /\ UNCHANGED <<ino, taken, marks, blk, n, b>>
  BY Begins DEF ReadEnds, ReadReturns, Started
<1> QED
  BY <1>1, EndKeeps

LEMMA CreateKeeps ==
  ASSUME Structure, NEW i \in Inodes, Create(i)
  PROVE  Structure'
<1>1. /\ i \notin taken /\ taken' = taken \union {i} /\ ino' = [ino EXCEPT ![i] = NoInode]
      /\ UNCHANGED <<marks, blk, n, b, call, result, past>> /\ call = Idle
      /\ calls' \in 0 .. MaxCalls
  BY Begins DEF Create, Begin
<1>2. ~Working /\ ~Working' /\ ~Started /\ ~Started' /\ call.op = "none" /\ call'.op = "none"
  BY <1>1, IdleCall DEF Working, Started
<1>3. /\ ino \in [Inodes -> InodeRec] /\ taken \subseteq Inodes /\ Sound(marks, blk, Recs, taken)
      /\ \A j \in taken : Recs[j] = ino[j]
  BY <1>2, StructureFacts
<1>4. NoInode \in InodeRec /\ ~IsWritten(NoInode) /\ NoInode.blocks = 0 /\ NoInode.lwo = 0
  BY CellSizes DEF NoInode, InodeRec, IsWritten, Cell
<1>5. /\ ino' \in [Inodes -> InodeRec] /\ ino'[i] = NoInode
      /\ \A j \in taken : ino'[j] = Recs[j] /\ ino'[j] = ino[j] /\ j # i
  BY <1>1, <1>3, <1>4
<1>6. Recs' = [j \in taken \union {i} |-> ino'[j]]
  BY <1>1, <1>2 DEF Recs
<1>7. \A v \in Ways : PtrIn(blk, ino'[i], v) = 0
  BY <1>5, NowhereWays
<1>8. Unique' /\ Marked'
  <2>1. Distinct(blk, Recs', taken \union {i})
    <3> SUFFICES ASSUME NEW j \in taken \union {i}, NEW k \in taken \union {i},
                        NEW v \in Ways, NEW w \in Ways,
                        PtrIn(blk, ino'[j], v) # 0, PtrIn(blk, ino'[j], v) = PtrIn(blk, ino'[k], w)
                 PROVE  j = k /\ v = w
      BY <1>6 DEF Distinct
    <3>1. j \in taken /\ k \in taken
      BY <1>7
    <3> QED
      BY <1>3, <1>5, <3>1 DEF Sound, Distinct
  <2>2. Within(blk, Recs', taken \union {i}, marks)
    BY <1>3, <1>5, <1>6, <1>7 DEF Sound, Within
  <2> QED
    BY <1>1, <1>2, <2>1, <2>2 DEF Unique, Marked, Intact
<1>9. FilledI'
  BY <1>1, <1>4, <1>5 DEF Structure, FilledI, Filled
<1>10. Extends' /\ FilledW'
  BY <1>2 DEF Extends, FilledW
<1>11. TypeOK'
  BY <1>1, <1>3, <1>5 DEF Structure, TypeOK, InodeRec
<1>12. Bounded'
  <2>1. ASSUME NEW j \in Inodes PROVE Size(j)' <= MaxLen
    <3>1. CASE j = i
      <4>1. Size(j)' = NoInode.blocks * Cells + NoInode.lwo
        BY <1>5, <3>1 DEF Size
      <4>2. Size(j)' = Start(0) + 0
        BY <1>4, <4>1 DEF Start
      <4> QED
        BY <4>2, MostIs, CellSizes
    <3>2. CASE j # i
      <4>1. Size(j)' = Size(j)
        BY <1>1, <1>3, <3>2 DEF Size
      <4> QED
        BY <4>1, FilesLogical
    <3> QED
      BY <3>1, <3>2
  <2> QED
    BY <1>2, <2>1 DEF Bounded
<1> QED
  BY <1>8, <1>9, <1>10, <1>11, <1>12 DEF Structure

LEMMA RmCallKeeps ==
  ASSUME Structure, NEW i \in Inodes, RmCall(i)
  PROVE  Structure'
<1>1. /\ i \in taken /\ n' = ino[i] /\ call = Idle
      /\ UNCHANGED <<ino, taken, marks, blk, b, result, past>>
      /\ call' = [Idle EXCEPT !.op = "rm", !.ino = i, !.l = ino[i].blocks + 1]
      /\ calls' \in 0 .. MaxCalls
  BY Begins DEF RmCall, Begin
<1>2. /\ ino[i] \in InodeRec /\ ino[i].blocks \in Nat
      /\ \A j \in Inodes : Size(j) <= MaxLen
  BY FilesLogical
<1>3. /\ call'.op = "rm" /\ call'.ino = i /\ call'.l = ino[i].blocks + 1 /\ call' \in CallRec
  <2>1. call' = [op |-> "rm", ino |-> i, l |-> ino[i].blocks + 1, at |-> 0, left |-> 0,
                 from |-> 0, got |-> <<>>]
    BY <1>1 DEF Idle
  <2>2. 0 \in Cell /\ <<>> \in Seq(Nat) /\ ino[i].blocks + 1 \in Nat
    BY <1>2, CellSizes DEF Cell
  <2> QED
    BY <2>1, <2>2 DEF CallRec
<1>4. ~Working /\ ~Started /\ Working' /\ ~Started'
  BY <1>1, <1>2, <1>3, IdleCall DEF Working, Started
<1>5. /\ Sound(marks, blk, Recs, taken) /\ \A j \in taken : Recs[j] = ino[j]
      /\ Recs \in [taken -> InodeRec]
  BY <1>4, StructureFacts
<1>6. Recs' = Recs
  <2>1. Recs' = [j \in taken |-> IF i = j THEN ino[i] ELSE ino[j]]
    BY <1>1, <1>3, <1>4 DEF Recs
  <2> QED
    BY <1>5, <2>1
<1>7. Unique' /\ Marked'
  BY <1>1, <1>4, <1>5, <1>6 DEF Unique, Marked, Intact, Sound
<1>8. Extends'
  BY <1>1, <1>3 DEF Extends
<1>9. FilledI' /\ FilledW'
  BY <1>1, <1>3 DEF Structure, FilledI, FilledW, Filled
<1>10. Bounded'
  <2>1. \A j \in Inodes : Size(j)' <= MaxLen
    BY <1>1, <1>2 DEF Size
  <2>2. call'.l <= n'.blocks + 1
    BY <1>1, <1>2, <1>3
  <2> QED
    BY <1>3, <2>1, <2>2 DEF Bounded
<1>11. TypeOK'
  BY <1>1, <1>2, <1>3 DEF Structure, TypeOK, InodeRec, CallRec
<1> QED
  BY <1>7, <1>8, <1>9, <1>10, <1>11 DEF Structure

LEMMA RmEndsKeeps ==
  ASSUME Structure, RmEnds
  PROVE  Structure'
<1> DEFINE i == call.ino
<1>1. /\ call.op = "rm" /\ call.l = 0 /\ taken' = taken \ {i} /\ call' = Idle
      /\ UNCHANGED <<ino, marks, blk, n, b, past, calls>>
  BY DEF RmEnds
<1>2. Working /\ n \in InodeRec /\ Recs \in [taken -> InodeRec]
      /\ \A j \in taken \ {i} : Recs[j] = ino[j]
  BY <1>1, StructureFacts DEF Working
<1>3. Started /\ ~Working' /\ ~Started' /\ call'.op = "none" /\ call' \in CallRec
  BY <1>1, <1>2, IdleCall DEF Started, Working, InodeRec
<1>4. /\ Distinct(blk, Recs, taken) /\ Within(blk, Recs, taken \ {i}, marks)
  BY <1>3 DEF Structure, Unique, Marked, Intact
<1>5. Recs' = [j \in taken \ {i} |-> Recs[j]]
  BY <1>1, <1>2, <1>3 DEF Recs
<1>6. Unique' /\ Marked'
  <2>1. Distinct(blk, Recs', taken \ {i}) /\ Within(blk, Recs', taken \ {i}, marks)
    BY <1>4, <1>5 DEF Distinct, Within
  <2> QED
    BY <1>1, <1>3, <2>1 DEF Unique, Marked, Intact
<1>7. Extends' /\ FilledW'
  BY <1>3 DEF Extends, FilledW
<1>8. FilledI'
  BY <1>1 DEF Structure, FilledI, Filled
<1>9. TypeOK'
  BY <1>1, <1>3 DEF Structure, TypeOK, CallRec
<1>10. Bounded'
  BY <1>1, <1>3 DEF Structure, Bounded, Size
<1> QED
  BY <1>6, <1>7, <1>8, <1>9, <1>10 DEF Structure

\* What fs_rm gives back with a block leads to it.
LEMMA InternalPath ==
  ASSUME NEW d, NEW l \in Logical, PtrIn(d.blk, d.n, W(l)) # 0
  PROVE  Internal(d, l) \subseteq {PtrIn(d.blk, d.n, u) : u \in Path(l)}
<1> DEFINE D(v) == PtrIn(d.blk, d.n, v)
           i1 == d.n.data[DirBlock(l)]
           r == Root(DirBlock(l))
<1>1. D(r) = i1 /\ 1 # 0 /\ 2 # 0 /\ 2 # 1
  BY PtrRoot
<1>2. Root(NDirect) \in Inner /\ Root(NDirect + 1) \in Inner
      /\ \A c \in Cell : Kid(Root(NDirect + 1), c) \in Inner
  BY CellSizes DEF Inner, Root, Kid
<1>3. CASE Level(l) = 0
  <2>1. Internal(d, l) = {i1}
    BY <1>1, <1>3, Zenon DEF Internal
  <2>2. r \in Path(l)
    BY <1>1, <1>3, WayOfBlock
  <2> QED
    BY <1>1, <2>1, <2>2
<1>4. CASE Level(l) = 1
  <2>1. Internal(d, l) \subseteq {i1}
    <3>1. Internal(d, l) = IF Indir1(l) = 0 THEN {i1} ELSE {}
      BY <1>1, <1>4, Zenon DEF Internal
    <3> QED
      BY <3>1
  <2>2. r \in Path(l)
    BY <1>1, <1>4, WayOfBlock
  <2> QED
    BY <1>1, <2>1, <2>2
<1>5. CASE Level(l) = 2
  <2> DEFINE u == Kid(r, Indir1(l))
             i2 == d.blk[i1][Indir1(l)]
  <2>1. Internal(d, l) \subseteq {i1, i2}
    <3>1. Internal(d, l) = (IF Indir2(l) = 0 THEN {i2} ELSE {})
                           \union (IF Indir1(l) = 0 /\ Indir2(l) = 0 THEN {i1} ELSE {})
      BY <1>1, <1>5, Zenon DEF Internal
    <3> QED
      BY <3>1
  <2>2. /\ r \in Path(l) /\ u \in Path(l) /\ W(l) = Kid(u, Indir2(l))
        /\ Indir1(l) \in Cell /\ Indir2(l) \in Cell /\ r = Root(NDirect + 1)
    BY <1>1, <1>5, WayOfBlock
  <2>3. r \in Inner /\ u \in Inner
    BY <1>2, <2>2
  <2>4. D(u) # 0
    <3>1. D(W(l)) = Deref(d.blk, D(u), Indir2(l))
      BY <2>2, <2>3, PtrKid
    <3> QED
      BY <3>1 DEF Deref
  <2>5. D(u) = i2
    <3>1. D(u) = Deref(d.blk, i1, Indir1(l))
      BY <1>1, <2>2, <2>3, PtrKid
    <3> QED
      BY <2>4, <3>1 DEF Deref
  <2> HIDE DEF u, i2
  <2> QED
    BY <1>1, <2>1, <2>2, <2>5
<1> QED
  BY <1>3, <1>4, <1>5, WayOfBlock

\* The next block that fs_rm frees: one that the file has, or, of a file that was
\* never written, the one that was allocated to be freed.
Frees(m) ==
  /\ PtrIn(blk, n, W(m)) # 0 /\ blk' = blk /\ n' = n
  /\ marks' = marks \ ({PtrIn(blk, n, W(m))} \union Internal(Now, m))
FreesNew(M) ==
  /\ Grew(M, call.ino, 0) /\ marks' = M \ {PtrIn(blk', n', Root(0))}
  /\ ino[call.ino].blocks = 0 /\ ino[call.ino].lwo = 0

LEMMA RmBlockStep ==
  ASSUME Structure, RmBlock
  PROVE  /\ call.op = "rm" /\ call.l \in Nat \ {0} /\ call.l - 1 \in Logical
         /\ call.l - 1 <= n.blocks /\ ino' = ino /\ taken' = taken /\ b' = b
         /\ call.ino \in taken /\ n.blocks = ino[call.ino].blocks
         /\ \/ Stops
            \/ /\ call' = [call EXCEPT !.l = @ - 1]
               /\ \/ Frees(call.l - 1)
                  \/ call.l = 1 /\ \E M : FreesNew(M)
<1> DEFINE i == call.ino
           m == call.l - 1
           e == MakePh(Now, m)
<1>1. /\ call.op = "rm" /\ call.l > 0 /\ taken' = taken /\ ino' = ino
      /\ IF e.full THEN Full
         ELSE /\ marks' = e.marks \ ({e.ph} \union Internal(e, m))
              /\ blk' = e.blk /\ n' = e.n /\ call' = [call EXCEPT !.l = @ - 1] /\ UNCHANGED b
  BY DEF RmBlock
<1>2. /\ Working /\ call.l \in Nat /\ i \in taken /\ i \in Inodes /\ Recs[i] = n /\ call \in CallRec
      /\ n.blocks = ino[i].blocks /\ n.lwo = ino[i].lwo /\ ino[i].blocks \in Nat
      /\ \A k \in Slots : ino[i].data[k] \in {0, n.data[k]}
  <2>1. Working
    BY <1>1 DEF Working
  <2> QED
    BY <2>1, StructureFacts, CallFacts, FilesLogical DEF Structure, Extends
<1>3. m \in 0 .. n.blocks
  <2>1. call.l <= n.blocks + 1
    BY <1>1 DEF Structure, Bounded
  <2> QED
    BY <1>1, <1>2, <2>1
<1>4. m \in Logical /\ W(m) \in Ways
  BY <1>2, <1>3, FilesLogical
<1>5. /\ Now \in DiskRec /\ Now.n = n /\ ~Now.new /\ ~Now.full /\ Now.marks = marks /\ Now.blk = blk
  BY NowDisk, StructureFacts
<1>6. CASE PtrIn(blk, n, W(m)) # 0
  <2> DEFINE p == PtrIn(blk, n, W(m))
  <2>1. e = FoundAt(Now, p)
    BY <1>4, <1>5, <1>6, MakePhFound
  <2> HIDE DEF p, e
  <2>2. e.full = FALSE /\ e.marks = marks /\ e.blk = blk /\ e.n = n /\ e.ph = p
    BY <1>5, <2>1 DEF FoundAt, DiskRec
  <2>3. Internal(e, m) = Internal(Now, m)
    BY <1>5, <2>2, Zenon DEF Internal
  <2>4. Frees(m) /\ call' = [call EXCEPT !.l = @ - 1] /\ b' = b
    BY <1>1, <1>6, <2>2, <2>3 DEF Frees, p
  <2> QED
    BY <1>1, <1>2, <1>3, <1>4, <2>4
<1>7. CASE PtrIn(blk, n, W(m)) = 0
  <2>1. ~IsWritten(ino[i])
    <3>1. SUFFICES ASSUME IsWritten(ino[i]) PROVE FALSE
      OBVIOUS
    <3>2. PtrIn(blk, ino[i], W(m)) # 0
      BY <1>2, <1>3, <3>1 DEF Structure, FilledI, Filled
    <3>3. PartOf(ino[i], n)
      BY <1>2 DEF PartOf
    <3>4. PtrIn(blk, ino[i], W(m)) \in {0, PtrIn(blk, n, W(m))}
      BY <1>4, <3>3, PartLeads
    <3> QED
      BY <1>7, <3>2, <3>4
  <2>2. ino[i].blocks = 0 /\ ino[i].lwo = 0 /\ m = 0 /\ call.l = 1
    <3>1. ino[i].lwo \in Nat
      BY <1>2, FilesLogical, CellSizes DEF Cell
    <3> QED
      BY <1>2, <1>3, <2>1, <3>1 DEF IsWritten
  <2>3. ~Started /\ Sound(marks, blk, Recs, taken)
    <3>1. ~Started
      BY <1>2, <2>2 DEF Started
    <3> QED
      BY <3>1, StructureFacts
  <2>4. CASE e.full
    BY <1>1, <1>2, <1>3, <1>4, <2>3, <2>4 DEF Stops, Full
  <2>5. CASE ~e.full
    <3>1. Gets(marks, blk, Recs, taken, i, m, e)
      BY <1>2, <1>4, <1>5, <2>3, <2>5, MakePhGets
    <3> HIDE DEF e
    <3>2. /\ marks' = e.marks \ ({e.ph} \union Internal(e, m))
          /\ blk' = e.blk /\ n' = e.n /\ call' = [call EXCEPT !.l = @ - 1] /\ b' = b
      BY <1>1, <2>5
    <3>3. Working' /\ call'.ino = i
      BY <1>1, <1>2, <3>2 DEF Working, CallRec
    <3>4. Grew(e.marks, i, m)
      BY <1>1, <1>2, <3>1, <3>2, <3>3, GetsGrew
    <3>5. W(m) = Root(0) /\ Path(m) = {Root(0)} /\ Level(m) = 0 /\ DirBlock(m) = 0
      <4>1. Level(m) = 0 /\ m = 0
        BY <2>2, CellSizes DEF Level
      <4>2. 0 # 1 /\ 0 # 2
        OBVIOUS
      <4> QED
        BY <1>4, <4>1, <4>2, WayOfBlock
    <3>6. Internal(e, m) \subseteq {PtrIn(e.blk, e.n, u) : u \in Path(m)}
      BY <1>4, <3>1, InternalPath DEF Gets
    <3>7. e.ph = PtrIn(e.blk, e.n, Root(0))
      BY <3>1, <3>5 DEF Gets
    <3>8. {e.ph} \union Internal(e, m) = {e.ph}
      BY <3>5, <3>6, <3>7
    <3>9. FreesNew(e.marks)
      BY <2>2, <3>2, <3>4, <3>7, <3>8 DEF FreesNew
    <3> QED
      BY <1>1, <1>2, <1>3, <1>4, <2>2, <3>2, <3>9
  <2> QED
    BY <2>4, <2>5
<1> QED
  BY <1>6, <1>7

LEMMA RmBlockKeeps ==
  ASSUME Structure, RmBlock
  PROVE  Structure'
<1> DEFINE i == call.ino
           m == call.l - 1
<1>1. /\ call.op = "rm" /\ call.l \in Nat \ {0} /\ m \in Logical
      /\ m <= n.blocks /\ ino' = ino /\ taken' = taken /\ b' = b
      /\ past' \in BOOLEAN /\ calls' \in 0 .. MaxCalls /\ b \in [Cell -> Nat]
      /\ n.blocks = ino[i].blocks
  <2>1. past' \in BOOLEAN /\ calls' \in 0 .. MaxCalls /\ b \in [Cell -> Nat]
    BY Begins DEF RmBlock
  <2> QED
    BY <2>1, RmBlockStep
<1>2. /\ Working /\ i \in taken /\ i \in Inodes /\ Recs[i] = n /\ call \in CallRec
      /\ Recs \in [taken -> InodeRec] /\ n \in InodeRec /\ taken \subseteq Inodes
      /\ ino \in [Inodes -> InodeRec] /\ n.blocks \in Nat
  <2>1. Working
    BY <1>1 DEF Working
  <2> QED
    BY <2>1, StructureFacts DEF InodeRec
<1>3. \A j \in Inodes : Size(j)' <= MaxLen
  BY <1>1, FilesLogical DEF Size
<1>4. CASE Stops
  BY <1>1, <1>4, StopsKeeps
<1>5. CASE call' = [call EXCEPT !.l = @ - 1]
  <2>1. /\ call'.op = "rm" /\ call'.ino = i /\ call'.l = m /\ call' \in CallRec /\ Working'
    <3>1. m \in Nat
      BY <1>1
    <3> QED
      BY <1>1, <1>2, <1>5, <3>1 DEF CallRec, Working
  <2>2. FilledW'
    BY <2>1 DEF FilledW
  <2>3. CASE Frees(m)
    <3>1. /\ blk' = blk /\ n' = n /\ marks' \subseteq marks
          /\ marks \ marks' \subseteq {PtrIn(blk, n, u) : u \in Path(m)}
      <4>1. Now.blk = blk /\ Now.n = n /\ PtrIn(blk, n, W(m)) # 0
        BY <2>3, NowDisk, StructureFacts DEF Frees
      <4>2. Internal(Now, m) \subseteq {PtrIn(blk, n, u) : u \in Path(m)}
        BY <1>1, <4>1, InternalPath
      <4>3. W(m) \in Path(m)
        BY <1>1, WayOfBlock
      <4> QED
        BY <2>3, <4>2, <4>3 DEF Frees
    <3>2. Recs' = Recs
      BY <1>1, <2>1, <1>2, <3>1 DEF Recs
    <3>3. Started'
      BY <1>1, <2>1, <3>1 DEF Started
    <3>4. Distinct(blk, Recs, taken) /\ Within(blk, Recs, taken \ {i}, marks)
      BY DEF Structure, Unique, Marked, Intact, Within
    <3>5. Within(blk, Recs, taken \ {i}, marks')
      <4> SUFFICES ASSUME NEW j \in taken \ {i}, NEW v \in Ways, PtrIn(blk, Recs[j], v) # 0
                   PROVE  PtrIn(blk, Recs[j], v) \in marks'
        BY DEF Within
      <4>1. PtrIn(blk, Recs[j], v) \in marks
        BY <3>4 DEF Within
      <4>2. ASSUME NEW u \in Path(m), PtrIn(blk, Recs[j], v) = PtrIn(blk, n, u)
            PROVE  FALSE
        <5>1. u \in Ways
          BY <1>1, PathWays
        <5> QED
          BY <1>2, <3>4, <4>2, <5>1 DEF Distinct
      <4> QED
        BY <3>1, <4>1, <4>2
    <3>6. Unique' /\ Marked'
      BY <1>1, <2>1, <3>1, <3>2, <3>3, <3>4, <3>5 DEF Unique, Marked, Intact
    <3>7. Extends'
      BY <1>1, <1>2, <2>1, <3>1 DEF Structure, Extends
    <3>8. FilledI'
      BY <1>1, <3>1 DEF Structure, FilledI, Filled
    <3>9. TypeOK'
      BY <1>1, <2>1, <3>1 DEF Structure, TypeOK, CallRec
    <3>10. Bounded'
      BY <1>1, <1>2, <1>3, <2>1, <3>1 DEF Bounded
    <3> QED
      BY <2>2, <3>6, <3>7, <3>8, <3>9, <3>10 DEF Structure
  <2>4. ASSUME NEW M, FreesNew(M), call.l = 1
        PROVE  Structure'
    <3> DEFINE p == PtrIn(blk', n', Root(0))
    <3>1. Grew(M, i, 0) /\ marks' = M \ {p}
      BY <2>4 DEF FreesNew
    <3>2. /\ Unique' /\ Extends' /\ FilledI' /\ M \in SUBSET Blocks /\ Recs'[i] = n'
          /\ n' \in InodeRec /\ blk' \in [Blocks -> [Cell -> Nat]]
      BY <3>1, GrewKeeps
    <3>3. Distinct(blk', Recs', taken) /\ Within(blk', Recs', taken, M)
      BY <3>1 DEF Grew, Sound
    <3>4. n'.blocks = n.blocks
      BY <1>2, <3>1 DEF Grew
    <3>5. Started'
      BY <1>1, <2>1, <3>4 DEF Started
    <3>6. Within(blk', Recs', taken \ {i}, marks')
      <4> SUFFICES ASSUME NEW j \in taken \ {i}, NEW v \in Ways, PtrIn(blk', Recs'[j], v) # 0
                   PROVE  PtrIn(blk', Recs'[j], v) \in marks'
        BY DEF Within
      <4>1. PtrIn(blk', Recs'[j], v) \in M
        BY <3>3 DEF Within
      <4>2. Root(0) \in Ways
        BY RootWays, CellSizes DEF Slots
      <4>3. PtrIn(blk', Recs'[j], v) # p
        BY <1>2, <3>2, <3>3, <4>2 DEF Distinct
      <4> QED
        BY <3>1, <4>1, <4>3
    <3>7. Marked'
      BY <1>1, <2>1, <3>5, <3>6 DEF Marked, Intact
    <3>8. TypeOK'
      BY <1>1, <1>2, <2>1, <3>1, <3>2 DEF TypeOK, CallRec, InodeRec
    <3>9. Bounded'
      BY <1>1, <1>2, <1>3, <2>1, <3>4 DEF Bounded
    <3> QED
      BY <2>2, <3>2, <3>7, <3>8, <3>9 DEF Structure
  <2> QED
    BY <1>5, <2>3, <2>4, RmBlockStep, <1>4
<1> QED
  BY <1>4, <1>5, RmBlockStep

-----------------------------------------------------------------------------
(* No block has two owners. *)

LEMMA StructureStart == ASSUME Init PROVE Structure
<1>1. /\ ino = [i \in Inodes |-> NoInode] /\ taken = {} /\ marks = {}
      /\ blk = [k \in Blocks |-> Zeroes] /\ n = NoInode /\ b = Zeroes /\ call = Idle
      /\ past = FALSE /\ calls = 0
  BY DEF Init
<1>2. NoInode \in InodeRec /\ Zeroes \in [Cell -> Nat] /\ calls \in 0 .. MaxCalls
  <2>1. MaxCalls \in Nat
    BY BlocksAssumption
  <2> QED
    BY <1>1, <2>1, CellSizes DEF NoInode, InodeRec, Zeroes, Cell
<1>3. call \in CallRec /\ ~Working /\ ~Started /\ call.op = "none"
  BY <1>1, IdleCall DEF Working, Started
<1>4. TypeOK
  BY <1>1, <1>2, <1>3 DEF TypeOK, InodeRec, CallRec
<1>5. Unique /\ Marked /\ FilledI
  BY <1>1 DEF Unique, Distinct, Marked, Within, Intact, FilledI
<1>6. Extends /\ FilledW
  BY <1>3 DEF Extends, FilledW
<1>7. Bounded
  <2>1. \A i \in Inodes : Size(i) = Start(0) + 0
    BY <1>1 DEF Size, NoInode, Start
  <2>2. \A i \in Inodes : Size(i) <= MaxLen
    BY <2>1, MostIs, CellSizes
  <2> QED
    BY <1>3, <2>2 DEF Bounded
<1> QED
  BY <1>4, <1>5, <1>6, <1>7 DEF Structure

LEMMA StructureStep == ASSUME Structure, [Next]_vars PROVE Structure'
<1>1. CASE UNCHANGED vars
  BY <1>1 DEF vars, Structure, TypeOK, Unique, Marked, Extends, FilledI, FilledW, Bounded,
       Recs, Working, Intact, Started, Filled, Position, Size
<1>2. CASE \E i \in Inodes : Create(i)
  BY <1>2, CreateKeeps
<1>3. CASE \E i \in Inodes : RmCall(i)
  BY <1>3, RmCallKeeps
<1>4. CASE \E i \in Inodes : \E size \in WriteSizes : WriteCall(i, size)
  BY <1>4, WriteCallKeeps
<1>5. CASE \E i \in Inodes : \E from \in 0 .. MaxLen, size \in ReadSizes : ReadCall(i, from, size)
  BY <1>5, ReadCallKeeps
<1>6. CASE WriteByte
  BY <1>6, WriteByteKeeps
<1>7. CASE WriteEnds
  BY <1>7, WriteEndsKeeps
<1>8. CASE ReadByte
  BY <1>8, ReadByteKeeps
<1>9. CASE ReadEnds
  BY <1>9, ReadEndsKeeps
<1>10. CASE RmBlock
  BY <1>10, RmBlockKeeps
<1>11. CASE RmEnds
  BY <1>11, RmEndsKeeps
<1> QED
  BY <1>1, <1>2, <1>3, <1>4, <1>5, <1>6, <1>7, <1>8, <1>9, <1>10, <1>11 DEF Next

LEMMA BlocksStructure == Spec => []Structure
<1>1. Init => Structure
  BY StructureStart
<1>2. Structure /\ [Next]_vars => Structure'
  BY StructureStep
<1> QED
  BY <1>1, <1>2, PTL DEF Spec

\* No byte, block or bit of a file is outside the disk, whatever is written, read
\* and removed.
THEOREM BlocksTypeOK == Spec => []TypeOK
<1>1. Structure => TypeOK
  BY DEF Structure
<1> QED
  BY <1>1, BlocksStructure, PTL

\* A block that a file leads to is marked, and no other way leads to it.
THEOREM BlocksOneOwner == Spec => []OneOwner
<1>1. ASSUME Structure PROVE OneOwner
  <2> SUFFICES ASSUME NEW i \in Whole, NEW j \in Whole, NEW v \in Ways, NEW w \in Ways,
                      Ptr(Rec(i), v) # 0
               PROVE  /\ Ptr(Rec(i), v) \in marks
                      /\ Ptr(Rec(i), v) = Ptr(Rec(j), w) => i = j /\ v = w
    BY DEF OneOwner
  <2>1. Whole \subseteq taken /\ Whole \subseteq Intact
    BY DEF Whole, Intact, Started
  <2>2. ASSUME NEW k \in Whole, NEW u \in Ways
        PROVE  Ptr(Rec(k), u) \in {0, PtrIn(blk, Recs[k], u)}
    <3>1. PartOf(Rec(k), Recs[k])
      <4>1. k \in taken
        BY <2>1
      <4>2. CASE Working /\ call.ino = k
        <5>1. Recs[k] = n
          BY <4>1, <4>2 DEF Recs
        <5>2. \A x \in Slots : ino[k].data[x] \in {0, n.data[x]}
          BY <1>1, <4>1, <5>1, StructureFacts
        <5>3. Rec(k) \in {n, ino[k]}
          BY DEF Rec
        <5> QED
          BY <5>1, <5>2, <5>3 DEF PartOf
      <4>3. CASE ~(Working /\ call.ino = k)
        BY <4>1, <4>3 DEF PartOf, Rec, Recs, Working
      <4> QED
        BY <4>2, <4>3
    <3> QED
      BY <3>1, PartLeads, PtrIsIn
  <2>3. /\ PtrIn(blk, Recs[i], v) # 0
        /\ Ptr(Rec(i), v) = PtrIn(blk, Recs[i], v)
    BY <2>2
  <2>4. Ptr(Rec(j), w) \in {0, PtrIn(blk, Recs[j], w)}
    BY <2>2
  <2>5. Distinct(blk, Recs, taken) /\ Within(blk, Recs, Intact, marks)
    <3>1. Unique /\ Marked
      BY <1>1 DEF Structure
    <3> QED
      BY <3>1 DEF Unique, Marked
  <2>6. PtrIn(blk, Recs[i], v) \in marks
    BY <2>1, <2>3, <2>5 DEF Within
  <2>7. PtrIn(blk, Recs[i], v) = PtrIn(blk, Recs[j], w) => i = j /\ v = w
    BY <2>1, <2>3, <2>5 DEF Distinct
  <2> QED
    BY <2>3, <2>4, <2>6, <2>7
<1> QED
  BY <1>1, BlocksStructure, PTL

-----------------------------------------------------------------------------
(***************************************************************************)
(* No block is lost.                                                        *)
(***************************************************************************)
\* The last block that a file has got
Top(i) == IF call.op = "write" /\ call.ino = i THEN call.l ELSE ino[i].blocks
Knows == ~past /\ call.op # "full"

\* A file has no block after its last one, a read finds all it needs in the inode,
\* and what is marked belongs to a file, or to what fs_rm has still to free of one.
Tight == Knows => \A i \in taken : \A w \in Ways :
           PtrIn(blk, Recs[i], w) # 0 => w \in Reach(Top(i))
ReadExact == call.op = "read" /\ ~past => n = ino[call.ino]
Accounted == Knows => \A x \in marks :
  \/ \E i \in Whole : \E w \in Ways : x = PtrIn(blk, Recs[i], w)
  \/ call.op = "rm" /\ \E w \in Reach(call.l - 1) : x = PtrIn(blk, n, w)
Owned == Tight /\ ReadExact /\ Accounted

LEMMA ReachGrows ==
  ASSUME NEW l \in Int, NEW m \in Int, l <= m
  PROVE  Reach(l) \subseteq Reach(m) /\ (m \in Nat => Path(m) \subseteq Reach(m))
<1>1. 0 .. l \subseteq 0 .. m /\ (m \in Nat => m \in 0 .. m)
  OBVIOUS
<1> QED
  BY <1>1, Zenon DEF Reach

LEMMA FreedOnce ==
  ASSUME NEW d, NEW m \in Logical, NEW u \in Path(m), u \notin Reach(m - 1),
         PtrIn(d.blk, d.n, W(m)) # 0
  PROVE  PtrIn(d.blk, d.n, u) \in {PtrIn(d.blk, d.n, W(m))} \union Internal(d, m)
<1> USE CellSizes
<1> DEFINE D(v) == PtrIn(d.blk, d.n, v)
           i1 == d.n.data[DirBlock(m)]
           r == Root(DirBlock(m))
<1>1. D(r) = i1 /\ 1 # 0 /\ 2 # 0 /\ 2 # 1
  BY PtrRoot
<1>2. Root(NDirect + 1) \in Inner /\ \A c \in Cell : Kid(Root(NDirect + 1), c) \in Inner
  BY DEF Inner, Root, Kid
<1>3. m \in Nat
  BY DEF Logical
<1>4. ASSUME m - 1 \in Nat PROVE m - 1 \in Logical /\ u \notin Path(m - 1)
  <2>1. m - 1 \in Logical
    BY <1>4 DEF Logical
  <2>2. Path(m - 1) \subseteq Reach(m - 1)
    BY <1>3, <1>4, ReachGrows
  <2> QED
    BY <2>1, <2>2
<1>5. CASE Level(m) = 0
  <2>1. Path(m) = {W(m)}
    BY <1>1, <1>5, WayOfBlock
  <2> QED
    BY <2>1
<1>6. CASE Level(m) = 1 /\ u # W(m)
  <2>1. u = Root(NDirect) /\ r = Root(NDirect)
    BY <1>1, <1>6, WayOfBlock
  <2>2. Indir1(m) = 0
    <3>1. SUFFICES ASSUME Indir1(m) # 0 PROVE FALSE
      OBVIOUS
    <3>2. m - 1 \in Nat /\ Level(m - 1) = 1
      BY <1>3, <1>6, <3>1 DEF Level, Indir1
    <3> QED
      BY <1>1, <1>4, <2>1, <3>2, WayOfBlock
  <2>3. Internal(d, m) = {i1}
    BY <1>1, <1>6, <2>2, Zenon DEF Internal
  <2> QED
    BY <1>1, <2>1, <2>3
<1>7. CASE Level(m) = 2 /\ u # W(m)
  <2> DEFINE k == Kid(r, Indir1(m))
             i2 == d.blk[i1][Indir1(m)]
  <2>1. /\ u \in {r, k} /\ W(m) = Kid(k, Indir2(m))
        /\ Indir1(m) \in Cell /\ Indir2(m) \in Cell /\ r = Root(NDirect + 1)
        /\ m = NDirect + Cells + (Indir1(m) * Cells + Indir2(m))
    BY <1>1, <1>7, WayOfBlock
  <2>2. r \in Inner /\ k \in Inner
    BY <1>2, <2>1
  <2>3. D(k) = i2
    <3>1. D(k) = Deref(d.blk, i1, Indir1(m)) /\ D(W(m)) = Deref(d.blk, D(k), Indir2(m))
      BY <1>1, <2>1, <2>2, PtrKid
    <3> QED
      BY <3>1 DEF Deref
  <2>4. Internal(d, m) = (IF Indir2(m) = 0 THEN {i2} ELSE {})
                         \union (IF Indir1(m) = 0 /\ Indir2(m) = 0 THEN {i1} ELSE {})
    BY <1>1, <1>7, Zenon DEF Internal
  <2>5. ASSUME Indir2(m) # 0 \/ Indir1(m) # 0
        PROVE  /\ m - 1 \in Nat /\ Level(m - 1) = 2
               /\ Indir2(m) # 0 => Indir1(m - 1) = Indir1(m)
    <3>1. Indir1(m) \in Nat /\ Indir2(m) \in Nat
      BY <2>1 DEF Cell
    <3>2. Indir1(m) * Cells \in Nat /\ (Indir1(m) # 0 => Indir1(m) * Cells # 0)
      BY <3>1, Z3
    <3>3. m - 1 >= NDirect + Cells
      BY <2>1, <2>5, <3>1, <3>2
    <3>4. m - 1 \in Nat /\ Level(m - 1) = 2
      BY <1>3, <3>3 DEF Level
    <3>5. ASSUME Indir2(m) # 0 PROVE Indir1(m - 1) = Indir1(m)
      <4>1. m - 1 \in Logical
        BY <1>4, <3>4
      <4>2. /\ Indir1(m - 1) \in Cell /\ Indir2(m - 1) \in Cell
            /\ m - 1 = NDirect + Cells + (Indir1(m - 1) * Cells + Indir2(m - 1))
        BY <1>1, <3>4, <4>1, WayOfBlock
      <4>3. Indir1(m - 1) \in Nat
        BY <4>2 DEF Cell
      <4>4. Indir1(m - 1) * Cells \in Nat
        BY <4>3, Z3
      <4> DEFINE s == Indir2(m) - 1
      <4>5. s \in 0 .. Cells - 1 /\ Indir2(m - 1) \in 0 .. Cells - 1
        BY <2>1, <3>1, <3>5, <4>2 DEF Cell
      <4>6. Indir1(m - 1) * Cells + Indir2(m - 1) = Indir1(m) * Cells + s
        BY <2>1, <3>1, <3>2, <4>2, <4>4, <4>5
      <4> DEFINE g == Indir1(m - 1)
                 h == Indir1(m)
                 t == Indir2(m - 1)
      <4>7. /\ g \in Nat /\ h \in Nat /\ s \in 0 .. Cells - 1 /\ t \in 0 .. Cells - 1
            /\ g * Cells + t = h * Cells + s
        BY <3>1, <4>3, <4>5, <4>6
      <4> HIDE DEF s, g, h, t
      <4>8. g = h
        BY <4>7, QuotRemUnique
      <4> QED
        BY <4>8 DEF g, h
    <3> QED
      BY <3>4, <3>5
  <2> HIDE DEF i1, i2, k, D
  <2>6. CASE u = r
    <3>1. Indir1(m) = 0 /\ Indir2(m) = 0
      BY <1>1, <1>4, <2>1, <2>5, <2>6, WayOfBlock
    <3> QED
      BY <1>1, <2>4, <2>6, <3>1 DEF D
  <2>7. CASE u = k
    <3>1. SUFFICES ASSUME Indir2(m) # 0 PROVE FALSE
      BY <2>3, <2>4, <2>7 DEF D
    <3>2. m - 1 \in Logical /\ Level(m - 1) = 2 /\ Indir1(m - 1) = Indir1(m)
      BY <1>4, <2>5, <3>1
    <3>3. k \in Path(m - 1)
      BY <1>1, <2>1, <3>2, WayOfBlock DEF k
    <3> QED
      BY <1>4, <2>5, <2>7, <3>1, <3>3
  <2> QED
    BY <2>1, <2>6, <2>7
<1> QED
  BY <1>5, <1>6, <1>7, WayOfBlock

\* A step that changes no inode, block or bit.
LEMMA SameOwned ==
  ASSUME Owned, UNCHANGED <<taken, ino, marks, blk>>, Recs' = Recs, past' = past,
         call.op # "full", call.op # "rm", call'.op # "rm", ReadExact',
         \A i \in taken : Reach(Top(i)) \subseteq Reach(Top(i)')
  PROVE  Owned'
<1> SUFFICES ASSUME Knows' PROVE Tight' /\ Accounted'
  BY DEF Owned, Tight, Accounted
<1>1. Knows /\ Whole = taken /\ Whole' = taken
  BY DEF Knows, Whole
<1>2. Tight'
  <2> SUFFICES ASSUME NEW i \in taken, NEW w \in Ways, PtrIn(blk, Recs[i], w) # 0
               PROVE  w \in Reach(Top(i)')
    BY DEF Tight
  <2>1. w \in Reach(Top(i))
    BY <1>1 DEF Owned, Tight
  <2> QED
    BY <2>1
<1>3. Accounted'
  <2> SUFFICES ASSUME NEW x \in marks
               PROVE  \E i \in taken : \E w \in Ways : x = PtrIn(blk, Recs[i], w)
    BY <1>1 DEF Accounted
  <2> QED
    BY <1>1 DEF Owned, Accounted
<1> QED
  BY <1>2, <1>3

\* A write gets its next block.
LEMMA GrewOwned ==
  ASSUME Structure, Owned, NEW i, NEW l \in Logical, Grew(marks', i, l), past' = past,
         call.op \in {"none", "write"}, call'.op = "write", call'.l = l,
         Reach(Top(i)) \subseteq Reach(l)
  PROVE  Owned'
<1> SUFFICES ASSUME Knows' PROVE Tight' /\ Accounted'
  BY DEF Owned, Tight, Accounted, ReadExact
<1>1. Knows /\ Whole = taken /\ Whole' = taken
  BY DEF Knows, Whole, Grew
<1>2. /\ i \in taken /\ taken' = taken /\ ino' = ino /\ call'.ino = i
      /\ (call.op = "write" => call.ino = i)
      /\ \A j \in taken : \A v \in Ways :
           \/ PtrIn(blk', Recs'[j], v) = PtrIn(blk, Recs[j], v)
           \/ j = i /\ v \in Path(l) /\ PtrIn(blk, Recs[j], v) = 0
      /\ marks' \subseteq marks \union {PtrIn(blk', n', v) : v \in Path(l)}
  BY DEF Grew, Working
<1>3. Path(l) \subseteq Reach(l) /\ Path(l) \subseteq Ways
  BY ReachGrows, PathWays DEF Logical
<1>4. Tight'
  <2> SUFFICES ASSUME NEW j \in taken, NEW w \in Ways, PtrIn(blk', Recs'[j], w) # 0
               PROVE  w \in Reach(Top(j)')
    BY <1>2 DEF Tight
  <2>1. Top(j)' = IF j = i THEN l ELSE Top(j)
    BY <1>2 DEF Top
  <2>2. CASE PtrIn(blk, Recs[j], w) # 0
    <3>1. w \in Reach(Top(j))
      BY <1>1, <2>2 DEF Owned, Tight
    <3> QED
      BY <2>1, <3>1
  <2>3. CASE PtrIn(blk, Recs[j], w) = 0
    <3>1. j = i /\ w \in Path(l)
      BY <1>2, <2>3
    <3> QED
      BY <1>3, <2>1, <3>1
  <2> QED
    BY <2>2, <2>3
<1>5. Accounted'
  <2> SUFFICES ASSUME NEW x \in marks'
               PROVE  \E j \in taken : \E w \in Ways : x = PtrIn(blk', Recs'[j], w)
    BY <1>1 DEF Accounted
  <2>1. CASE x \in marks
    <3>1. PICK j \in taken, w \in Ways : x = PtrIn(blk, Recs[j], w)
      BY <1>1, <2>1 DEF Owned, Accounted
    <3>2. x # 0
      BY <2>1, StructureFacts DEF Blocks
    <3>3. x = PtrIn(blk', Recs'[j], w)
      BY <1>2, <3>1, <3>2
    <3> QED
      BY <3>3
  <2>2. CASE x \notin marks
    <3>1. PICK v \in Path(l) : x = PtrIn(blk', n', v)
      BY <1>2, <2>2
    <3>2. Recs'[i] = n'
      BY GrewKeeps
    <3> QED
      BY <1>2, <1>3, <3>1, <3>2
  <2> QED
    BY <2>1, <2>2
<1> QED
  BY <1>4, <1>5

\* Of a file that was written, what a read asks for is there.
LEMMA ReadCallFound ==
  ASSUME Structure, NEW i \in Inodes, NEW from \in 0 .. MaxLen, NEW size \in ReadSizes,
         ReadCall(i, from, size)
  PROVE  /\ UNCHANGED <<taken, ino, marks, blk, past>> /\ call.op = "none"
         /\ \/ call'.op \in {"full", "none"}
            \/ call'.op = "read" /\ call'.ino = i /\ n' = ino[i] /\ i \in taken
<1> DEFINE l == from \div Cells
           d == [Now EXCEPT !.n = ino[i]]
           p == PtrIn(blk, ino[i], W(l))
<1>0. l \in Nat /\ from % Cells \in 0 .. Cells - 1
  BY FromIs
<1>1. /\ i \in taken /\ call = Idle /\ UNCHANGED <<taken, ino, past>>
      /\ \/ call' = Idle /\ UNCHANGED <<marks, blk, n, b>>
         \/ /\ l < ino[i].blocks \/ (l = ino[i].blocks /\ from % Cells < ino[i].lwo)
            /\ LET e == LogRead(d, l) IN
               IF e.full THEN Full ELSE Reads(e) /\ call' = ReadFrom(i, from, size)
  BY DEF ReadCall, Begin, ReadFrom, Idle
<1>2. /\ ino[i] \in InodeRec /\ ino[i].blocks \in Nat /\ ino[i].lwo \in Nat
      /\ \A m \in 0 .. ino[i].blocks : m \in Logical /\ W(m) \in Ways
  BY FilesLogical, CellSizes DEF Cell
<1>3. /\ d \in DiskRec /\ ~d.full /\ d.n = ino[i] /\ d.marks = marks /\ d.blk = blk
  BY <1>2, NowDisk
<1>4. call.op = "none" /\ Recs[i] = ino[i] /\ Sound(marks, blk, Recs, taken)
  <2>1. call.op = "none" /\ ~Working /\ ~Started
    BY <1>1, IdleCall DEF Working, Started
  <2> QED
    BY <1>1, <2>1, StructureFacts
<1> HIDE DEF d, l, p
<1>5. CASE call' = Idle /\ UNCHANGED <<marks, blk, n, b>>
  BY <1>1, <1>4, <1>5, IdleCall
<1>6. CASE l < ino[i].blocks \/ (l = ino[i].blocks /\ from % Cells < ino[i].lwo)
  <2>1. l \in 0 .. ino[i].blocks /\ IsWritten(ino[i])
    BY <1>0, <1>2, <1>6 DEF l, IsWritten
  <2>2. p # 0
    BY <1>1, <2>1 DEF Structure, FilledI, Filled, p
  <2>3. p \in marks /\ l \in Logical
    <3>1. l \in Logical /\ W(l) \in Ways
      BY <1>2, <2>1
    <3> QED
      BY <1>1, <1>4, <2>2, <3>1 DEF Sound, Within, p
  <2>4. LogRead(d, l) = FoundAt(d, p)
    BY <1>3, <2>2, <2>3, LogReadFound DEF p
  <2>5. ~FoundAt(d, p).full /\ FoundAt(d, p).marks = marks /\ FoundAt(d, p).blk = blk
        /\ FoundAt(d, p).n = ino[i]
    BY <1>3 DEF FoundAt, DiskRec
  <2>6. \/ call' = Idle /\ UNCHANGED <<marks, blk, n, b>>
        \/ Reads(FoundAt(d, p)) /\ call' = ReadFrom(i, from, size)
    BY <1>1, <2>4, <2>5
  <2>7. ReadFrom(i, from, size).op = "read" /\ ReadFrom(i, from, size).ino = i
    BY DEF ReadFrom, Idle
  <2> QED
    BY <1>1, <1>4, <1>5, <2>5, <2>6, <2>7 DEF Reads
<1> QED
  BY <1>1, <1>5, <1>6

LEMMA ReadByteFound ==
  ASSUME Structure, ReadExact, ReadByte, ~past'
  PROVE  /\ UNCHANGED <<taken, ino, marks, blk, past>> /\ call.op = "read"
         /\ \/ call'.op \in {"full", "none"}
            \/ call'.op = "read" /\ call'.ino = call.ino /\ n' = n
<1> DEFINE i == call.ino
           l == call.l + 1
           p == PtrIn(blk, n, W(l))
           c == [call EXCEPT !.left = @ - 1, !.got = Append(@, b[call.at])]
           e == LogRead(Now, l)
<1>1. /\ call.op = "read" /\ UNCHANGED <<taken, ino>>
      /\ past' = (past \/ call.l > n.blocks \/ (call.l = n.blocks /\ call.at >= n.lwo))
      /\ \/ call' = Idle /\ UNCHANGED <<marks, blk, n, b>>
         \/ /\ call.at = Cells - 1
            /\ IF e.full THEN Full ELSE Reads(e) /\ call' = [c EXCEPT !.l = @ + 1, !.at = 0]
         \/ call' = [c EXCEPT !.at = @ + 1] /\ UNCHANGED <<marks, blk, n, b>>
  BY DEF ReadByte, ReadReturns
<1>2. past \in BOOLEAN
  BY Begins
<1>3. past' = past /\ ~(call.l > n.blocks \/ (call.l = n.blocks /\ call.at >= n.lwo))
  <2> DEFINE g == call.l > n.blocks \/ (call.l = n.blocks /\ call.at >= n.lwo)
  <2>1. past' = (past \/ g)
    BY <1>1
  <2> HIDE DEF g
  <2>2. ~g /\ past' = past
    BY <1>2, <2>1
  <2> QED
    BY <2>2 DEF g
<1>4. /\ i \in taken /\ Recs[i] = n /\ Sound(marks, blk, Recs, taken)
      /\ n = ino[i] /\ i \in Inodes /\ call \in CallRec
  <2>1. Working /\ ~Started
    BY <1>1 DEF Working, Started
  <2> QED
    BY <1>1, <1>3, <2>1, StructureFacts DEF ReadExact
<1>5. /\ ino[i].blocks \in Nat /\ ino[i].lwo \in Cell /\ call.l \in Nat /\ call.at \in Cell
      /\ \A m \in 0 .. ino[i].blocks : m \in Logical /\ W(m) \in Ways
  BY <1>4, FilesLogical, CallFacts
<1>6. /\ Now \in DiskRec /\ ~Now.full /\ Now.n = n /\ Now.marks = marks /\ Now.blk = blk
  BY NowDisk, StructureFacts
<1>7. c.op = "read" /\ c.ino = i /\ [c EXCEPT !.at = @ + 1].op = "read"
      /\ [c EXCEPT !.at = @ + 1].ino = i
      /\ [c EXCEPT !.l = @ + 1, !.at = 0].op = "read"
      /\ [c EXCEPT !.l = @ + 1, !.at = 0].ino = i
  BY <1>1, <1>4 DEF CallRec
<1> HIDE DEF c, p, l
<1>8. CASE (call' = Idle \/ call' = [c EXCEPT !.at = @ + 1]) /\ UNCHANGED <<marks, blk, n, b>>
  BY <1>1, <1>3, <1>7, <1>8, IdleCall
<1>9. CASE /\ call.at = Cells - 1
           /\ IF e.full THEN Full ELSE Reads(e) /\ call' = [c EXCEPT !.l = @ + 1, !.at = 0]
  <2>1. l \in 0 .. ino[i].blocks /\ IsWritten(ino[i])
    <3>1. call.l < ino[i].blocks
      BY <1>3, <1>4, <1>5, <1>9, CellSizes DEF Cell
    <3> QED
      BY <1>5, <3>1 DEF l, IsWritten
  <2>2. p # 0
    BY <1>4, <2>1 DEF Structure, FilledI, Filled, p
  <2>3. p \in marks /\ l \in Logical
    <3>1. l \in Logical /\ W(l) \in Ways
      BY <1>5, <2>1
    <3> QED
      BY <1>4, <2>2, <3>1 DEF Sound, Within, p
  <2>4. e = FoundAt(Now, p)
    BY <1>6, <2>2, <2>3, LogReadFound DEF p
  <2>5. ~FoundAt(Now, p).full /\ FoundAt(Now, p).marks = marks /\ FoundAt(Now, p).blk = blk
        /\ FoundAt(Now, p).n = n
    BY <1>6 DEF FoundAt, DiskRec
  <2> HIDE DEF e
  <2>6. Reads(FoundAt(Now, p)) /\ call' = [c EXCEPT !.l = @ + 1, !.at = 0]
    BY <1>9, <2>4, <2>5
  <2> QED
    BY <1>1, <1>3, <1>7, <2>5, <2>6 DEF Reads
<1> QED
  BY <1>1, <1>8, <1>9

\* What a call that returns, or fails, leaves.
LEMMA ReadOwned ==
  ASSUME Structure, Owned, UNCHANGED <<taken, ino, marks, blk>>, past' = past,
         call.op \in {"none", "read"},
         \/ call'.op \in {"full", "none"}
         \/ call'.op = "read" /\ n' = ino[call'.ino],
         call.op = "none" \/ call'.op # "read" \/ call'.ino = call.ino
  PROVE  Owned'
<1>1. CASE past \/ call'.op = "full"
  BY <1>1 DEF Owned, Tight, ReadExact, Accounted, Knows
<1>2. CASE ~past /\ call'.op \in {"none", "read"}
  <2>1. \A j \in taken : Recs[j] = ino[j]
    <3>1. call.op = "read" => n = ino[call.ino]
      BY <1>2 DEF Owned, ReadExact
    <3> QED
      BY <3>1 DEF Recs, Working
  <2>2. Recs' = [j \in taken |-> ino[j]]
    BY <1>2 DEF Recs, Working
  <2>3. Recs' = Recs
    BY <2>1, <2>2 DEF Recs
  <2>4. ReadExact'
    BY <1>2 DEF ReadExact
  <2>5. \A i : Top(i)' = Top(i)
    BY <1>2 DEF Top
  <2> QED
    BY <1>2, <2>3, <2>4, <2>5, SameOwned
<1> QED
  BY <1>1, <1>2

LEMMA FullOwned == ASSUME call'.op = "full" PROVE Owned'
  BY DEF Owned, Tight, ReadExact, Accounted, Knows

LEMMA WriteCallOwned ==
  ASSUME Structure, Owned, NEW i \in Inodes, NEW size \in WriteSizes, WriteCall(i, size)
  PROVE  Owned'
<1>1. call = Idle /\ past' = past
  BY DEF WriteCall, Begin
<1>2. CASE Stops
  <2>1. call'.op = "full"
    BY <1>2 DEF Stops, Idle
  <2> QED
    BY <2>1, FullOwned
<1>3. CASE /\ Grew(marks', i, ino[i].blocks)
           /\ call' = [Idle EXCEPT !.op = "write", !.ino = i, !.left = size,
                                   !.l = ino[i].blocks, !.at = ino[i].lwo]
  <2>1. call'.op = "write" /\ call'.l = ino[i].blocks /\ call.op = "none"
    BY <1>1, <1>3, IdleCall DEF Idle
  <2>2. ino[i].blocks \in Logical
    BY FilesLogical
  <2>3. Top(i) = ino[i].blocks
    BY <2>1 DEF Top
  <2> QED
    BY <1>1, <1>3, <2>1, <2>2, <2>3, GrewOwned
<1> QED
  BY <1>2, <1>3, WriteCallStep

LEMMA WriteByteOwned == ASSUME Structure, Owned, WriteByte PROVE Owned'
<1> DEFINE byte == Byte(call.ino, Size(call.ino) + Len(call.got))
           c == [call EXCEPT !.left = @ - 1, !.got = Append(@, byte)]
<1>1. call.op = "write" /\ past' = past /\ call \in CallRec /\ call.l \in Nat
  BY StructureFacts, CallFacts DEF WriteByte
<1>2. /\ [c EXCEPT !.l = @ + 1, !.at = 0].op = "write"
      /\ [c EXCEPT !.l = @ + 1, !.at = 0].l = call.l + 1
      /\ [c EXCEPT !.at = @ + 1].op = "write"
      /\ [c EXCEPT !.at = @ + 1].l = call.l
      /\ [c EXCEPT !.at = @ + 1].ino = call.ino
  BY <1>1 DEF CallRec
<1>3. \/ Stops
      \/ /\ call.l + 1 \in Logical /\ Grew(marks', call.ino, call.l + 1)
         /\ call' = [c EXCEPT !.l = @ + 1, !.at = 0]
      \/ /\ UNCHANGED <<marks, blk, n, ino, taken>>
         /\ call' = [c EXCEPT !.at = @ + 1]
  BY WriteByteStep
<1> HIDE DEF c, byte
<1>4. CASE Stops
  <2>1. call'.op = "full"
    BY <1>4 DEF Stops, Idle
  <2> QED
    BY <2>1, FullOwned
<1>5. CASE /\ call.l + 1 \in Logical /\ Grew(marks', call.ino, call.l + 1)
           /\ call' = [c EXCEPT !.l = @ + 1, !.at = 0]
  <2>1. Reach(Top(call.ino)) \subseteq Reach(call.l + 1)
    <3>1. Top(call.ino) = call.l
      BY <1>1 DEF Top
    <3> QED
      BY <1>1, <3>1, ReachGrows
  <2>2. call'.op = "write" /\ call'.l = call.l + 1
    BY <1>2, <1>5
  <2> DEFINE l == call.l + 1
  <2> HIDE DEF l
  <2>3. l \in Logical /\ Grew(marks', call.ino, l) /\ call'.l = l /\ Reach(Top(call.ino)) \subseteq Reach(l)
    BY <1>5, <2>1, <2>2 DEF l
  <2> QED
    BY <1>1, <2>2, <2>3, GrewOwned
<1>6. CASE /\ UNCHANGED <<marks, blk, n, ino, taken>>
           /\ call' = [c EXCEPT !.at = @ + 1]
  <2>1. call'.op = "write" /\ call'.l = call.l /\ call'.ino = call.ino
    BY <1>2, <1>6
  <2>2. Recs' = Recs /\ ReadExact'
    BY <1>1, <1>6, <2>1 DEF Recs, Working, ReadExact
  <2>3. \A i : Top(i)' = Top(i)
    BY <1>1, <1>6, <2>1 DEF Top
  <2> QED
    BY <1>1, <1>6, <2>1, <2>2, <2>3, SameOwned
<1> QED
  BY <1>3, <1>4, <1>5, <1>6

LEMMA WriteEndsOwned == ASSUME Structure, Owned, WriteEnds PROVE Owned'
<1> DEFINE i == call.ino
<1>1. /\ call.op = "write" /\ i \in taken /\ past' = past
      /\ taken' = taken /\ marks' = marks /\ call' = Idle /\ n'.data = n.data
      /\ ino' = [ino EXCEPT ![i] = [n' EXCEPT !.blocks = call.l]]
      /\ \A j \in taken : \A v \in Ways : PtrIn(blk', Recs[j], v) = PtrIn(blk, Recs[j], v)
      /\ n' \in InodeRec
  BY WriteEndsStep DEF WriteEnds
<1>2. /\ Recs[i] = n /\ taken \subseteq Inodes /\ ino \in [Inodes -> InodeRec]
      /\ \A j \in taken : j # i => Recs[j] = ino[j]
  BY <1>1, StructureFacts DEF Working
<1>3. call'.op = "none"
  BY <1>1, IdleCall
<1>4. /\ Recs' = [j \in taken |-> ino'[j]] /\ ino'[i] = [n' EXCEPT !.blocks = call.l]
      /\ \A j \in taken : j # i => ino'[j] = ino[j]
  BY <1>1, <1>2, <1>3 DEF Recs, Working
<1>5. [n' EXCEPT !.blocks = call.l].data = n.data /\ [n' EXCEPT !.blocks = call.l].blocks = call.l
  BY <1>1 DEF InodeRec
<1>6. \A j \in taken : \A v \in Ways : PtrIn(blk', Recs'[j], v) = PtrIn(blk, Recs[j], v)
  <2> SUFFICES ASSUME NEW j \in taken PROVE \A v : PtrIn(blk', Recs'[j], v) = PtrIn(blk', Recs[j], v)
    BY <1>1
  <2>1. Recs'[j].data = Recs[j].data
    BY <1>2, <1>4, <1>5
  <2> QED
    BY <2>1, SameData
<1>7. \A j \in taken : Top(j)' = Top(j)
  <2> TAKE j \in taken
  <2>1. Top(j)' = ino'[j].blocks
    BY <1>3 DEF Top
  <2>2. Top(j) = IF j = i THEN call.l ELSE ino[j].blocks
    BY <1>1 DEF Top
  <2> QED
    BY <1>4, <1>5, <2>1, <2>2
<1>8. Whole = taken
  BY <1>1 DEF Whole
<1>9. Knows' => Knows
  BY <1>1 DEF Knows
<1>10. Tight'
  BY <1>1, <1>6, <1>7, <1>9 DEF Tight, Owned
<1>11. Accounted'
  <2> SUFFICES ASSUME Knows', NEW x \in marks
               PROVE  \E j \in taken : \E w \in Ways : x = PtrIn(blk', Recs'[j], w)
    BY <1>1, <1>3 DEF Accounted, Whole
  <2>1. PICK j \in taken, w \in Ways : x = PtrIn(blk, Recs[j], w)
    BY <1>1, <1>8, <1>9 DEF Accounted, Owned
  <2> QED
    BY <1>6, <2>1
<1> QED
  BY <1>3, <1>10, <1>11 DEF Owned, ReadExact

LEMMA ReadsOwned ==
  ASSUME Structure, Owned,
         \/ \E i \in Inodes, from \in 0 .. MaxLen, size \in ReadSizes : ReadCall(i, from, size)
         \/ ReadByte
         \/ ReadEnds
  PROVE  Owned'
<1>1. ASSUME NEW i \in Inodes, NEW from \in 0 .. MaxLen, NEW size \in ReadSizes,
             ReadCall(i, from, size)
      PROVE  Owned'
  BY <1>1, ReadCallFound, ReadOwned
<1>2. CASE ReadByte
  <2>1. CASE ~past'
    <3>1. ReadExact /\ (call.op = "read" /\ ~past => n = ino[call.ino])
      BY DEF Owned, ReadExact
    <3> QED
      BY <1>2, <2>1, <3>1, ReadByteFound, ReadOwned
  <2>2. CASE past'
    BY <2>2 DEF Owned, Tight, ReadExact, Accounted, Knows
  <2> QED
    BY <2>1, <2>2
<1>3. CASE ReadEnds
  <2>1. /\ UNCHANGED <<taken, ino, marks, blk>> /\ past' = past /\ call.op = "read"
        /\ call'.op = "none"
    BY <1>3, IdleCall DEF ReadEnds, ReadReturns
  <2> QED
    BY <2>1, ReadOwned
<1> QED
  BY <1>1, <1>2, <1>3

LEMMA CreateOwned ==
  ASSUME Structure, Owned, NEW i \in Inodes, Create(i)
  PROVE  Owned'
<1>1. /\ i \notin taken /\ taken' = taken \union {i} /\ ino' = [ino EXCEPT ![i] = NoInode]
      /\ UNCHANGED <<marks, blk, n, call, past>> /\ call.op = "none"
  BY IdleCall DEF Create, Begin
<1>2. ino \in [Inodes -> InodeRec] /\ taken \subseteq Inodes
  BY StructureFacts
<1>3. /\ Recs = [j \in taken |-> ino[j]]
      /\ Recs' = [j \in taken \union {i} |-> IF j = i THEN NoInode ELSE ino[j]]
  BY <1>1, <1>2 DEF Recs, Working
<1>4. \A j \in taken : Recs'[j] = Recs[j] /\ Top(j)' = Top(j)
  BY <1>1, <1>2, <1>3 DEF Top
<1>5. \A w \in Ways : PtrIn(blk, Recs'[i], w) = 0
  <2>1. Recs'[i] = NoInode
    BY <1>3
  <2> QED
    BY <2>1, NowhereWays
<1>6. Knows' = Knows /\ Whole = taken /\ Whole' = taken'
  BY <1>1 DEF Knows, Whole
<1>7. Tight'
  BY <1>1, <1>4, <1>5, <1>6 DEF Tight, Owned
<1>8. Accounted'
  <2> SUFFICES ASSUME Knows', NEW x \in marks
               PROVE  \E j \in taken' : \E w \in Ways : x = PtrIn(blk, Recs'[j], w)
    BY <1>1, <1>6 DEF Accounted
  <2>1. PICK j \in taken, w \in Ways : x = PtrIn(blk, Recs[j], w)
    BY <1>1, <1>6 DEF Accounted, Owned
  <2> QED
    BY <1>1, <1>4, <2>1
<1> QED
  BY <1>1, <1>7, <1>8 DEF Owned, ReadExact

LEMMA RmCallOwned ==
  ASSUME Structure, Owned, NEW i \in Inodes, RmCall(i)
  PROVE  Owned'
<1>1. /\ i \in taken /\ n' = ino[i] /\ UNCHANGED <<ino, taken, marks, blk, past>>
      /\ call.op = "none"
      /\ call'.op = "rm" /\ call'.ino = i /\ call'.l = ino[i].blocks + 1
  BY IdleCall DEF RmCall, Begin, Idle
<1>2. ino[i].blocks \in Nat
  BY FilesLogical
<1>3. Recs' = Recs /\ Recs = [j \in taken |-> ino[j]]
  BY <1>1 DEF Recs, Working
<1>4. \A j \in taken : Top(j)' = Top(j) /\ Top(j) = ino[j].blocks
  BY <1>1 DEF Top
<1>5. Whole = taken /\ Whole' = taken \ {i} /\ (Knows' => Knows)
  BY <1>1 DEF Whole, Knows
<1>6. Tight'
  BY <1>1, <1>3, <1>4, <1>5 DEF Tight, Owned
<1>7. Accounted'
  <2> SUFFICES ASSUME Knows', NEW x \in marks
               PROVE  \/ \E j \in taken \ {i} : \E w \in Ways : x = PtrIn(blk, Recs[j], w)
                      \/ \E w \in Reach(ino[i].blocks) : x = PtrIn(blk, ino[i], w)
    BY <1>1, <1>2, <1>3, <1>5 DEF Accounted
  <2>1. PICK j \in taken, w \in Ways : x = PtrIn(blk, Recs[j], w)
    BY <1>1, <1>5 DEF Accounted, Owned
  <2>2. x # 0
    BY StructureFacts DEF Blocks
  <2>3. ASSUME j = i PROVE w \in Reach(ino[i].blocks) /\ x = PtrIn(blk, ino[i], w)
    BY <1>3, <1>4, <1>5, <2>1, <2>2, <2>3 DEF Tight, Owned
  <2> QED
    BY <2>1, <2>3
<1> QED
  BY <1>1, <1>6, <1>7 DEF Owned, ReadExact

LEMMA RmEndsOwned == ASSUME Structure, Owned, RmEnds PROVE Owned'
<1> DEFINE i == call.ino
<1>1. /\ call.op = "rm" /\ call.l = 0 /\ taken' = taken \ {i} /\ call'.op = "none"
      /\ UNCHANGED <<ino, marks, blk, n, past>>
  BY IdleCall DEF RmEnds
<1>2. \A j \in taken \ {i} : Recs'[j] = Recs[j] /\ Top(j)' = Top(j)
  BY <1>1 DEF Recs, Working, Top
<1>3. Whole = taken \ {i} /\ Whole' = taken \ {i} /\ (Knows' => Knows)
  BY <1>1 DEF Whole, Knows
<1>4. Tight'
  BY <1>1, <1>2, <1>3 DEF Tight, Owned
<1>5. Reach(call.l - 1) = {}
  <2>1. 0 .. (call.l - 1) = {}
    BY <1>1
  <2> QED
    BY <2>1, Zenon DEF Reach
<1>6. Accounted'
  <2> SUFFICES ASSUME Knows', NEW x \in marks
               PROVE  \E j \in Whole' : \E w \in Ways : x = PtrIn(blk, Recs'[j], w)
    BY <1>1 DEF Accounted
  <2>1. PICK j \in Whole, w \in Ways : x = PtrIn(blk, Recs[j], w)
    BY <1>3, <1>5 DEF Accounted, Owned
  <2> QED
    BY <1>2, <1>3, <2>1
<1> QED
  BY <1>1, <1>4, <1>6 DEF Owned, ReadExact

LEMMA RmBlockOwned == ASSUME Structure, Owned, RmBlock PROVE Owned'
<1> DEFINE i == call.ino
           m == call.l - 1
<1>1. /\ call.op = "rm" /\ call.l \in Nat \ {0} /\ m \in Logical
      /\ ino' = ino /\ taken' = taken /\ i \in taken /\ past' = past
      /\ \/ Stops
         \/ /\ call' = [call EXCEPT !.l = @ - 1]
            /\ Frees(m) \/ (call.l = 1 /\ \E M : FreesNew(M))
  BY RmBlockStep DEF RmBlock
<1>2. CASE Stops
  <2>1. call'.op = "full"
    BY <1>2 DEF Stops, Idle
  <2> QED
    BY <2>1, FullOwned
<1>3. ASSUME call' = [call EXCEPT !.l = @ - 1]
      PROVE  /\ call'.op = "rm" /\ call'.ino = i /\ call'.l = m
             /\ ReadExact' /\ Knows' = Knows /\ Whole = taken \ {i} /\ Whole' = taken \ {i}
             /\ Recs[i] = n /\ Recs'[i] = n' /\ \A j : Top(j)' = Top(j) /\ Top(j) = ino[j].blocks
             /\ \A j \in taken \ {i} : Recs'[j] = Recs[j]
  <2>1. call'.op = "rm" /\ call'.ino = i /\ call'.l = m
    BY <1>1, <1>3, StructureFacts DEF CallRec
  <2> QED
    BY <1>1, <2>1 DEF Knows, Whole, Recs, Top, ReadExact, Working
<1> HIDE DEF i, m
<1>4. ASSUME call' = [call EXCEPT !.l = @ - 1], Frees(m)
      PROVE  Owned'
  <2>1. /\ PtrIn(blk, n, W(m)) # 0 /\ blk' = blk /\ n' = n
        /\ marks' = marks \ ({PtrIn(blk, n, W(m))} \union Internal(Now, m))
    BY <1>4 DEF Frees
  <2>2. \A j \in taken : Recs'[j] = Recs[j]
    BY <1>3, <1>4, <2>1
  <2>3. Tight'
    BY <1>1, <1>3, <1>4, <2>1, <2>2 DEF Tight, Owned
  <2>4. Accounted'
    <3> SUFFICES ASSUME Knows', NEW x \in marks'
                 PROVE  \/ \E j \in taken \ {i} : \E w \in Ways : x = PtrIn(blk, Recs[j], w)
                        \/ \E w \in Reach(m - 1) : x = PtrIn(blk, n, w)
      BY <1>1, <1>3, <1>4, <2>1, <2>2 DEF Accounted
    <3>1. \/ \E j \in taken \ {i} : \E w \in Ways : x = PtrIn(blk, Recs[j], w)
          \/ \E w \in Reach(m) : x = PtrIn(blk, n, w)
      BY <1>3, <1>4, <2>1 DEF Accounted, Owned, m
    <3>2. ASSUME NEW w \in Reach(m), x = PtrIn(blk, n, w) PROVE w \in Reach(m - 1)
      <4>1. SUFFICES ASSUME w \notin Reach(m - 1) PROVE FALSE
        OBVIOUS
      <4>2. w \in Path(m)
        <5>1. PICK l \in 0 .. m : w \in Path(l)
          BY <3>2, Zenon DEF Reach
        <5>2. l # m => l \in 0 .. m - 1
          <6>1. m \in Nat
            BY <1>1 DEF m
          <6> QED
            BY <5>1, <6>1
        <5>3. l # m => w \in Reach(m - 1)
          BY <5>1, <5>2, Zenon DEF Reach
        <5> QED
          BY <4>1, <5>1, <5>3
      <4>3. Now.blk = blk /\ Now.n = n
        BY NowDisk, StructureFacts
      <4>4. PtrIn(blk, n, w) \in {PtrIn(blk, n, W(m))} \union Internal(Now, m)
        <5>1. PtrIn(Now.blk, Now.n, W(m)) # 0
          BY <2>1, <4>3
        <5> QED
          BY <1>1, <4>1, <4>2, <4>3, <5>1, FreedOnce
      <4> QED
        BY <2>1, <3>2, <4>4
    <3> QED
      BY <3>1, <3>2
  <2> QED
    BY <1>3, <1>4, <2>3, <2>4 DEF Owned
<1>5. ASSUME call' = [call EXCEPT !.l = @ - 1], call.l = 1, NEW M, FreesNew(M)
      PROVE  Owned'
  <2>0. Grew(M, i, 0) /\ marks' = M \ {PtrIn(blk', n', Root(0))} /\ ino[i].blocks = 0
    BY <1>5 DEF FreesNew, i
  <2>1. Path(0) = {Root(0)} /\ Root(0) \in Ways
    <3>1. 0 \in Logical /\ Level(0) = 0
      BY <1>1, <1>5, CellSizes DEF Level, m
    <3>2. 0 # 1 /\ 0 # 2
      OBVIOUS
    <3>3. Path(0) = {Root(0)}
      BY <3>1, <3>2, WayOfBlock
    <3> QED
      BY <3>1, <3>3, PathWays
  <2>2. Path(0) \subseteq Reach(0)
    <3>1. 0 \in 0 .. 0
      OBVIOUS
    <3> QED
      BY <3>1, Zenon DEF Reach
  <2>3. \A j \in taken : \A v \in Ways :
           \/ PtrIn(blk', Recs'[j], v) = PtrIn(blk, Recs[j], v)
           \/ j = i /\ v \in Path(0) /\ PtrIn(blk, Recs[j], v) = 0
    BY <2>0 DEF Grew
  <2>4. M \subseteq marks \union {PtrIn(blk', n', v) : v \in Path(0)}
    BY <2>0 DEF Grew
  <2>5. marks' \subseteq marks
    BY <2>0, <2>1, <2>4
  <2>6. Tight'
    <3> SUFFICES ASSUME Knows, NEW j \in taken, NEW w \in Ways, PtrIn(blk', Recs'[j], w) # 0
                 PROVE  w \in Reach(ino[j].blocks)
      BY <1>1, <1>3, <1>5 DEF Tight
    <3>1. PtrIn(blk, Recs[j], w) # 0 => w \in Reach(ino[j].blocks)
      BY <1>3, <1>5 DEF Tight, Owned
    <3> QED
      BY <2>0, <2>2, <2>3, <3>1
  <2>7. Accounted'
    <3> SUFFICES ASSUME Knows, NEW x \in marks'
                 PROVE  \E j \in taken \ {i} : \E w \in Ways : x = PtrIn(blk', Recs'[j], w)
      BY <1>3, <1>5 DEF Accounted
    <3>1. x \in marks /\ x # 0
      BY <2>5, StructureFacts DEF Blocks
    <3>2. \/ \E j \in taken \ {i} : \E w \in Ways : x = PtrIn(blk, Recs[j], w)
          \/ \E w \in Reach(0) : x = PtrIn(blk, n, w)
      <4>1. call.l - 1 = 0
        BY <1>5
      <4> QED
        BY <1>3, <1>5, <3>1, <4>1 DEF Accounted, Owned
    <3>3. ASSUME NEW j \in taken, NEW w \in Ways, x = PtrIn(blk, Recs[j], w)
          PROVE  x = PtrIn(blk', Recs'[j], w)
      BY <2>3, <3>1, <3>3
    <3>4. Reach(0) = {Root(0)}
      <4>1. 0 .. 0 = {0}
        OBVIOUS
      <4> QED
        BY <2>1, <4>1, Zenon DEF Reach
    <3>5. x # PtrIn(blk, n, Root(0))
      <4>1. SUFFICES ASSUME x = PtrIn(blk, Recs[i], Root(0)) PROVE FALSE
        BY <1>3, <1>5
      <4>2. x = PtrIn(blk', Recs'[i], Root(0))
        BY <1>1, <2>1, <3>3, <4>1 DEF i
      <4> QED
        BY <1>3, <1>5, <2>0, <4>2
    <3> QED
      BY <3>2, <3>3, <3>4, <3>5
  <2> QED
    BY <1>3, <1>5, <2>6, <2>7 DEF Owned
<1> QED
  BY <1>1, <1>2, <1>4, <1>5

LEMMA OwnedStep == ASSUME Structure, Owned, [Next]_vars PROVE Owned'
<1>1. CASE UNCHANGED vars
  BY <1>1 DEF vars, Owned, Tight, ReadExact, Accounted, Knows, Recs, Working, Whole, Top
<1>2. CASE \E i \in Inodes : Create(i)
  BY <1>2, CreateOwned
<1>3. CASE \E i \in Inodes : RmCall(i)
  BY <1>3, RmCallOwned
<1>4. CASE \E i \in Inodes : \E size \in WriteSizes : WriteCall(i, size)
  BY <1>4, WriteCallOwned
<1>5. CASE \/ \E i \in Inodes, from \in 0 .. MaxLen, size \in ReadSizes : ReadCall(i, from, size)
           \/ ReadByte
           \/ ReadEnds
  BY <1>5, ReadsOwned
<1>6. CASE WriteByte
  BY <1>6, WriteByteOwned
<1>7. CASE WriteEnds
  BY <1>7, WriteEndsOwned
<1>8. CASE RmBlock
  BY <1>8, RmBlockOwned
<1>9. CASE RmEnds
  BY <1>9, RmEndsOwned
<1> QED
  BY <1>1, <1>2, <1>3, <1>4, <1>5, <1>6, <1>7, <1>8, <1>9 DEF Next

LEMMA BlocksOwned == Spec => [](Structure /\ Owned)
<1>1. Init => Structure /\ Owned
  <2> SUFFICES ASSUME Init PROVE Owned
    BY StructureStart
  <2>1. marks = {} /\ taken = {} /\ call.op = "none"
    BY IdleCall DEF Init
  <2> QED
    BY <2>1 DEF Owned, Tight, ReadExact, Accounted
<1>2. Structure /\ Owned /\ [Next]_vars => (Structure /\ Owned)'
  BY StructureStep, OwnedStep
<1> QED
  BY <1>1, <1>2, PTL DEF Spec

\* Every block that is marked between two calls is a block of a file: what fs_rm
\* frees, together with delete_internal_inodes, is all that the file had.
THEOREM BlocksNoLeak == Spec => []NoLeak
<1>1. ASSUME Structure, Owned PROVE NoLeak
  <2> SUFFICES ASSUME call = Idle, ~past, NEW x \in marks
               PROVE  \E i \in taken : \E w \in Ways : x = Ptr(ino[i], w)
    BY DEF NoLeak
  <2>1. call.op = "none"
    BY IdleCall
  <2>2. Whole = taken /\ \A i \in taken : Recs[i] = ino[i]
    BY <2>1 DEF Whole, Recs, Working
  <2> QED
    BY <1>1, <2>1, <2>2, PtrIsIn DEF Owned, Accounted, Knows
<1> QED
  BY <1>1, BlocksOwned, PTL

-----------------------------------------------------------------------------
(* The places *)

Place(g, r) == FS_GLOB_GB_OFFSET + g * GroupSize + r
DataGroup(k)  == (k - 1) \div BlocksPerGroup
DataOffset(k) == (k - 1) % BlocksPerGroup
InoGroup(i)   == (i - 1) \div InodesPerGroup
InoRest(i)    == (i - 1) % InodesPerGroup

LEMMA Sizes ==
  /\ GroupSize \in Nat \ {0} /\ InodesPerGroup \in Nat \ {0} /\ BlocksPerGroup \in Nat \ {0}
  /\ GroupCount \in Nat \ {0} /\ InodesPerBlock \in Nat \ {0} /\ BitmapSize \in Nat \ {0}
  /\ InodeTableSize \in Nat \ {0} /\ DataTableSize \in Nat \ {0}
  /\ DataTableSize <= BitmapSize /\ InodesPerGroup <= BitmapSize
  /\ GroupSize = 2 + InodeTableSize + DataTableSize
  /\ InodesPerGroup = InodeTableSize * InodesPerBlock /\ BlocksPerGroup = DataTableSize
<1>1. InodeTableSize * InodesPerBlock \in Nat \ {0}
  BY LayoutAssumption, Z3
<1> QED
  BY <1>1, LayoutAssumption DEF GroupSize, InodesPerGroup, BlocksPerGroup

LEMMA PlaceUnique ==
  ASSUME NEW g \in Groups, NEW h \in Groups,
         NEW r \in 0 .. GroupSize - 1, NEW s \in 0 .. GroupSize - 1,
         Place(g, r) = Place(h, s)
  PROVE  g = h /\ r = s
<1>1. GroupSize \in Nat \ {0} /\ g \in Nat /\ h \in Nat
  BY Sizes DEF Groups
<1>2. g * GroupSize \in Nat /\ h * GroupSize \in Nat
  BY <1>1, Z3
<1>3. g * GroupSize + r = h * GroupSize + s
  BY <1>1, <1>2 DEF Place, FS_GLOB_GB_OFFSET
<1> QED
  BY ONLY <1>1, <1>3, QuotRemUnique, r \in 0 .. GroupSize - 1, s \in 0 .. GroupSize - 1

LEMMA PlaceOnDisk ==
  ASSUME NEW g \in Groups, NEW r \in 0 .. GroupSize - 1
  PROVE  Place(g, r) \in At
<1>1. GroupSize \in Nat \ {0} /\ GroupCount \in Nat /\ g \in Nat /\ g < GroupCount
  BY Sizes DEF Groups
<1>2. PICK d \in Nat : GroupCount = g + 1 + d
  <2>1. GroupCount - g - 1 \in Nat
    BY <1>1
  <2> QED
    BY <2>1, <1>1
<1>3. GroupCount * GroupSize = g * GroupSize + GroupSize + d * GroupSize
  BY <1>1, <1>2, Z3
<1>4. g * GroupSize \in Nat /\ d * GroupSize \in Nat
  BY <1>1, <1>2, Z3
<1> QED
  BY <1>1, <1>3, <1>4 DEF Place, At, DiskEnd, FS_GLOB_GB_OFFSET

LEMMA DataPlace ==
  ASSUME NEW k \in DiskBlocks
  PROVE  /\ DataGroup(k) \in Groups /\ DataOffset(k) \in 0 .. DataTableSize - 1
         /\ k - 1 = DataGroup(k) * BlocksPerGroup + DataOffset(k)
         /\ data_get_block(k) = Place(DataGroup(k), 2 + InodeTableSize + DataOffset(k))
<1>1. k - 1 \in Nat /\ k - 1 < GroupCount * BlocksPerGroup
  <2>1. GroupCount * BlocksPerGroup \in Nat
    BY Sizes, Z3
  <2> QED
    BY <2>1 DEF DiskBlocks
<1>2. /\ DataGroup(k) \in Nat /\ DataOffset(k) \in 0 .. DataTableSize - 1
      /\ k - 1 = DataGroup(k) * BlocksPerGroup + DataOffset(k)
  BY <1>1, Sizes, QuotRem DEF DataGroup, DataOffset
<1>3. DataGroup(k) \in Groups
  BY <1>1, Sizes, QuotBelow DEF DataGroup, Groups
<1>4. DataGroup(k) * GroupSize \in Nat
  BY <1>2, Sizes, Z3
<1>5. data_get_block(k) = 3 + DataGroup(k) * GroupSize + 2 + InodeTableSize + DataOffset(k)
  BY DEF data_get_block, bgroup_blocktbl, bgroup_get, DataGroup, DataOffset, FS_GLOB_GB_OFFSET
<1>6. data_get_block(k) = Place(DataGroup(k), 2 + InodeTableSize + DataOffset(k))
  BY <1>2, <1>4, <1>5, Sizes DEF Place, FS_GLOB_GB_OFFSET
<1> QED
  BY <1>2, <1>3, <1>6

LEMMA InodePlace ==
  ASSUME NEW i \in DiskInodes
  PROVE  /\ InoGroup(i) \in Groups /\ InoRest(i) \in 0 .. InodesPerGroup - 1
         /\ i - 1 = InoGroup(i) * InodesPerGroup + InoRest(i)
         /\ InoRest(i) \div InodesPerBlock \in 0 .. InodeTableSize - 1
         /\ inode_get_block_index(i) \in 0 .. InodesPerBlock - 1
         /\ InoRest(i) = (InoRest(i) \div InodesPerBlock) * InodesPerBlock
                           + inode_get_block_index(i)
         /\ inode_get_block(i) = Place(InoGroup(i), 2 + (InoRest(i) \div InodesPerBlock))
<1>1. i - 1 \in Nat /\ i - 1 < GroupCount * InodesPerGroup
  <2>1. GroupCount * InodesPerGroup \in Nat
    BY Sizes, Z3
  <2> QED
    BY <2>1 DEF DiskInodes
<1>2. /\ InoGroup(i) \in Nat /\ InoRest(i) \in 0 .. InodesPerGroup - 1
      /\ i - 1 = InoGroup(i) * InodesPerGroup + InoRest(i)
  BY <1>1, Sizes, QuotRem DEF InoGroup, InoRest
<1>3. InoGroup(i) \in Groups
  BY <1>1, Sizes, QuotBelow DEF InoGroup, Groups
<1>4. InoRest(i) \in Nat /\ InoRest(i) < InodeTableSize * InodesPerBlock
  BY <1>2, Sizes
<1>5. InoRest(i) \div InodesPerBlock \in 0 .. InodeTableSize - 1
  BY <1>4, Sizes, QuotBelow
<1>6. /\ inode_get_block_index(i) \in 0 .. InodesPerBlock - 1
      /\ InoRest(i) = (InoRest(i) \div InodesPerBlock) * InodesPerBlock
                        + inode_get_block_index(i)
  BY <1>4, Sizes, QuotRem DEF inode_get_block_index, InoRest
<1>7. InoGroup(i) * GroupSize \in Nat
  BY <1>2, Sizes, Z3
<1>8. inode_get_block(i) = 3 + InoGroup(i) * GroupSize + 2 + (InoRest(i) \div InodesPerBlock)
  BY DEF inode_get_block, bgroup_inodetbl, bgroup_get, InoGroup, InoRest, FS_GLOB_GB_OFFSET
<1>9. inode_get_block(i) = Place(InoGroup(i), 2 + (InoRest(i) \div InodesPerBlock))
  BY <1>5, <1>7, <1>8, Sizes DEF Place, FS_GLOB_GB_OFFSET
<1> QED
  BY <1>2, <1>3, <1>5, <1>6, <1>9

LEMMA BitmapPlaces ==
  ASSUME NEW g \in Groups
  PROVE  bg_block_bitmap(g) = Place(g, 0) /\ bg_inode_bitmap(g) = Place(g, 1)
<1>1. GroupSize \in Nat /\ g \in Nat
  BY Sizes DEF Groups
<1>2. g * GroupSize \in Nat
  BY <1>1, Z3
<1> QED
  BY <1>2 DEF bg_block_bitmap, bg_inode_bitmap, Place, FS_GLOB_GB_OFFSET

(***************************************************************************)
(* The layout of fs.c: two blocks of data, two inodes, an inode and a block *)
(* of data, and any of these and a bitmap, are never in the same place.      *)
(***************************************************************************)
THEOREM PlacesApart ==
  /\ \A k, m \in DiskBlocks : data_get_block(k) = data_get_block(m) => k = m
  /\ \A i, j \in DiskInodes :
       inode_get_block(i) = inode_get_block(j)
       /\ inode_get_block_index(i) = inode_get_block_index(j) => i = j
  /\ \A i \in DiskInodes, k \in DiskBlocks : inode_get_block(i) # data_get_block(k)
  /\ \A g \in Groups :
       /\ \A h \in Groups : bg_block_bitmap(g) # bg_inode_bitmap(h)
       /\ \A k \in DiskBlocks : data_get_block(k) \notin {bg_block_bitmap(g), bg_inode_bitmap(g)}
       /\ \A i \in DiskInodes : inode_get_block(i) \notin {bg_block_bitmap(g), bg_inode_bitmap(g)}
<1>1. ASSUME NEW k \in DiskBlocks, NEW m \in DiskBlocks, data_get_block(k) = data_get_block(m)
      PROVE  k = m
  <2>1. DataGroup(k) = DataGroup(m)
        /\ 2 + InodeTableSize + DataOffset(k) = 2 + InodeTableSize + DataOffset(m)
    BY <1>1, DataPlace, PlaceUnique, Sizes
  <2>2. DataOffset(k) = DataOffset(m)
    BY <2>1, DataPlace, Sizes
  <2>3. k - 1 = m - 1
    BY <2>1, <2>2, DataPlace
  <2> QED
    BY <2>3 DEF DiskBlocks
<1>2. ASSUME NEW i \in DiskInodes, NEW j \in DiskInodes,
             inode_get_block(i) = inode_get_block(j),
             inode_get_block_index(i) = inode_get_block_index(j)
      PROVE  i = j
  <2>1. InoGroup(i) = InoGroup(j)
        /\ 2 + (InoRest(i) \div InodesPerBlock) = 2 + (InoRest(j) \div InodesPerBlock)
    BY <1>2, InodePlace, PlaceUnique, Sizes
  <2>2. InoRest(i) \div InodesPerBlock = InoRest(j) \div InodesPerBlock
    BY <2>1, InodePlace, Sizes
  <2>3. InoRest(i) = InoRest(j)
    BY <1>2, <2>2, InodePlace
  <2>4. i - 1 = j - 1
    BY <2>1, <2>3, InodePlace
  <2> QED
    BY <2>4 DEF DiskInodes
<1>3. ASSUME NEW i \in DiskInodes, NEW k \in DiskBlocks
      PROVE  inode_get_block(i) # data_get_block(k)
  <2>1. SUFFICES ASSUME inode_get_block(i) = data_get_block(k) PROVE FALSE
    OBVIOUS
  <2>2. 2 + (InoRest(i) \div InodesPerBlock) = 2 + InodeTableSize + DataOffset(k)
    BY <2>1, InodePlace, DataPlace, PlaceUnique, Sizes
  <2> QED
    BY <2>2, InodePlace, DataPlace, Sizes
<1>4. ASSUME NEW g \in Groups, NEW h \in Groups
      PROVE  bg_block_bitmap(g) # bg_inode_bitmap(h)
  BY BitmapPlaces, PlaceUnique, Sizes
<1>5. ASSUME NEW g \in Groups, NEW k \in DiskBlocks
      PROVE  data_get_block(k) \notin {bg_block_bitmap(g), bg_inode_bitmap(g)}
  <2>1. 2 + InodeTableSize + DataOffset(k) \in 2 .. GroupSize - 1
    BY DataPlace, Sizes
  <2> QED
    BY <2>1, DataPlace, BitmapPlaces, PlaceUnique, Sizes
<1>6. ASSUME NEW g \in Groups, NEW i \in DiskInodes
      PROVE  inode_get_block(i) \notin {bg_block_bitmap(g), bg_inode_bitmap(g)}
  <2>1. 2 + (InoRest(i) \div InodesPerBlock) \in 2 .. GroupSize - 1
    BY InodePlace, Sizes
  <2> QED
    BY <2>1, InodePlace, BitmapPlaces, PlaceUnique, Sizes
<1> QED
  BY <1>1, <1>2, <1>3, <1>4, <1>5, <1>6

\* Each block, and each inode, has a bit of its own in the bitmap.
LEMMA BitUnique ==
  ASSUME NEW q \in Nat \ {0}, q <= BitmapSize, NEW m \in Nat, NEW n0 \in Nat,
         BitOf(m, q) = BitOf(n0, q)
  PROVE  m = n0
<1>1. /\ m \div q \in Nat /\ m % q \in 0 .. q - 1 /\ m = (m \div q) * q + (m % q)
      /\ n0 \div q \in Nat /\ n0 % q \in 0 .. q - 1 /\ n0 = (n0 \div q) * q + (n0 % q)
  BY QuotRem
<1>2. BitmapSize \in Nat \ {0} /\ m % q \in 0 .. BitmapSize - 1 /\ n0 % q \in 0 .. BitmapSize - 1
  BY <1>1, Sizes
<1>3. m \div q = n0 \div q /\ m % q = n0 % q
  BY <1>1, <1>2, QuotRemUnique DEF BitOf
<1> QED
  BY <1>1, <1>3

LEMMA BitsApart ==
  /\ \A k, m \in DiskBlocks : BlockBit(k) = BlockBit(m) => k = m
  /\ \A i, j \in DiskInodes : InodeBit(i) = InodeBit(j) => i = j
<1>1. ASSUME NEW k \in DiskBlocks, NEW m \in DiskBlocks, BlockBit(k) = BlockBit(m)
      PROVE  k = m
  <2>1. k - 1 \in Nat /\ m - 1 \in Nat /\ k \in Nat /\ m \in Nat
    BY DEF DiskBlocks
  <2>2. k - 1 = m - 1
    BY <1>1, <2>1, BitUnique, Sizes DEF BlockBit
  <2> QED
    BY <2>1, <2>2
<1>2. ASSUME NEW i \in DiskInodes, NEW j \in DiskInodes, InodeBit(i) = InodeBit(j)
      PROVE  i = j
  <2>1. i - 1 \in Nat /\ j - 1 \in Nat /\ i \in Nat /\ j \in Nat
    BY DEF DiskInodes
  <2>2. i - 1 = j - 1
    BY <1>2, <2>1, BitUnique, Sizes DEF InodeBit
  <2> QED
    BY <2>1, <2>2
<1> QED
  BY <1>1, <1>2

-----------------------------------------------------------------------------
(* The disk holds what was written *)

LEMMA Placed ==
  /\ \A i \in Inodes : /\ i \in DiskInodes /\ inode_get_block(i) \in At
                       /\ inode_get_block(i) \in InodePlaces
                       /\ inode_get_block_index(i) \in 0 .. InodesPerBlock - 1
  /\ \A k \in Blocks : /\ k \in DiskBlocks /\ data_get_block(k) \in At
                       /\ data_get_block(k) \notin InodePlaces
<1>1. \A i \in Inodes : i \in DiskInodes
  BY DiskAssumption
<1>2. \A k \in Blocks : k \in DiskBlocks
  BY DiskAssumption
<1>3. ASSUME NEW i \in DiskInodes
      PROVE  /\ inode_get_block(i) \in At /\ inode_get_block(i) \in InodePlaces
             /\ inode_get_block_index(i) \in 0 .. InodesPerBlock - 1
  <2>1. 2 + (InoRest(i) \div InodesPerBlock) \in 0 .. GroupSize - 1
    BY InodePlace, Sizes
  <2>2. inode_get_block(i) \in At
    BY <2>1, InodePlace, PlaceOnDisk
  <2> QED
    BY <2>2, InodePlace DEF InodePlaces
<1>4. ASSUME NEW k \in DiskBlocks
      PROVE  data_get_block(k) \in At /\ data_get_block(k) \notin InodePlaces
  <2>1. 2 + InodeTableSize + DataOffset(k) \in 0 .. GroupSize - 1
    BY DataPlace, Sizes
  <2>2. data_get_block(k) \in At
    BY <2>1, DataPlace, PlaceOnDisk
  <2>3. data_get_block(k) \notin InodePlaces
    BY PlacesApart DEF InodePlaces
  <2> QED
    BY <2>2, <2>3
<1> QED
  BY <1>1, <1>2, <1>3, <1>4

LEMMA SaveKeeps ==
  ASSUME NEW im, NEW bs
  PROVE  /\ \A i \in Inodes : fs_bitmaps_write_all(im, bs)[inode_get_block(i)]
                                = im[inode_get_block(i)]
         /\ \A k \in Blocks : fs_bitmaps_write_all(im, bs)[data_get_block(k)]
                                = im[data_get_block(k)]
<1>1. ASSUME NEW a \in At, \A g \in Groups : a \notin {bg_block_bitmap(g), bg_inode_bitmap(g)}
      PROVE  fs_bitmaps_write_all(im, bs)[a] = im[a]
  BY <1>1 DEF fs_bitmaps_write_all
<1>2. ASSUME NEW i \in Inodes
      PROVE  fs_bitmaps_write_all(im, bs)[inode_get_block(i)] = im[inode_get_block(i)]
  <2>1. inode_get_block(i) \in At /\ i \in DiskInodes
    BY Placed
  <2>2. \A g \in Groups : inode_get_block(i) \notin {bg_block_bitmap(g), bg_inode_bitmap(g)}
    BY <2>1, PlacesApart
  <2> QED
    BY ONLY <2>1, <2>2, <1>1
<1>3. ASSUME NEW k \in Blocks
      PROVE  fs_bitmaps_write_all(im, bs)[data_get_block(k)] = im[data_get_block(k)]
  <2>1. data_get_block(k) \in At /\ k \in DiskBlocks
    BY Placed
  <2>2. \A g \in Groups : data_get_block(k) \notin {bg_block_bitmap(g), bg_inode_bitmap(g)}
    BY <2>1, PlacesApart
  <2> QED
    BY ONLY <2>1, <2>2, <1>1
<1> QED
  BY <1>2, <1>3

InodesHeld == \A i \in Inodes :
  InodesAt(image, inode_get_block(i))[inode_get_block_index(i)] = ino[i]
BlocksHeld == \A k \in Blocks : image[data_get_block(k)] = [data |-> blk[k]]
MarksHeld  == \A k \in Blocks : k \in marks <=> BlockBit(k) \in bits.blocks
TakenHeld  == \A i \in Inodes : i \in taken <=> InodeBit(i) \in bits.inodes

LEMMA BlocksStep == BlocksHeld /\ DiskStep => BlocksHeld'
<1>1. SUFFICES ASSUME BlocksHeld, DiskStep, NEW k \in Blocks
               PROVE  image'[data_get_block(k)] = [data |-> blk'[k]]
  BY DEF BlocksHeld
<1>2. image'[data_get_block(k)] = Written(image)[data_get_block(k)]
  BY <1>1, SaveKeeps DEF DiskStep
<1>3. data_get_block(k) \in At /\ \A i \in Inodes : inode_get_block(i) # data_get_block(k)
  BY Placed
<1>4. \A m \in Blocks : data_get_block(m) = data_get_block(k) => m = k
  BY Placed, PlacesApart
<1>5. CASE blk'[k] # blk[k]
  <2>1. {m \in Blocks : blk'[m] # blk[m] /\ data_get_block(m) = data_get_block(k)} = {k}
    BY <1>4, <1>5
  <2>2. {i \in Inodes : ino'[i] # ino[i] /\ inode_get_block(i) = data_get_block(k)} = {}
    BY <1>3
  <2>3. Written(image)[data_get_block(k)] = [data |-> blk'[CHOOSE m \in {k} : TRUE]]
    BY <1>3, <2>1, <2>2 DEF Written
  <2> QED
    BY <1>2, <2>3
<1>6. CASE blk'[k] = blk[k]
  <2>1. {m \in Blocks : blk'[m] # blk[m] /\ data_get_block(m) = data_get_block(k)} = {}
    BY <1>4, <1>6
  <2>2. {i \in Inodes : ino'[i] # ino[i] /\ inode_get_block(i) = data_get_block(k)} = {}
    BY <1>3
  <2>3. Written(image)[data_get_block(k)] = image[data_get_block(k)]
    BY <1>3, <2>1, <2>2 DEF Written
  <2> QED
    BY <1>1, <1>2, <1>6, <2>3 DEF BlocksHeld
<1> QED
  BY <1>5, <1>6

LEMMA InodesStep == InodesHeld /\ DiskStep => InodesHeld'
<1>1. SUFFICES ASSUME InodesHeld, DiskStep, NEW i \in Inodes
               PROVE  InodesAt(image', inode_get_block(i))[inode_get_block_index(i)] = ino'[i]
  BY DEF InodesHeld
<1> DEFINE a == inode_get_block(i)
           x == inode_get_block_index(i)
           is == {j \in Inodes : ino'[j] # ino[j] /\ inode_get_block(j) = a}
           here == {j \in is : inode_get_block_index(j) = x}
<1>2. image'[a] = Written(image)[a]
  BY <1>1, SaveKeeps DEF DiskStep
<1>3. InodesAt(image', a) = InodesAt(Written(image), a)
  BY <1>2 DEF InodesAt
<1>4. a \in At /\ x \in 0 .. InodesPerBlock - 1 /\ \A k \in Blocks : data_get_block(k) # a
  BY Placed
<1>5. \A j \in Inodes : inode_get_block(j) = a /\ inode_get_block_index(j) = x => j = i
  BY Placed, PlacesApart
<1>6. InodesAt(image, a)[x] = ino[i]
  BY <1>1 DEF InodesHeld
<1>7. CASE is = {}
  <2>1. {k \in Blocks : blk'[k] # blk[k] /\ data_get_block(k) = a} = {}
    BY <1>4
  <2>2. Written(image)[a] = image[a]
    BY <1>4, <1>7, <2>1 DEF Written
  <2>3. ino'[i] = ino[i]
    BY <1>7
  <2> QED
    BY <1>3, <1>6, <2>2, <2>3 DEF InodesAt
<1>8. CASE is # {}
  <2> DEFINE f == [j \in 0 .. InodesPerBlock - 1 |->
                     LET h == {i2 \in is : inode_get_block_index(i2) = j} IN
                     IF h = {} THEN InodesAt(image, a)[j] ELSE ino'[CHOOSE i2 \in h : TRUE]]
  <2>1. Written(image)[a] = [inodes |-> f]
    BY <1>4, <1>8 DEF Written
  <2>2. InodesAt(Written(image), a) = f
    BY <2>1 DEF InodesAt
  <2>3. f[x] = IF here = {} THEN InodesAt(image, a)[x] ELSE ino'[CHOOSE i2 \in here : TRUE]
    BY <1>4
  <2>4. here = IF ino'[i] # ino[i] THEN {i} ELSE {}
    BY <1>5
  <2>5. f[x] = ino'[i]
    <3> HIDE DEF f, here
    <3>1. CASE ino'[i] # ino[i]
      <4>1. here = {i}
        BY <2>4, <3>1
      <4> QED
        BY <2>3, <4>1
    <3>2. CASE ino'[i] = ino[i]
      BY <2>3, <2>4, <1>6, <3>2
    <3> QED
      BY <3>1, <3>2
  <2> QED
    BY <1>3, <2>2, <2>5
<1> QED
  BY <1>7, <1>8

LEMMA BitsStep == MarksHeld /\ TakenHeld /\ DiskStep => MarksHeld' /\ TakenHeld'
<1>1. SUFFICES ASSUME MarksHeld, TakenHeld, DiskStep PROVE MarksHeld' /\ TakenHeld'
  OBVIOUS
<1>2. ASSUME NEW k \in Blocks PROVE k \in marks' <=> BlockBit(k) \in bits'.blocks
  <2>1. \A m \in Blocks : BlockBit(m) = BlockBit(k) => m = k
    BY Placed, BitsApart
  <2>2. bits'.blocks = (bits.blocks \ {BlockBit(m) : m \in Blocks \cap (marks \ marks')})
                         \union {BlockBit(m) : m \in Blocks \cap (marks' \ marks)}
    BY <1>1 DEF DiskStep, Flipped
  <2>3. k \in marks <=> BlockBit(k) \in bits.blocks
    BY <1>1 DEF MarksHeld
  <2> QED
    BY ONLY <2>1, <2>2, <2>3, k \in Blocks
<1>3. ASSUME NEW i \in Inodes PROVE i \in taken' <=> InodeBit(i) \in bits'.inodes
  <2>1. \A m \in Inodes : InodeBit(m) = InodeBit(i) => m = i
    BY Placed, BitsApart
  <2>2. bits'.inodes = (bits.inodes \ {InodeBit(m) : m \in Inodes \cap (taken \ taken')})
                         \union {InodeBit(m) : m \in Inodes \cap (taken' \ taken)}
    BY <1>1 DEF DiskStep, Flipped
  <2>3. i \in taken <=> InodeBit(i) \in bits.inodes
    BY <1>1 DEF TakenHeld
  <2> QED
    BY ONLY <2>1, <2>2, <2>3, i \in Inodes
<1> QED
  BY <1>2, <1>3 DEF MarksHeld, TakenHeld

LEMMA DiskStart == DiskInit => DiskHolds
<1>1. SUFFICES ASSUME Init, DiskInit PROVE DiskHolds
  BY DEF DiskInit
<1> DEFINE fresh == [a \in At |-> IF a \in InodePlaces THEN [inodes |-> NoInodes]
                                  ELSE [data |-> Zeroes]]
<1>2. image = fs_bitmaps_write_all(fresh, bits)
  BY <1>1 DEF DiskInit
<1>3. ASSUME NEW i \in Inodes
      PROVE  InodesAt(image, inode_get_block(i))[inode_get_block_index(i)] = ino[i]
  <2>1. image[inode_get_block(i)] = [inodes |-> NoInodes]
    BY <1>2, SaveKeeps, Placed
  <2>2. InodesAt(image, inode_get_block(i)) = NoInodes
    BY <2>1 DEF InodesAt
  <2> QED
    BY <1>1, <2>2, Placed DEF Init, NoInodes
<1>4. ASSUME NEW k \in Blocks
      PROVE  image[data_get_block(k)] = [data |-> blk[k]]
  <2>1. image[data_get_block(k)] = [data |-> Zeroes]
    BY <1>2, SaveKeeps, Placed
  <2> QED
    BY <1>1, <2>1 DEF Init
<1> QED
  BY <1>1, <1>3, <1>4 DEF DiskHolds, Init, DiskInit

LEMMA DiskSteps == [DiskNext]_<<diskVars, written_back>> => [Next /\ DiskStep]_diskVars
BY DEF DiskNext, SyncEnds

(***************************************************************************)
(* Whatever the calls of fs.c change, an inode and a block of a file are    *)
(* read back as they were written last, and the bits are those of what is   *)
(* taken: for every layout.                                                 *)
(***************************************************************************)
THEOREM DiskHoldsCorrect == DiskSpec => []DiskHolds
<1>1. DiskHolds <=> InodesHeld /\ BlocksHeld /\ MarksHeld /\ TakenHeld
  BY DEF DiskHolds, InodesHeld, BlocksHeld, MarksHeld, TakenHeld
<1>2. DiskHolds' <=> InodesHeld' /\ BlocksHeld' /\ MarksHeld' /\ TakenHeld'
  BY DEF DiskHolds, InodesHeld, BlocksHeld, MarksHeld, TakenHeld
<1>3. DiskHolds /\ [Next /\ DiskStep]_diskVars => DiskHolds'
  <2>1. DiskHolds /\ DiskStep => DiskHolds'
    BY <1>1, <1>2, InodesStep, BlocksStep, BitsStep
  <2>2. DiskHolds /\ UNCHANGED diskVars => DiskHolds'
    BY DEF DiskHolds, InodesAt, diskVars, vars
  <2> QED
    BY <2>1, <2>2
<1> QED
  BY <1>3, DiskStart, DiskSteps, PTL DEF DiskSpec
-----------------------------------------------------------------------------
(***************************************************************************)
(* What a mount finds                                                       *)
(***************************************************************************)
LEMMA GroupAt ==
  ASSUME NEW g \in Groups, NEW r \in 0 .. GroupSize - 1
  PROVE  (Place(g, r) - FS_GLOB_GB_OFFSET) \div GroupSize = g
<1>1. GroupSize \in Nat \ {0} /\ g \in Nat
  BY Sizes DEF Groups
<1>2. g * GroupSize \in Nat
  BY <1>1, Z3
<1> DEFINE x == Place(g, r) - FS_GLOB_GB_OFFSET
<1>3. x = g * GroupSize + r /\ x \in Nat
  BY <1>1, <1>2 DEF Place, FS_GLOB_GB_OFFSET
<1> HIDE DEF x
<1>4. /\ x \div GroupSize \in Nat /\ x % GroupSize \in 0 .. GroupSize - 1
      /\ x = (x \div GroupSize) * GroupSize + (x % GroupSize)
  BY <1>1, <1>3, QuotRem
<1>5. x \div GroupSize = g
  BY <1>1, <1>3, <1>4, QuotRemUnique
<1> QED
  BY <1>5 DEF x

LEMMA SavedPart ==
  ASSUME NEW im, NEW bs, NEW g \in Groups
  PROVE  /\ fs_bitmaps_write_all(im, bs)[bg_block_bitmap(g)] = [bits |-> Part(bs.blocks, g)]
         /\ fs_bitmaps_write_all(im, bs)[bg_inode_bitmap(g)] = [bits |-> Part(bs.inodes, g)]
<1>1. /\ 0 \in 0 .. GroupSize - 1 /\ 1 \in 0 .. GroupSize - 1
  BY Sizes
<1>2. /\ bg_block_bitmap(g) \in At /\ bg_inode_bitmap(g) \in At
      /\ (bg_block_bitmap(g) - FS_GLOB_GB_OFFSET) \div GroupSize = g
      /\ (bg_inode_bitmap(g) - FS_GLOB_GB_OFFSET) \div GroupSize = g
  BY <1>1, BitmapPlaces, PlaceOnDisk, GroupAt
<1>3. ~\E h \in Groups : bg_inode_bitmap(g) = bg_block_bitmap(h)
  BY PlacesApart
<1> DEFINE a == bg_block_bitmap(g)
           c == bg_inode_bitmap(g)
<1>4. fs_bitmaps_write_all(im, bs)[a]
        = [bits |-> Part(bs.blocks, (a - FS_GLOB_GB_OFFSET) \div GroupSize)]
  BY <1>2 DEF fs_bitmaps_write_all
<1>5. fs_bitmaps_write_all(im, bs)[c]
        = [bits |-> Part(bs.inodes, (c - FS_GLOB_GB_OFFSET) \div GroupSize)]
  BY <1>2, <1>3 DEF fs_bitmaps_write_all
<1> QED
  BY <1>2, <1>4, <1>5

LEMMA BitPlace ==
  ASSUME NEW q \in Nat \ {0}, q <= BitmapSize, NEW m \in Nat, m \div q \in Groups
  PROVE  /\ BitOf(m, q) \div BitmapSize \in Groups
         /\ BitOf(m, q) % BitmapSize \in 0 .. BitmapSize - 1
         /\ (BitOf(m, q) \div BitmapSize) * BitmapSize + (BitOf(m, q) % BitmapSize) = BitOf(m, q)
<1> DEFINE g == m \div q
           r == m % q
           x == BitOf(m, q)
<1>1. g \in Nat /\ r \in 0 .. q - 1 /\ BitmapSize \in Nat \ {0}
  BY QuotRem, Sizes
<1>2. r \in 0 .. BitmapSize - 1
  BY <1>1
<1> HIDE DEF g, r
<1>3. g * BitmapSize \in Nat
  BY <1>1, Z3
<1>4. x = g * BitmapSize + r /\ x \in Nat
  BY <1>1, <1>3 DEF BitOf, g, r
<1> HIDE DEF x
<1>5. /\ x \div BitmapSize \in Nat /\ x % BitmapSize \in 0 .. BitmapSize - 1
      /\ x = (x \div BitmapSize) * BitmapSize + (x % BitmapSize)
  BY <1>1, <1>4, QuotRem
<1>6. x \div BitmapSize = g
  BY <1>1, <1>2, <1>4, <1>5, QuotRemUnique
<1> QED
  BY <1>5, <1>6 DEF x, g

LEMMA BitPlaces ==
  /\ \A k \in Blocks :
       /\ BlockBit(k) \div BitmapSize \in Groups
       /\ BlockBit(k) % BitmapSize \in 0 .. BitmapSize - 1
       /\ (BlockBit(k) \div BitmapSize) * BitmapSize + (BlockBit(k) % BitmapSize) = BlockBit(k)
  /\ \A i \in Inodes :
       /\ InodeBit(i) \div BitmapSize \in Groups
       /\ InodeBit(i) % BitmapSize \in 0 .. BitmapSize - 1
       /\ (InodeBit(i) \div BitmapSize) * BitmapSize + (InodeBit(i) % BitmapSize) = InodeBit(i)
<1>1. ASSUME NEW k \in Blocks
      PROVE  k - 1 \in Nat /\ (k - 1) \div DataTableSize \in Groups
  <2>1. k \in DiskBlocks
    BY Placed
  <2> QED
    BY <2>1, DataPlace, Sizes DEF DiskBlocks, DataGroup
<1>2. ASSUME NEW i \in Inodes
      PROVE  i - 1 \in Nat /\ (i - 1) \div InodesPerGroup \in Groups
  <2>1. i \in DiskInodes
    BY Placed
  <2> QED
    BY <2>1, InodePlace DEF DiskInodes, InoGroup
<1> QED
  BY <1>1, <1>2, BitPlace, Sizes DEF BlockBit, InodeBit

\* The bits of the blocks and inodes, on the disk im
MarksIn(im) == {k \in Blocks :
  LET g == BlockBit(k) \div BitmapSize IN
  "bits" \in DOMAIN im[bg_block_bitmap(g)]
    /\ BlockBit(k) % BitmapSize \in im[bg_block_bitmap(g)].bits}
TakenIn(im) == {i \in Inodes :
  LET g == InodeBit(i) \div BitmapSize IN
  "bits" \in DOMAIN im[bg_inode_bitmap(g)]
    /\ InodeBit(i) % BitmapSize \in im[bg_inode_bitmap(g)].bits}

LEMMA MountedIn == MountedMarks = MarksIn(image) /\ MountedTaken = TakenIn(image)
  BY DEF MountedMarks, MountedTaken, Mounted, MarksIn, TakenIn

LEMMA MountedInNext == MountedMarks' = MarksIn(image') /\ MountedTaken' = TakenIn(image')
  BY DEF MountedMarks, MountedTaken, Mounted, MarksIn, TakenIn

LEMMA SavedBits ==
  ASSUME NEW im, NEW bs
  PROVE  /\ MarksIn(fs_bitmaps_write_all(im, bs)) = {k \in Blocks : BlockBit(k) \in bs.blocks}
         /\ TakenIn(fs_bitmaps_write_all(im, bs)) = {i \in Inodes : InodeBit(i) \in bs.inodes}
<1> DEFINE S == fs_bitmaps_write_all(im, bs)
<1>1. \A g \in Groups : /\ S[bg_block_bitmap(g)] = [bits |-> Part(bs.blocks, g)]
                        /\ S[bg_inode_bitmap(g)] = [bits |-> Part(bs.inodes, g)]
  BY SavedPart
<1> HIDE DEF S
<1>2. ASSUME NEW k \in Blocks PROVE k \in MarksIn(S) <=> BlockBit(k) \in bs.blocks
  <2> DEFINE g == BlockBit(k) \div BitmapSize
             p == BlockBit(k) % BitmapSize
  <2>1. g \in Groups /\ p \in 0 .. BitmapSize - 1 /\ g * BitmapSize + p = BlockBit(k)
    BY BitPlaces
  <2>2. k \in MarksIn(S) <=> "bits" \in DOMAIN S[bg_block_bitmap(g)]
                             /\ p \in S[bg_block_bitmap(g)].bits
    BY DEF MarksIn
  <2> HIDE DEF g, p
  <2>3. p \in Part(bs.blocks, g) <=> BlockBit(k) \in bs.blocks
    BY <2>1 DEF Part
  <2>4. "bits" \in DOMAIN S[bg_block_bitmap(g)] /\ S[bg_block_bitmap(g)].bits = Part(bs.blocks, g)
    <3>1. S[bg_block_bitmap(g)] = [bits |-> Part(bs.blocks, g)]
      BY <1>1, <2>1
    <3> QED
      BY <3>1
  <2> QED
    BY <2>2, <2>3, <2>4
<1>3. ASSUME NEW i \in Inodes PROVE i \in TakenIn(S) <=> InodeBit(i) \in bs.inodes
  <2> DEFINE g == InodeBit(i) \div BitmapSize
             p == InodeBit(i) % BitmapSize
  <2>1. g \in Groups /\ p \in 0 .. BitmapSize - 1 /\ g * BitmapSize + p = InodeBit(i)
    BY BitPlaces
  <2>2. i \in TakenIn(S) <=> "bits" \in DOMAIN S[bg_inode_bitmap(g)]
                             /\ p \in S[bg_inode_bitmap(g)].bits
    BY DEF TakenIn
  <2> HIDE DEF g, p
  <2>3. p \in Part(bs.inodes, g) <=> InodeBit(i) \in bs.inodes
    BY <2>1 DEF Part
  <2>4. "bits" \in DOMAIN S[bg_inode_bitmap(g)] /\ S[bg_inode_bitmap(g)].bits = Part(bs.inodes, g)
    <3>1. S[bg_inode_bitmap(g)] = [bits |-> Part(bs.inodes, g)]
      BY <1>1, <2>1
    <3> QED
      BY <3>1
  <2> QED
    BY <2>2, <2>3, <2>4
<1>4. MarksIn(S) \subseteq Blocks /\ TakenIn(S) \subseteq Inodes
  BY DEF MarksIn, TakenIn
<1> QED
  BY <1>2, <1>3, <1>4 DEF S

LEMMA UnsavedBits ==
  /\ MarksIn(Written(image)) = MarksIn(image)
  /\ TakenIn(Written(image)) = TakenIn(image)
<1>1. ASSUME NEW a \in At, \A k \in Blocks : data_get_block(k) # a,
             \A i \in Inodes : inode_get_block(i) # a
      PROVE  Written(image)[a] = image[a]
  <2>1. /\ {k \in Blocks : blk'[k] # blk[k] /\ data_get_block(k) = a} = {}
        /\ {i \in Inodes : ino'[i] # ino[i] /\ inode_get_block(i) = a} = {}
    BY <1>1
  <2> QED
    BY <2>1 DEF Written
<1>2. \A g \in Groups : /\ Written(image)[bg_block_bitmap(g)] = image[bg_block_bitmap(g)]
                        /\ Written(image)[bg_inode_bitmap(g)] = image[bg_inode_bitmap(g)]
  <2> TAKE g \in Groups
  <2>1. 0 \in 0 .. GroupSize - 1 /\ 1 \in 0 .. GroupSize - 1
    BY Sizes
  <2>2. bg_block_bitmap(g) \in At /\ bg_inode_bitmap(g) \in At
    BY <2>1, BitmapPlaces, PlaceOnDisk
  <2>3. /\ \A k \in Blocks : data_get_block(k) \notin {bg_block_bitmap(g), bg_inode_bitmap(g)}
        /\ \A i \in Inodes : inode_get_block(i) \notin {bg_block_bitmap(g), bg_inode_bitmap(g)}
    BY Placed, PlacesApart
  <2> QED
    BY <1>1, <2>2, <2>3
<1> QED
  BY <1>2, BitPlaces DEF MarksIn, TakenIn

\* A step that is the end of a write, or a removal, leaves the bitmaps in the image
\* as they are in memory; the others leave them as they are.
LEMMA MountedStep ==
  ASSUME Structure', MarksHeld', TakenHeld', DiskStep
  PROVE  IF Saves THEN MountedMarks' = marks' /\ MountedTaken' = taken'
         ELSE MountedMarks' = MountedMarks /\ MountedTaken' = MountedTaken
<1>1. CASE Saves
  <2>1. image' = fs_bitmaps_write_all(Written(image), bits')
    BY <1>1 DEF DiskStep
  <2>2. /\ MountedMarks' = {k \in Blocks : BlockBit(k) \in bits'.blocks}
        /\ MountedTaken' = {i \in Inodes : InodeBit(i) \in bits'.inodes}
    BY <2>1, MountedInNext, SavedBits
  <2>3. marks' \subseteq Blocks /\ taken' \subseteq Inodes
    BY DEF Structure, TypeOK
  <2> QED
    BY <1>1, <2>2, <2>3 DEF MarksHeld, TakenHeld
<1>2. CASE ~Saves
  <2>1. image' = Written(image)
    BY <1>2 DEF DiskStep
  <2> QED
    BY <1>2, <2>1, MountedIn, MountedInNext, UnsavedBits
<1> QED
  BY <1>1, <1>2

\* What leads to a block is a block.
LEMMA PathNonzero ==
  ASSUME NEW B, NEW rec, NEW l \in Logical, PtrIn(B, rec, W(l)) # 0
  PROVE  \A v \in Path(l) : PtrIn(B, rec, v) # 0
<1>1. /\ Root(NDirect) \in Inner /\ Root(NDirect + 1) \in Inner
      /\ \A c \in Cell : Kid(Root(NDirect + 1), c) \in Inner
  BY CellSizes DEF Inner, Root, Kid
<1>2. ASSUME NEW v \in Inner, NEW c \in Cell, PtrIn(B, rec, Kid(v, c)) # 0
      PROVE  PtrIn(B, rec, v) # 0
  <2>1. PtrIn(B, rec, Kid(v, c)) = Deref(B, PtrIn(B, rec, v), c)
    BY PtrKid
  <2> QED
    BY <1>2, <2>1 DEF Deref
<1>3. CASE Level(l) = 0
  BY <1>3, WayOfBlock
<1>4. CASE Level(l) = 1
  BY <1>1, <1>2, <1>4, WayOfBlock
<1>5. CASE Level(l) = 2
  <2>1. /\ Indir1(l) \in Cell /\ Indir2(l) \in Cell
        /\ W(l) = Kid(Kid(Root(NDirect + 1), Indir1(l)), Indir2(l))
        /\ Path(l) = {Root(NDirect + 1), Kid(Root(NDirect + 1), Indir1(l)), W(l)}
    BY <1>5, WayOfBlock
  <2>2. PtrIn(B, rec, Kid(Root(NDirect + 1), Indir1(l))) # 0
    BY <1>1, <1>2, <2>1
  <2>3. PtrIn(B, rec, Root(NDirect + 1)) # 0
    BY <1>1, <1>2, <2>1, <2>2
  <2> QED
    BY <2>1, <2>2, <2>3
<1> QED
  BY <1>3, <1>4, <1>5, WayOfBlock

\* The inode of each file leads where it led, whatever a call has added to the file.
KeptOnDisk ==
  /\ taken \subseteq taken'
  /\ \A i \in taken : ino'[i] = ino[i] /\ Keeps(blk, ino[i], blk', ino[i])

LEMMA GrewKept ==
  ASSUME Structure, NEW M, NEW i, NEW l, Grew(M, i, l)
  PROVE  KeptOnDisk
<1>1. taken' = taken /\ ino' = ino
  BY DEF Grew
<1>2. \A j \in taken : Keeps(blk, Recs[j], blk', Recs'[j])
  BY DEF Grew, Keeps
<1>3. \A j \in taken : PartOf(ino[j], Recs[j])
  BY StructureFacts DEF PartOf
<1>4. \A j \in taken : Keeps(blk, ino[j], blk', ino[j])
  BY <1>2, <1>3, Kept
<1> QED
  BY <1>1, <1>4 DEF KeptOnDisk

LEMMA SameKept == ASSUME UNCHANGED <<taken, ino, blk>> PROVE KeptOnDisk
  BY DEF KeptOnDisk, Keeps

LEMMA StepKept ==
  ASSUME Structure, Next, ~Saves
  PROVE  KeptOnDisk
<1>1. ASSUME NEW i \in Inodes, Create(i) PROVE KeptOnDisk
  <2>1. i \notin taken /\ taken' = taken \union {i} /\ ino' = [ino EXCEPT ![i] = NoInode] /\ blk' = blk
    BY <1>1 DEF Create
  <2>2. taken \subseteq Inodes /\ ino \in [Inodes -> InodeRec]
    BY StructureFacts
  <2>3. \A j \in taken : ino'[j] = ino[j]
    BY <2>1, <2>2
  <2> QED
    BY <2>1, <2>3 DEF KeptOnDisk, Keeps
<1>2. ASSUME NEW i \in Inodes, RmCall(i) PROVE KeptOnDisk
  BY <1>2, SameKept DEF RmCall
<1>3. ASSUME NEW i \in Inodes, NEW size \in WriteSizes, WriteCall(i, size) PROVE KeptOnDisk
  BY <1>3, WriteCallStep, GrewKept, SameKept DEF Stops
<1>4. ASSUME NEW i \in Inodes, NEW from \in 0 .. MaxLen, NEW size \in ReadSizes,
             ReadCall(i, from, size)
      PROVE  KeptOnDisk
  BY <1>4, ReadCallFound, SameKept
<1>5. CASE WriteByte
  BY <1>5, WriteByteStep, GrewKept, SameKept DEF Stops
<1>6. CASE WriteEnds
  BY <1>6, WriteEndsStep, IdleCall DEF Saves
<1>7. CASE ReadByte
  BY <1>7, ReadByteStep, GrewKept, SameKept DEF Stops
<1>8. CASE ReadEnds
  BY <1>8, SameKept DEF ReadEnds, ReadReturns
<1>9. CASE RmBlock
  BY <1>9, RmBlockStep, GrewKept, SameKept DEF Stops, Frees, FreesNew
<1>10. CASE RmEnds
  BY <1>10, IdleCall DEF RmEnds, Saves
<1> QED
  BY <1>1, <1>2, <1>3, <1>4, <1>5, <1>6, <1>7, <1>8, <1>9, <1>10 DEF Next

\* Between calls, and in a read of what a file has, nothing is allocated.
Quiet == ~past /\ call.op \in {"none", "read"}

LEMMA StepQuiet ==
  ASSUME Structure, Owned, Next, ~Saves, Quiet'
  PROVE  Quiet /\ marks' = marks
<1>0. past \in BOOLEAN /\ call \in CallRec
  BY Begins, StructureFacts
<1>1. ASSUME NEW i \in Inodes, Create(i) PROVE Quiet /\ marks' = marks
  BY <1>1 DEF Create, Quiet
<1>2. ASSUME NEW i \in Inodes, RmCall(i) PROVE FALSE
  BY <1>2 DEF RmCall, Quiet, Idle
<1>3. ASSUME NEW i \in Inodes, NEW size \in WriteSizes, WriteCall(i, size) PROVE FALSE
  BY <1>3, WriteCallStep DEF Stops, Quiet, Idle
<1>4. ASSUME NEW i \in Inodes, NEW from \in 0 .. MaxLen, NEW size \in ReadSizes,
             ReadCall(i, from, size)
      PROVE  Quiet /\ marks' = marks
  BY <1>4, ReadCallFound DEF Quiet
<1>5. CASE WriteByte
  <2>1. call'.op \in {"write", "full"}
    BY <1>0, <1>5, WriteByteStep DEF Stops, Idle, CallRec, WriteByte
  <2> QED
    BY <2>1 DEF Quiet
<1>6. CASE WriteEnds
  BY <1>6, WriteEndsStep, IdleCall DEF Saves
<1>7. CASE ReadByte
  <2>1. ~past' /\ ReadExact
    BY DEF Quiet, Owned
  <2> QED
    BY <1>7, <2>1, ReadByteFound DEF Quiet
<1>8. CASE ReadEnds
  BY <1>8 DEF ReadEnds, ReadReturns, Quiet
<1>9. CASE RmBlock
  <2>1. call'.op \in {"rm", "full"}
    BY <1>0, <1>9, RmBlockStep DEF Stops, Idle, CallRec
  <2> QED
    BY <2>1 DEF Quiet
<1>10. CASE RmEnds
  BY <1>10, IdleCall DEF RmEnds, Saves
<1> QED
  BY <1>1, <1>2, <1>3, <1>4, <1>5, <1>6, <1>7, <1>8, <1>9, <1>10 DEF Next

\* In the image a file that was written has its blocks, and what leads to them.
Safe(i) == IsWritten(ino[i]) =>
  \A l \in 0 .. ino[i].blocks : \A v \in Path(l) : PtrIn(blk, ino[i], v) \in MountedMarks
MountInv ==
  /\ MountedTaken \subseteq taken
  /\ \A i \in MountedTaken : Safe(i)
  /\ Quiet => MountedMarks = marks

AllLogical == \A j \in Inodes : \A m \in 0 .. ino[j].blocks : m \in Logical

LEMMA LogicalNext == Structure' => AllLogical'
<1>1. Structure => AllLogical
  BY FilesLogical DEF AllLogical
<1> QED
  BY <1>1, PTL

LEMMA SaveMounts ==
  ASSUME Structure', MarksHeld', TakenHeld', DiskStep, Saves
  PROVE  MountInv'
<1>1. MountedMarks' = marks' /\ MountedTaken' = taken' /\ call'.op = "none"
  BY MountedStep DEF Saves
<1>2. /\ Unique' /\ Marked' /\ FilledI' /\ TypeOK'
  BY DEF Structure
<1>3. Within(blk', Recs', taken', marks') /\ \A i \in taken' : Recs'[i] = ino'[i]
  BY <1>1, <1>2 DEF Marked, Intact, Started, Recs, Working
<1>4. ASSUME NEW i \in taken', IsWritten(ino'[i]),
             NEW l \in 0 .. ino'[i].blocks, NEW v \in Path(l)
      PROVE  PtrIn(blk', ino'[i], v) \in marks'
  <2>1. l \in Logical
    <3>1. \A j \in Inodes : \A m \in 0 .. ino'[j].blocks : m \in Logical
      BY LogicalNext DEF AllLogical
    <3>2. i \in Inodes
      BY <1>2 DEF TypeOK
    <3> QED
      BY <1>4, <3>1, <3>2
  <2>2. PtrIn(blk', ino'[i], W(l)) # 0
    BY <1>2, <1>4 DEF FilledI, Filled
  <2>3. PtrIn(blk', ino'[i], v) # 0 /\ v \in Ways
    BY <1>4, <2>1, <2>2, PathNonzero, PathWays
  <2> QED
    BY <1>3, <2>3 DEF Within
<1> QED
  BY <1>1, <1>4 DEF MountInv, Safe

LEMMA UnsavedMounts ==
  ASSUME Structure, Owned, MountInv, Next, Structure', MarksHeld', TakenHeld', DiskStep, ~Saves
  PROVE  MountInv'
<1>1. MountedMarks' = MountedMarks /\ MountedTaken' = MountedTaken
  BY MountedStep
<1>2. KeptOnDisk
  BY StepKept
<1>3. MountedTaken' \subseteq taken'
  BY <1>1, <1>2 DEF MountInv, KeptOnDisk
<1>4. ASSUME NEW i \in MountedTaken, IsWritten(ino'[i]),
             NEW l \in 0 .. ino'[i].blocks, NEW v \in Path(l)
      PROVE  PtrIn(blk', ino'[i], v) \in MountedMarks
  <2>1. i \in taken /\ ino'[i] = ino[i] /\ Keeps(blk, ino[i], blk', ino[i]) /\ i \in Inodes
    BY <1>2, StructureFacts DEF MountInv, KeptOnDisk
  <2>2. PtrIn(blk, ino[i], v) \in MountedMarks
    BY <1>4, <2>1 DEF MountInv, Safe
  <2>3. v \in Ways
    <3>1. l \in Logical
      BY <1>4, <2>1, FilesLogical
    <3> QED
      BY <1>4, <3>1, PathWays
  <2>4. MountedMarks \subseteq Blocks
    BY MountedIn DEF MarksIn
  <2>5. PtrIn(blk, ino[i], v) # 0
    BY <2>2, <2>4 DEF Blocks
  <2> QED
    BY <2>1, <2>2, <2>3, <2>5 DEF Keeps
<1>5. Quiet' => MountedMarks' = marks'
  BY <1>1, StepQuiet DEF MountInv
<1> QED
  BY <1>1, <1>3, <1>4, <1>5 DEF MountInv, Safe

LEMMA MountStart == ASSUME DiskInit PROVE MountInv
<1>1. marks = {} /\ taken = {} /\ bits = [blocks |-> {}, inodes |-> {}]
  BY DEF DiskInit, Init
<1>2. PICK im : image = fs_bitmaps_write_all(im, bits)
  BY DEF DiskInit
<1>3. bits.blocks = {} /\ bits.inodes = {}
  BY <1>1
<1>4. MountedMarks = {} /\ MountedTaken = {}
  BY <1>2, <1>3, MountedIn, SavedBits
<1> QED
  BY <1>1, <1>4 DEF MountInv

DiskInv == Structure /\ Owned /\ DiskHolds /\ MountInv

LEMMA DiskInvCorrect == DiskSpec => []DiskInv
<1>1. DiskInit => DiskInv
  <2>1. DiskInit => Init /\ Owned /\ Structure
    <3>1. Init => marks = {} /\ taken = {} /\ call.op = "none"
      BY IdleCall DEF Init
    <3> QED
      BY <3>1, StructureStart DEF DiskInit, Owned, Tight, ReadExact, Accounted
  <2> QED
    BY <2>1, DiskStart, MountStart DEF DiskInv
<1>2. DiskInv /\ [Next /\ DiskStep]_diskVars => DiskInv'
  <2> SUFFICES ASSUME DiskInv, [Next /\ DiskStep]_diskVars PROVE DiskInv'
    OBVIOUS
  <2>1. Structure' /\ Owned'
    <3>1. [Next]_vars
      BY DEF diskVars
    <3> QED
      BY <3>1, StructureStep, OwnedStep DEF DiskInv
  <2>2. CASE Next /\ DiskStep
    <3>1. DiskHolds' /\ MarksHeld' /\ TakenHeld'
      BY <2>2, InodesStep, BlocksStep, BitsStep
         DEF DiskInv, DiskHolds, InodesHeld, BlocksHeld, MarksHeld, TakenHeld
    <3>2. MountInv'
      BY <2>1, <2>2, <3>1, SaveMounts, UnsavedMounts DEF DiskInv
    <3> QED
      BY <2>1, <3>1, <3>2 DEF DiskInv
  <2>3. CASE UNCHANGED diskVars
    <3>1. DiskHolds'
      BY <2>3 DEF DiskInv, DiskHolds, InodesAt, diskVars, vars
    <3>2. MountInv'
      BY <2>3 DEF DiskInv, MountInv, Safe, Quiet, MountedMarks, MountedTaken, Mounted,
                  diskVars, vars
    <3> QED
      BY <2>1, <3>1, <3>2 DEF DiskInv
  <2> QED
    BY <2>2, <2>3
<1> QED
  BY <1>1, <1>2, DiskSteps, PTL DEF DiskSpec

(***************************************************************************)
(* A machine that stops with all written back, between two steps of a call, *)
(* loses no block of a file that its disk names: fs_bitmaps_write_all, at   *)
(* the end of a write or of a removal, writes what fs_mount needs, for      *)
(* every layout.                                                            *)
(***************************************************************************)
THEOREM MountFindsCorrect == DiskSpec => []MountFinds
<1>1. ASSUME DiskInv PROVE MountFinds
  <2> USE <1>1 DEF DiskInv
  <2>1. MountedTaken \subseteq taken /\ taken \subseteq Inodes
    BY StructureFacts DEF MountInv
  <2>2. ASSUME NEW i \in MountedTaken, NEW p \in 1 .. Size(i), NEW w \in Path((p - 1) \div Cells)
        PROVE  Ptr(ino[i], w) \in MountedMarks
    <3> DEFINE l == (p - 1) \div Cells
               m == p - 1
               k == ino[i].blocks
    <3>1. /\ i \in Inodes /\ k \in Nat /\ ino[i].lwo \in Cell /\ Size(i) \in Nat
          /\ Size(i) = Start(k) + ino[i].lwo /\ Start(k) \in Nat /\ Start(k + 1) = Start(k) + Cells
      BY <2>1, FilesLogical, CellsTimes
    <3>2. m \in Nat /\ m < Start(k + 1) /\ k + 1 \in Nat
      BY <3>1, CellSizes DEF Cell
    <3>3. l \in 0 .. k
      <4> DEFINE q == k + 1
      <4>1. q \in Nat /\ m < q * Cells /\ m \in Nat
        BY <3>2 DEF Start
      <4> HIDE DEF q, m, k
      <4>2. m \div Cells \in 0 .. q - 1
        BY <4>1, QuotBelow, CellSizes
      <4>3. k \in Nat
        BY <3>1
      <4> QED
        BY <4>2, <4>3 DEF q, m
    <3>4. IsWritten(ino[i])
      <4>1. SUFFICES ASSUME k = 0, ino[i].lwo = 0 PROVE FALSE
        BY <3>1, CellSizes DEF IsWritten, Cell
      <4>2. Size(i) = 0
        BY <4>1, CellSizes DEF Size
      <4> QED
        BY <4>2
    <3>5. PtrIn(blk, ino[i], w) \in MountedMarks
      BY <3>3, <3>4 DEF MountInv, Safe
    <3> QED
      BY <3>5, PtrIsIn
  <2>3. ASSUME call = Idle, ~past, NEW i \in MountedTaken, NEW w \in Ways, Ptr(ino[i], w) # 0
        PROVE  Ptr(ino[i], w) \in MountedMarks
    <3>1. call.op = "none" /\ i \in taken
      BY <2>1, <2>3, IdleCall
    <3>2. MountedMarks = marks
      BY <2>3, <3>1 DEF MountInv, Quiet
    <3>3. Sound(marks, blk, Recs, taken) /\ Recs[i] = ino[i]
      <4>1. ~Started /\ ~Working
        BY <3>1 DEF Started, Working
      <4> QED
        BY <3>1, <4>1, StructureFacts
    <3> QED
      BY <2>3, <3>1, <3>2, <3>3, PtrIsIn DEF Sound, Within
  <2> QED
    BY <2>1, <2>2, <2>3 DEF MountFinds
<1> QED
  BY <1>1, DiskInvCorrect, PTL
-----------------------------------------------------------------------------
(***************************************************************************)
(* What the blocks of data hold.  make_ph_block writes in blocks of numbers *)
(* only.                                                                    *)
(***************************************************************************)
Touched(d, e) == \A k \in Blocks : e.blk[k] # d.blk[k] =>
  \E v \in Inner : k = PtrIn(Eff(e), e.n, v)

LEMMA TouchedOn ==
  ASSUME NEW d, NEW f, NEW e, NEW R, NEW I, NEW i, NEW X, NEW w,
         Touched(d, f), Touched(f, e), Good(f, R, I, i), Leads(f, e, R, I, i, X, w)
  PROVE  Touched(d, e)
<1> SUFFICES ASSUME NEW k \in Blocks, e.blk[k] # d.blk[k]
             PROVE  \E v \in Inner : k = PtrIn(Eff(e), e.n, v)
  BY DEF Touched
<1>1. CASE e.blk[k] # f.blk[k]
  BY <1>1 DEF Touched
<1>2. CASE e.blk[k] = f.blk[k]
  <2>1. PICK v \in Inner : k = PtrIn(Eff(f), f.n, v)
    BY <1>2 DEF Touched
  <2>2. i \in I /\ R \in [I -> InodeRec] /\ R[i] = f.n /\ With(R, i, e)[i] = e.n /\ v \in Ways /\ k # 0
    BY KidWays DEF Good, With, Blocks
  <2>3. \A j \in I : \A u \in Ways :
           \/ PtrIn(Eff(e), With(R, i, e)[j], u) = PtrIn(Eff(f), R[j], u)
           \/ j = i /\ u \in X /\ PtrIn(Eff(f), R[j], u) = 0
    BY DEF Leads
  <2>4. PtrIn(Eff(e), e.n, v) = PtrIn(Eff(f), f.n, v)
    BY <2>1, <2>2, <2>3
  <2> QED
    BY <2>1, <2>4
<1> QED
  BY <1>1, <1>2

LEMMA FromInodeTouched ==
  ASSUME NEW d \in DiskRec, NEW k, ~FromInode(d, k).full
  PROVE  ~d.full /\ Touched(d, FromInode(d, k))
<1>1. ~d.full /\ FromInode(d, k).blk = d.blk
  BY DEF FromInode, DiskRec
<1> QED
  BY <1>1 DEF Touched

LEMMA FromBlockTouched ==
  ASSUME NEW d, NEW R, NEW I, NEW i, Good(d, R, I, i), NEW u \in Inner, NEW c \in Cell,
         d.ph = PtrIn(Eff(d), d.n, u), d.ph # 0,
         NEW e, e = FromBlock(d, c), ~e.full
  PROVE  Touched(d, e) /\ Leads(d, e, R, I, i, {Kid(u, c)}, Kid(u, c))
<1>1. Leads(d, e, R, I, i, {Kid(u, c)}, Kid(u, c))
  BY FromBlockStep
<1>2. /\ d \in DiskRec /\ i \in I /\ R \in [I -> InodeRec] /\ R[i] = d.n /\ With(R, i, e)[i] = e.n
      /\ u \in Ways /\ ~d.full
  BY KidWays DEF Good, With
<1>3. \A k \in Blocks : k # d.ph => e.blk[k] = d.blk[k]
  BY <1>2, Zenon DEF FromBlock, DiskRec
<1>4. \A j \in I : \A v \in Ways :
           \/ PtrIn(Eff(e), With(R, i, e)[j], v) = PtrIn(Eff(d), R[j], v)
           \/ j = i /\ v \in {Kid(u, c)} /\ PtrIn(Eff(d), R[j], v) = 0
  BY <1>1 DEF Leads
<1>5. PtrIn(Eff(e), e.n, u) = d.ph
  BY <1>2, <1>4
<1>6. Touched(d, e)
  BY <1>3, <1>5 DEF Touched
<1> QED
  BY <1>1, <1>6

LEMMA MakePhTouched ==
  ASSUME NEW d, NEW R, NEW I, NEW i, Good(d, R, I, i), ~d.new, NEW l \in Logical,
         NEW e, e = MakePh(d, l), ~e.full
  PROVE  Touched(d, e)
<1> USE BlockSizes
<1>1. /\ Root(NDirect) \in Inner /\ Root(NDirect + 1) \in Inner
      /\ NDirect \in Slots /\ NDirect + 1 \in Slots
      /\ \A c \in Cell : Kid(Root(NDirect + 1), c) \in Inner
  BY DEF Inner, Slots, Root, Kid
<1> DEFINE d0 == FromInode(d, DirBlock(l))
           v0 == Root(DirBlock(l))
<1>2. DirBlock(l) \in Slots /\ d \in DiskRec
  BY <1>1, WayOfBlock DEF Slots, Good
<1>3. ~d0.full => Touched(d, d0) /\ Leads(d, d0, R, I, i, {v0}, v0)
  BY <1>2, FromInodeStep, FromInodeTouched
<1>4. ASSUME NEW f, NEW u \in Inner, NEW c \in Cell, NEW X,
             ~f.full => Touched(d, f) /\ Leads(d, f, R, I, i, X, u),
             ~FromBlock(f, c).full
      PROVE  /\ ~f.full /\ Touched(d, FromBlock(f, c))
             /\ Leads(f, FromBlock(f, c), With(R, i, f), I, i, {Kid(u, c)}, Kid(u, c))
  <2>1. ~f.full
    BY <1>4 DEF FromBlock
  <2>2. Good(f, With(R, i, f), I, i) /\ f.ph = PtrIn(Eff(f), f.n, u) /\ f.ph # 0
    BY <1>4, <2>1 DEF Leads
  <2>3. /\ Touched(f, FromBlock(f, c))
        /\ Leads(f, FromBlock(f, c), With(R, i, f), I, i, {Kid(u, c)}, Kid(u, c))
    BY <1>4, <2>2, FromBlockTouched
  <2> QED
    BY <1>4, <2>1, <2>2, <2>3, TouchedOn
<1> HIDE DEF d0, v0
<1>5. CASE Level(l) = 0
  BY <1>3, <1>5, MakePhLevels DEF d0
<1>6. CASE Level(l) = 1
  <2>1. /\ e = FromBlock(d0, Indir1(l)) /\ Indir1(l) \in Cell /\ v0 \in Inner
    BY <1>1, <1>6, WayOfBlock, MakePhLevels DEF d0, v0
  <2>2. ~FromBlock(d0, Indir1(l)).full
    BY <2>1
  <2>3. Touched(d, FromBlock(d0, Indir1(l)))
    BY <1>3, <1>4, <2>1, <2>2
  <2> QED
    BY <2>1, <2>3
<1>7. CASE Level(l) = 2
  <2> DEFINE d1 == FromBlock(d0, Indir1(l))
             v1 == Kid(v0, Indir1(l))
  <2>1. /\ e = FromBlock(d1, Indir2(l)) /\ Indir1(l) \in Cell /\ Indir2(l) \in Cell
        /\ v0 = Root(NDirect + 1)
    BY <1>7, WayOfBlock, MakePhLevels DEF d0, v0
  <2>2. v0 \in Inner /\ v1 \in Inner /\ {v0} \in SUBSET Ways /\ {v1} \in SUBSET Ways
    BY <1>1, <2>1, KidWays
  <2>3. Good(d, R, I, i)
    OBVIOUS
  <2>4. ~d1.full => Touched(d, d1) /\ Leads(d, d1, R, I, i, {v0} \union {v1}, v1)
    <3> SUFFICES ASSUME ~d1.full
                 PROVE  Touched(d, d1) /\ Leads(d, d1, R, I, i, {v0} \union {v1}, v1)
      OBVIOUS
    <3>1. /\ ~d0.full /\ Touched(d, d1)
          /\ Leads(d0, d1, With(R, i, d0), I, i, {v1}, v1)
      BY <1>3, <1>4, <2>1, <2>2
    <3>2. Leads(d, d0, R, I, i, {v0}, v0)
      BY <1>3, <3>1
    <3> HIDE DEF d1, v1
    <3> QED
      BY <2>2, <2>3, <3>1, <3>2, LeadsOn
  <2> HIDE DEF d1, v1
  <2>5. ~FromBlock(d1, Indir2(l)).full
    BY <2>1
  <2>6. Touched(d, FromBlock(d1, Indir2(l)))
    BY <1>4, <2>1, <2>2, <2>4, <2>5
  <2> QED
    BY <2>1, <2>6
<1> QED
  BY <1>5, <1>6, <1>7, WayOfBlock

\* The blocks of data that the files have, before a call gets one more, hold what
\* they held.
HoldsOn(B, R, I, B2) == \A j \in I : \A w \in Leaves :
  PtrIn(B, R[j], w) # 0 => B2[PtrIn(B, R[j], w)] = B[PtrIn(B, R[j], w)]

LEMMA MakePhSame ==
  ASSUME NEW R, NEW I, NEW i \in I, NEW d \in DiskRec, ~d.new, ~d.full, R[i] = d.n,
         Sound(d.marks, d.blk, R, I), NEW l \in Logical, NEW e, e = MakePh(d, l), ~e.full
  PROVE  HoldsOn(d.blk, R, I, e.blk)
<1> DEFINE R2 == With(R, i, e)
<1>1. Good(d, R, I, i) /\ Eff(d) = d.blk
  BY GoodDisk DEF Eff
<1>2. Leads(d, e, R, I, i, Path(l), W(l)) /\ Touched(d, e)
  BY <1>1, MakePhStep, MakePhTouched
<1>3. /\ Good(e, R2, I, i)
      /\ \A j \in I : \A v \in Ways :
           \/ PtrIn(Eff(e), R2[j], v) = PtrIn(d.blk, R[j], v)
           \/ j = i /\ v \in Path(l) /\ PtrIn(d.blk, R[j], v) = 0
  BY <1>1, <1>2 DEF Leads
<1>4. R2[i] = e.n /\ Distinct(Eff(e), R2, I) /\ Within(d.blk, R, I, d.marks) /\ d.marks \subseteq Blocks
  BY <1>3 DEF Good, Sound
<1> HIDE DEF R2
<1> SUFFICES ASSUME NEW j \in I, NEW w \in Leaves, PtrIn(d.blk, R[j], w) # 0
             PROVE  e.blk[PtrIn(d.blk, R[j], w)] = d.blk[PtrIn(d.blk, R[j], w)]
  BY DEF HoldsOn
<1> DEFINE k == PtrIn(d.blk, R[j], w)
<1>5. w \in Ways /\ w \notin Inner /\ k \in Blocks /\ k # 0
  BY <1>4 DEF Leaves, Within
<1>6. PtrIn(Eff(e), R2[j], w) = k
  BY <1>3, <1>5
<1>7. \A v \in Inner : v \in Ways
  BY KidWays
<1> HIDE DEF k
<1>8. \A v \in Inner : k # PtrIn(Eff(e), e.n, v)
  BY <1>4, <1>5, <1>6, <1>7 DEF Distinct
<1>9. e.blk[k] = d.blk[k]
  BY <1>2, <1>5, <1>8 DEF Touched
<1> QED
  BY <1>9 DEF k

LEMMA LogReadSame ==
  ASSUME NEW R, NEW I, NEW i \in I, NEW d \in DiskRec, ~d.new, ~d.full, R[i] = d.n,
         Sound(d.marks, d.blk, R, I), NEW l \in Logical, NEW e, e = LogRead(d, l), ~e.full
  PROVE  HoldsOn(d.blk, R, I, e.blk) /\ e.ph = PtrIn(e.blk, e.n, W(l))
<1> DEFINE f == MakePh(d, l)
<1>1. ~f.full
  BY DEF LogRead
<1>2. f \in DiskRec
  BY <1>1, MakePhGets
<1>3. e.blk = f.blk
  BY <1>1, <1>2 DEF LogRead, DiskRec
<1> HIDE DEF f
<1>4. HoldsOn(d.blk, R, I, f.blk)
  BY <1>1, MakePhSame DEF f
<1>5. Gets(d.marks, d.blk, R, I, i, l, e)
  BY LogReadGets
<1> QED
  BY <1>3, <1>4, <1>5 DEF Gets


\* The block that a step of a call has read, with nothing of the files changed.
Loads(l) == HoldsOn(blk, Recs, taken, blk') /\ b' = blk'[PtrIn(blk', n', W(l))]

LEMMA WriteCallLoads ==
  ASSUME Structure, NEW i \in Inodes, NEW size \in WriteSizes, WriteCall(i, size), ~Full
  PROVE  Loads(ino[i].blocks)
<1> DEFINE d == [Now EXCEPT !.n = ino[i]]
           l == ino[i].blocks
           e == LogRead(d, l)
<1>1. i \in taken /\ ~Working /\ ~Started /\ ~e.full /\ Reads(e)
  BY IdleCall DEF WriteCall, Begin, Working, Started
<1>2. ino[i] \in InodeRec /\ l \in Logical
  BY FilesLogical, StructureFacts DEF InodeRec
<1>3. /\ d \in DiskRec /\ ~d.new /\ ~d.full /\ d.n = ino[i] /\ d.marks = marks /\ d.blk = blk
  BY <1>2, NowDisk
<1>4. Recs[i] = ino[i] /\ Sound(marks, blk, Recs, taken)
  BY <1>1, StructureFacts
<1> HIDE DEF d, l
<1>5. HoldsOn(blk, Recs, taken, e.blk) /\ e.ph = PtrIn(e.blk, e.n, W(l))
  BY <1>1, <1>2, <1>3, <1>4, LogReadSame
<1> QED
  BY <1>1, <1>5 DEF Reads, Loads, l

LEMMA ReadCallLoads ==
  ASSUME Structure, NEW i \in Inodes, NEW from \in 0 .. MaxLen, NEW size \in ReadSizes,
         ReadCall(i, from, size), call'.op = "read"
  PROVE  Loads(from \div Cells)
<1> DEFINE l == from \div Cells
           d == [Now EXCEPT !.n = ino[i]]
           e == LogRead(d, l)
<1>0. l \in Nat /\ from % Cells \in 0 .. Cells - 1 /\ Start(l) + (from % Cells) = from
  BY FromIs
<1>1. l \in Logical
  <2>1. Start(l) + (from % Cells) < Most /\ from % Cells \in Nat
    BY <1>0, MostIs, CellSizes
  <2> QED
    BY <1>0, <2>1, InLogical
<1>2. i \in taken /\ call.op = "none" /\ ~Working /\ ~Started
  BY IdleCall DEF ReadCall, Begin, Working, Started
<1>3. ~e.full /\ Reads(e)
  BY <1>2 DEF ReadCall, Full, Idle
<1>4. /\ ino[i] \in InodeRec
      /\ d \in DiskRec /\ ~d.new /\ ~d.full /\ d.n = ino[i] /\ d.marks = marks /\ d.blk = blk
  BY FilesLogical, NowDisk
<1>5. Recs[i] = ino[i] /\ Sound(marks, blk, Recs, taken)
  BY <1>2, StructureFacts
<1> HIDE DEF d, l
<1>6. HoldsOn(blk, Recs, taken, e.blk) /\ e.ph = PtrIn(e.blk, e.n, W(l))
  BY <1>1, <1>2, <1>3, <1>4, <1>5, LogReadSame
<1> QED
  BY <1>3, <1>6 DEF Reads, Loads, l

LEMMA ReadByteLoads ==
  ASSUME Structure, ReadByte, call'.op = "read", call.at = Cells - 1
  PROVE  Loads(call.l + 1)
<1> DEFINE e == LogRead(Now, call.l + 1)
           i == call.ino
<1>1. call.op = "read" /\ call.left > 0 /\ ~e.full /\ Reads(e)
  BY DEF ReadByte, ReadReturns, Full, Idle
<1>2. i \in taken /\ Recs[i] = n /\ Sound(marks, blk, Recs, taken)
  BY <1>1, StructureFacts DEF Working, Started
<1>3. call.l + 1 \in Logical
  BY <1>1, CallFacts
<1>4. /\ Now \in DiskRec /\ Now.n = n /\ ~Now.new /\ ~Now.full /\ Now.marks = marks /\ Now.blk = blk
  BY NowDisk, StructureFacts
<1>5. HoldsOn(blk, Recs, taken, e.blk) /\ e.ph = PtrIn(e.blk, e.n, W(call.l + 1))
  BY <1>1, <1>2, <1>3, <1>4, LogReadSame
<1> QED
  BY <1>1, <1>5 DEF Reads, Loads

\* A block that is full is written before the next is read.
LEMMA WriteByteLoads ==
  ASSUME Structure, WriteByte, ~Full, call.at = Cells - 1,
         NEW data, data = [b EXCEPT ![call.at] = Byte(call.ino, Size(call.ino) + Len(call.got))]
  PROVE  /\ \A j \in taken : \A w \in Leaves : LET k == PtrIn(blk, Recs[j], w) IN
              k # 0 => blk'[k] = IF j = call.ino /\ w = W(call.l) THEN data ELSE blk[k]
         /\ b' = blk'[PtrIn(blk', n', W(call.l + 1))]
<1> DEFINE d == LogWrite(Now, call.l, data)
           e == LogRead(d, call.l + 1)
           i == call.ino
           p == PtrIn(blk, n, W(call.l))
<1>1. call.op = "write" /\ call.left > 0 /\ ~e.full /\ Reads(e)
  BY DEF WriteByte
<1>2. /\ i \in taken /\ i \in Inodes /\ Recs[i] = n /\ Sound(marks, blk, Recs, taken) /\ p # 0
  <2>1. Working /\ ~Started
    BY <1>1 DEF Working, Started
  <2>2. PtrIn(blk, n, W(call.l)) # 0
    BY <1>1, CallFacts DEF Structure, FilledW, Filled
  <2> QED
    BY <2>1, <2>2, StructureFacts
<1>3. data \in [Cell -> Nat]
  <2>1. Byte(call.ino, Size(call.ino) + Len(call.got)) \in Nat
    BY WriteByteStep
  <2> QED
    BY <2>1, CallFacts, Begins
<1>4. call.l \in Logical /\ call.l + 1 \in Logical
  BY <1>1, CallFacts
<1>5. /\ Now \in DiskRec /\ Now.n = n /\ ~Now.new /\ ~Now.full /\ Now.marks = marks /\ Now.blk = blk
  BY NowDisk, StructureFacts
<1> HIDE DEF i
<1>6. Wrote(Now, d, Recs, taken, call.l, data)
  BY <1>2, <1>3, <1>4, <1>5, LogWriteFound
<1> HIDE DEF d, e
<1>7. /\ d \in DiskRec /\ ~d.new /\ ~d.full /\ d.n = n /\ d.marks = marks
      /\ Sound(marks, d.blk, Recs, taken) /\ d.blk = [blk EXCEPT ![p] = data]
      /\ \A j \in taken : \A v \in Ways : PtrIn(d.blk, Recs[j], v) = PtrIn(blk, Recs[j], v)
  BY <1>5, <1>6 DEF Wrote
<1>8. HoldsOn(d.blk, Recs, taken, e.blk) /\ e.ph = PtrIn(e.blk, e.n, W(call.l + 1))
  BY <1>1, <1>2, <1>4, <1>7, LogReadSame DEF e
<1>9. W(call.l) \in Leaves /\ \A w \in Leaves : w \in Ways
  BY <1>4, WayOfBlock DEF Leaves
<1>10. /\ marks \subseteq Blocks /\ Distinct(blk, Recs, taken) /\ Within(blk, Recs, taken, marks)
       /\ blk \in [Blocks -> [Cell -> Nat]]
  BY <1>2 DEF Sound
<1>11. ASSUME NEW j \in taken, NEW w \in Leaves, PtrIn(blk, Recs[j], w) # 0
       PROVE  LET k == PtrIn(blk, Recs[j], w) IN
              blk'[k] = IF j = i /\ w = W(call.l) THEN data ELSE blk[k]
  <2> DEFINE k == PtrIn(blk, Recs[j], w)
  <2>1. k \in Blocks /\ k = PtrIn(d.blk, Recs[j], w)
    BY <1>7, <1>9, <1>10, <1>11 DEF Within
  <2>2. e.blk[k] = d.blk[k]
    BY <1>8, <1>11, <2>1 DEF HoldsOn
  <2>3. k = p <=> j = i /\ w = W(call.l)
    BY <1>2, <1>9, <1>10, <1>11 DEF Distinct
  <2> HIDE DEF k, p
  <2>4. d.blk[k] = IF k = p THEN data ELSE blk[k]
    BY <1>7, <1>10, <2>1
  <2>5. blk' = e.blk
    BY <1>1 DEF Reads
  <2> QED
    BY <2>2, <2>3, <2>4, <2>5 DEF k
<1>12. b' = blk'[PtrIn(blk', n', W(call.l + 1))]
  BY <1>1, <1>8 DEF Reads
<1> QED
  BY <1>11, <1>12 DEF i

LEMMA RmBlockLoads ==
  ASSUME Structure, RmBlock
  PROVE  HoldsOn(blk, Recs, taken, blk')
<1> DEFINE i == call.ino
           m == call.l - 1
           e == MakePh(Now, m)
<1>1. /\ call.op = "rm" /\ m \in Logical /\ i \in taken /\ Recs[i] = n
      /\ IF e.full THEN Full ELSE blk' = e.blk
  BY RmBlockStep, StructureFacts DEF RmBlock, Working
<1>2. CASE blk' = blk
  BY <1>2 DEF HoldsOn
<1>3. CASE blk' # blk
  <2>1. ~e.full /\ blk' = e.blk
    BY <1>1, <1>3 DEF Full
  <2>2. ~Frees(m) /\ ~Stops
    BY <1>3 DEF Frees, Stops
  <2>3. PICK M : FreesNew(M)
    BY <2>2, RmBlockStep
  <2>4. ~Started
    <3>1. call.l = 1 /\ ino[i].blocks = 0 /\ n.blocks = 0
      BY <2>2, <2>3, RmBlockStep DEF FreesNew
    <3> QED
      BY <3>1 DEF Started
  <2>5. Sound(marks, blk, Recs, taken)
    BY <2>4, StructureFacts
  <2>6. /\ Now \in DiskRec /\ Now.n = n /\ ~Now.new /\ ~Now.full /\ Now.marks = marks /\ Now.blk = blk
    BY NowDisk, StructureFacts
  <2> QED
    BY <1>1, <2>1, <2>5, <2>6, MakePhSame
<1> QED
  BY <1>2, <1>3


(***************************************************************************)
(* The bytes of a file.                                                     *)
(***************************************************************************)
ByteOf(B, rec, p) == B[PtrIn(B, rec, W(p \div Cells))][p % Cells]

LEMMA BytePlace ==
  ASSUME NEW p \in Nat
  PROVE  /\ p \div Cells \in Nat /\ p % Cells \in Cell /\ p % Cells \in Nat
         /\ Start(p \div Cells) \in Nat /\ p = Start(p \div Cells) + (p % Cells)
<1>1. /\ p \div Cells \in Nat /\ p % Cells \in 0 .. Cells - 1
      /\ p = (p \div Cells) * Cells + (p % Cells)
  BY CellSizes, QuotRem
<1> QED
  BY <1>1, CellSizes, CellsTimes DEF Start, Cell

LEMMA StartGrows ==
  ASSUME NEW l \in Nat, NEW m \in Nat, l < m
  PROVE  Start(l) + Cells <= Start(m)
<1>1. PICK d \in Nat : m = l + 1 + d
  <2>1. m - l - 1 \in Nat
    OBVIOUS
  <2> QED
    BY <2>1
<1>2. (l + 1 + d) * Cells = l * Cells + Cells + d * Cells /\ d * Cells \in Nat /\ l * Cells \in Nat
  BY CellSizes, Z3
<1> QED
  BY <1>1, <1>2, CellSizes DEF Start

\* The bytes before a place are in blocks before its block, or before it in that.
LEMMA BytesBefore ==
  ASSUME NEW l \in Nat, NEW at \in Cell, NEW p \in Nat
  PROVE  /\ p < Start(l) + at => /\ p \div Cells <= l
                                 /\ p \div Cells = l => p % Cells < at
         /\ p = Start(l) + at => p \div Cells = l /\ p % Cells = at
<1> DEFINE q == p \div Cells
           r == p % Cells
<1>1. q \in Nat /\ r \in Nat /\ r < Cells /\ Start(q) \in Nat /\ p = Start(q) + r /\ r \in Cell
  BY BytePlace, CellSizes DEF Cell
<1>2. at \in Nat /\ at < Cells /\ Start(l) \in Nat /\ Cells \in Nat
  BY CellSizes, CellsTimes DEF Cell
<1>3. /\ l < q => Start(l) + Cells <= Start(q)
      /\ q < l => Start(q) + Cells <= Start(l)
  BY <1>1, StartGrows
<1> HIDE DEF q, r
<1>4. p < Start(l) + at => q <= l
  BY <1>1, <1>2, <1>3
<1>5. p < Start(l) + at /\ q = l => r < at
  BY <1>1, <1>2
<1>6. p = Start(l) + at => q = l /\ r = at
  BY <1>1, <1>2, <1>3
<1> QED
  BY <1>4, <1>5, <1>6 DEF q, r

\* The block of each byte is in place, for a call that works on the file too.
InPlace == \A i \in taken : \A p \in 0 .. Size(i) - 1 :
  /\ p \in Nat /\ p \div Cells \in Logical /\ W(p \div Cells) \in Leaves
  /\ W(p \div Cells) \in Ways /\ p % Cells \in Cell
  /\ PtrIn(blk, ino[i], W(p \div Cells)) # 0
  /\ PtrIn(blk, Recs[i], W(p \div Cells)) = PtrIn(blk, ino[i], W(p \div Cells))
  /\ ~Started => PtrIn(blk, ino[i], W(p \div Cells)) \in Blocks

LEMMA FilesInPlace == Structure => InPlace
<1> SUFFICES ASSUME Structure, NEW i \in taken, NEW p \in 0 .. Size(i) - 1
             PROVE  /\ p \in Nat /\ p \div Cells \in Logical /\ W(p \div Cells) \in Leaves
                    /\ W(p \div Cells) \in Ways /\ p % Cells \in Cell
                    /\ PtrIn(blk, ino[i], W(p \div Cells)) # 0
                    /\ PtrIn(blk, Recs[i], W(p \div Cells)) = PtrIn(blk, ino[i], W(p \div Cells))
                    /\ ~Started => PtrIn(blk, ino[i], W(p \div Cells)) \in Blocks
  BY DEF InPlace
<1> DEFINE l == p \div Cells
<1>1. i \in Inodes
  BY StructureFacts
<1>2. /\ ino[i].blocks \in Nat /\ ino[i].lwo \in Cell /\ Size(i) \in Nat
      /\ Size(i) = Start(ino[i].blocks) + ino[i].lwo
      /\ \A m \in 0 .. ino[i].blocks : m \in Logical /\ W(m) \in Ways
  BY <1>1, FilesLogical
<1>3. p \in Nat /\ p < Size(i)
  BY <1>2
<1>4. l \in Nat /\ l <= ino[i].blocks /\ p % Cells \in Cell
  <2>1. p < Start(ino[i].blocks) + ino[i].lwo
    BY <1>2, <1>3
  <2>2. l <= ino[i].blocks
    BY <1>2, <1>3, <2>1, BytesBefore, Zenon
  <2>3. l \in Nat /\ p % Cells \in Cell
    BY <1>3, BytePlace
  <2> QED
    BY <2>2, <2>3
<1>5. IsWritten(ino[i])
  <2>1. SUFFICES ASSUME ino[i].blocks = 0, ino[i].lwo = 0 PROVE FALSE
    BY <1>2, CellSizes DEF IsWritten, Cell
  <2> QED
    BY <1>2, <1>3, <2>1, MostIs
<1> HIDE DEF l
<1>6. l \in Logical /\ W(l) \in Leaves /\ W(l) \in Ways /\ PtrIn(blk, ino[i], W(l)) # 0
  <2>1. PtrIn(blk, ino[i], W(l)) # 0
    BY <1>4, <1>5 DEF Structure, FilledI, Filled
  <2> QED
    BY <1>2, <1>4, <2>1, WayOfBlock
<1>7. PtrIn(blk, Recs[i], W(l)) = PtrIn(blk, ino[i], W(l))
  <2>1. PartOf(ino[i], Recs[i])
    BY StructureFacts DEF PartOf
  <2> QED
    BY <1>6, <2>1, PartLeads
<1>8. ~Started => PtrIn(blk, ino[i], W(l)) \in Blocks
  BY <1>6, <1>7, StructureFacts DEF Sound, Within
<1> QED
  BY <1>3, <1>4, <1>6, <1>7, <1>8 DEF l

LEMMA FilesInPlaceNext == Structure' => InPlace'
  BY FilesInPlace, PTL

ContentsAre ==
  Contents = [i \in Inodes |-> IF i \notin taken THEN <<>>
                               ELSE [p \in 1 .. Size(i) |-> ByteOf(blk, ino[i], p - 1)]]

LEMMA ContentsBytes == ContentsAre
  BY PtrIsIn DEF ContentsAre, Contents, PhOf, ByteOf

LEMMA ContentsBytesNext == ContentsAre'
  BY ContentsBytes, PTL

\* Nothing of the files changes with the blocks that hold what they held.
SameBytes == \A i \in taken : \A p \in 0 .. Size(i) - 1 : ByteOf(blk', ino[i], p) = ByteOf(blk, ino[i], p)

LEMMA SameContents ==
  ASSUME Structure, SameBytes, taken' = taken, ino' = ino
  PROVE  Contents' = Contents
<1>1. \A i \in Inodes : Size(i)' = Size(i) /\ Size(i) \in Nat
  BY FilesLogical DEF Size
<1>2. ASSUME NEW i \in taken
      PROVE  [p \in 1 .. Size(i) |-> ByteOf(blk', ino[i], p - 1)]
               = [p \in 1 .. Size(i) |-> ByteOf(blk, ino[i], p - 1)]
  <2>1. i \in Inodes
    BY StructureFacts
  <2>2. \A p \in 1 .. Size(i) : p - 1 \in 0 .. Size(i) - 1
    BY <1>1, <2>1
  <2> QED
    BY <2>2 DEF SameBytes
<1>3. Contents' = [i \in Inodes |-> IF i \notin taken THEN <<>>
                   ELSE [p \in 1 .. Size(i) |-> ByteOf(blk', ino[i], p - 1)]]
  BY <1>1, ContentsBytesNext DEF ContentsAre
<1>4. Contents = [i \in Inodes |-> IF i \notin taken THEN <<>>
                   ELSE [p \in 1 .. Size(i) |-> ByteOf(blk, ino[i], p - 1)]]
  BY ContentsBytes DEF ContentsAre
<1> QED
  BY <1>2, <1>3, <1>4

LEMMA KeptBytes ==
  ASSUME Structure, KeptOnDisk, HoldsOn(blk, Recs, taken, blk')
  PROVE  SameBytes
<1> SUFFICES ASSUME NEW i \in taken, NEW p \in 0 .. Size(i) - 1
             PROVE  ByteOf(blk', ino[i], p) = ByteOf(blk, ino[i], p)
  BY DEF SameBytes
<1> DEFINE w == W(p \div Cells)
<1>1. /\ w \in Leaves /\ w \in Ways /\ PtrIn(blk, ino[i], w) # 0
      /\ PtrIn(blk, Recs[i], w) = PtrIn(blk, ino[i], w)
  BY FilesInPlace DEF InPlace
<1> HIDE DEF w
<1>2. PtrIn(blk', ino[i], w) = PtrIn(blk, ino[i], w)
  BY <1>1 DEF KeptOnDisk, Keeps
<1>3. blk'[PtrIn(blk, ino[i], w)] = blk[PtrIn(blk, ino[i], w)]
  BY <1>1 DEF HoldsOn
<1> QED
  BY <1>2, <1>3 DEF ByteOf, w


\* What is in place of a byte while a write goes on, and what it should be: the
\* file's own bytes, then those of the call.
Typed(p) == IF p \div Cells = call.l THEN b[p % Cells] ELSE ByteOf(blk, n, p)
Meant(p) == IF p < Size(call.ino) THEN ByteOf(blk, ino[call.ino], p)
            ELSE call.got[p - Size(call.ino) + 1]
WriteData == call.op = "write" => \A p \in 0 .. Position - 1 : Typed(p) = Meant(p)

\* What a read has got is what the file has there, as far as the file goes.  A
\* file whose last block is not empty is never read past its end.
ReadData == call.op = "read" =>
  /\ b = blk[PtrIn(blk, n, W(call.l))]
  /\ call.from <= Size(call.ino)
  /\ ino[call.ino].lwo > 0 => Position < Size(call.ino)
  /\ \A k \in 1 .. Len(call.got) : call.from + k <= Size(call.ino) =>
       call.got[k] = ByteOf(blk, ino[call.ino], call.from + k - 1)

WorkBytes == Working => \A p \in 0 .. Size(call.ino) - 1 :
  ByteOf(blk, n, p) = ByteOf(blk, ino[call.ino], p)

LEMMA CallBytes == Structure => WorkBytes
<1> SUFFICES ASSUME Structure, Working, NEW p \in 0 .. Size(call.ino) - 1
             PROVE  ByteOf(blk, n, p) = ByteOf(blk, ino[call.ino], p)
  BY DEF WorkBytes
<1>1. call.ino \in taken /\ Recs[call.ino] = n
  BY StructureFacts
<1>2. PtrIn(blk, n, W(p \div Cells)) = PtrIn(blk, ino[call.ino], W(p \div Cells))
  BY <1>1, FilesInPlace DEF InPlace
<1> QED
  BY <1>2 DEF ByteOf

LEMMA CallBytesNext == Structure' => WorkBytes'
  BY CallBytes, PTL

\* Nothing of Files changes.
Stutters == Contents' = Contents /\ result' = result

LEMMA OtherCall ==
  ASSUME call'.op \notin {"write", "read"}
  PROVE  WriteData' /\ ReadData'
  BY DEF WriteData, ReadData

LEMMA NothingWritten ==
  ASSUME Structure, UNCHANGED <<taken, ino, blk>>
  PROVE  Contents' = Contents
<1>1. SameBytes
  BY DEF SameBytes
<1> QED
  BY <1>1, SameContents

LEMMA FullOp == ASSUME Full PROVE call'.op = "full" /\ UNCHANGED <<marks, blk, n, b>>
  BY DEF Full, Idle

LEMMA CreateStutters ==
  ASSUME Structure, NEW i \in Inodes, Create(i)
  PROVE  WriteData' /\ ReadData' /\ Stutters
<1>1. /\ i \notin taken /\ taken' = taken \union {i} /\ ino' = [ino EXCEPT ![i] = NoInode]
      /\ blk' = blk /\ call' = call /\ call.op = "none" /\ result' = result
  BY IdleCall DEF Create, Begin
<1>2. taken \subseteq Inodes /\ ino \in [Inodes -> InodeRec]
  BY StructureFacts
<1>3. /\ ino'[i] = NoInode /\ Size(i)' = 0
      /\ \A j \in Inodes : j # i => ino'[j] = ino[j] /\ Size(j)' = Size(j)
  <2>1. 0 * Cells = 0
    BY CellSizes, Z3
  <2> QED
    BY <1>1, <1>2, <2>1 DEF Size, NoInode
<1>4. ASSUME NEW f(_), NEW m, m = 0 PROVE [p \in 1 .. m |-> f(p)] = <<>>
  BY <1>4
<1>5. Contents' = Contents
  <2>1. Contents' = [j \in Inodes |-> IF j \notin taken' THEN <<>>
                     ELSE [p \in 1 .. Size(j)' |-> ByteOf(blk', ino'[j], p - 1)]]
    BY ContentsBytesNext DEF ContentsAre
  <2>2. Contents = [j \in Inodes |-> IF j \notin taken THEN <<>>
                     ELSE [p \in 1 .. Size(j) |-> ByteOf(blk, ino[j], p - 1)]]
    BY ContentsBytes DEF ContentsAre
  <2>3. ASSUME NEW j \in Inodes PROVE Contents'[j] = Contents[j]
    <3>1. CASE j # i
      <4>1. j \in taken' <=> j \in taken
        BY <1>1, <3>1
      <4>2. [p \in 1 .. Size(j)' |-> ByteOf(blk', ino'[j], p - 1)]
              = [p \in 1 .. Size(j) |-> ByteOf(blk, ino[j], p - 1)]
        BY <1>1, <1>3, <3>1
      <4> QED
        BY <2>1, <2>2, <4>1, <4>2
    <3>2. CASE j = i
      <4>1. Contents'[i] = [p \in 1 .. Size(i)' |-> ByteOf(blk', ino'[i], p - 1)]
        BY <1>1, <2>1
      <4>2. [p \in 1 .. Size(i)' |-> ByteOf(blk', ino'[i], p - 1)] = <<>>
        BY <1>3
      <4> QED
        BY <1>1, <2>2, <3>2, <4>1, <4>2
    <3> QED
      BY <3>1, <3>2
  <2> QED
    BY <2>1, <2>2, <2>3
<1> QED
  BY <1>1, <1>5, OtherCall DEF Stutters

LEMMA RmCallStutters ==
  ASSUME Structure, NEW i \in Inodes, RmCall(i)
  PROVE  WriteData' /\ ReadData' /\ Stutters
<1>1. UNCHANGED <<taken, ino, blk, result>> /\ call'.op = "rm"
  BY DEF RmCall, Idle
<1> QED
  BY <1>1, NothingWritten, OtherCall DEF Stutters

LEMMA RmBlockStutters ==
  ASSUME Structure, RmBlock
  PROVE  WriteData' /\ ReadData' /\ Stutters
<1>1. UNCHANGED <<taken, ino, result>>
  BY DEF RmBlock
<1>2. call'.op \in {"rm", "full"}
  BY FullOp, StructureFacts DEF RmBlock, CallRec
<1>3. KeptOnDisk
  BY RmBlockStep, GrewKept, SameKept DEF Stops, Frees, FreesNew
<1>4. SameBytes
  BY <1>3, RmBlockLoads, KeptBytes
<1> QED
  BY <1>1, <1>2, <1>4, SameContents, OtherCall DEF Stutters

LEMMA RmEndsRemoves ==
  ASSUME Structure, RmEnds
  PROVE  WriteData' /\ ReadData' /\ \E i \in Inodes : F!Remove(i)
<1> DEFINE i == call.ino
<1>1. /\ call.op = "rm" /\ taken' = taken \ {i} /\ call' = Idle /\ UNCHANGED <<ino, blk>>
      /\ result' = [NoResult EXCEPT !.op = "rm", !.ino = i]
  BY DEF RmEnds
<1>2. i \in taken /\ i \in Inodes
  BY <1>1, StructureFacts DEF Working
<1>3. result'.op = "rm" /\ result'.ino = i
  BY <1>1 DEF NoResult
<1>4. Contents' = [Contents EXCEPT ![i] = <<>>]
  <2>1. Contents' = [j \in Inodes |-> IF j \notin taken' THEN <<>>
                     ELSE [p \in 1 .. Size(j)' |-> ByteOf(blk', ino'[j], p - 1)]]
    BY ContentsBytesNext DEF ContentsAre
  <2>2. Contents = [j \in Inodes |-> IF j \notin taken THEN <<>>
                     ELSE [p \in 1 .. Size(j) |-> ByteOf(blk, ino[j], p - 1)]]
    BY ContentsBytes DEF ContentsAre
  <2>3. \A j \in Inodes : Size(j)' = Size(j)
    BY <1>1 DEF Size
  <2>4. \A j \in Inodes : Contents'[j] = IF j = i THEN <<>> ELSE Contents[j]
    BY <1>1, <2>1, <2>2, <2>3
  <2> QED
    BY <1>2, <2>1, <2>2, <2>4
<1>5. F!Remove(i)
  BY <1>3, <1>4 DEF F!Remove
<1> QED
  BY <1>1, <1>2, <1>5, OtherCall, IdleCall


LEMMA WriteCallStutters ==
  ASSUME Structure, Structure', NEW i \in Inodes, NEW size \in WriteSizes, WriteCall(i, size)
  PROVE  WriteData' /\ ReadData' /\ Stutters
<1>1. UNCHANGED <<taken, ino, result>> /\ call = Idle /\ ~Working
  BY IdleCall DEF WriteCall, Begin, Working
<1>2. CASE Full
  BY <1>1, <1>2, FullOp, NothingWritten, OtherCall DEF Stutters
<1>3. CASE ~Full
  <2> DEFINE l == ino[i].blocks
  <2>1. call' = [Idle EXCEPT !.op = "write", !.ino = i, !.left = size,
                             !.l = ino[i].blocks, !.at = ino[i].lwo]
    BY <1>3 DEF WriteCall
  <2>2. /\ call'.op = "write" /\ call'.ino = i /\ call'.l = l /\ call'.at = ino[i].lwo
    BY <2>1 DEF Idle
  <2>3. Grew(marks', i, l)
    <3>1. ~Stops
      BY <2>2, IdleCall DEF Stops, Idle
    <3> QED
      BY <3>1, WriteCallStep
  <2>4. Loads(l)
    BY <1>3, WriteCallLoads
  <2>5. Contents' = Contents
    <3>1. SameBytes
      BY <2>3, <2>4, GrewKept, KeptBytes DEF Loads
    <3> QED
      BY <1>1, <3>1, SameContents
  <2>6. /\ Size(i)' = Size(i) /\ Size(i) \in Nat /\ Size(i) = Start(l) + ino[i].lwo
        /\ l \in Nat /\ ino[i].lwo \in Cell
    BY <1>1, FilesLogical DEF Size
  <2>7. Position' = Size(i)
    BY <2>2, <2>6 DEF Position
  <2>8. WriteData'
    <3> SUFFICES ASSUME NEW p \in 0 .. Size(i) - 1
                 PROVE  Typed(p)' = Meant(p)'
      BY <2>7 DEF WriteData
    <3>1. Meant(p)' = ByteOf(blk', ino'[i], p)
      BY <2>2, <2>6 DEF Meant
    <3>2. ByteOf(blk', n', p) = ByteOf(blk', ino'[i], p)
      <4>1. Working'
        BY <2>2 DEF Working
      <4> QED
        BY <2>2, <2>6, <4>1, CallBytesNext DEF WorkBytes
    <3>3. p \div Cells = l => b'[p % Cells] = ByteOf(blk', n', p)
      BY <2>4 DEF Loads, ByteOf
    <3> QED
      BY <2>2, <3>1, <3>2, <3>3 DEF Typed
  <2>9. ReadData'
    BY <2>2 DEF ReadData
  <2> QED
    BY <1>1, <2>5, <2>8, <2>9 DEF Stutters
<1> QED
  BY <1>2, <1>3

\* A byte goes to the place after those that were written.
LEMMA WriteByteCall ==
  ASSUME Structure, WriteByte, ~Full,
         NEW byte, byte = Byte(call.ino, Size(call.ino) + Len(call.got))
  PROVE  /\ call.op = "write" /\ call'.op = "write" /\ call'.ino = call.ino
         /\ call.ino \in taken /\ call.ino \in Inodes
         /\ call'.got = Append(call.got, byte) /\ call.got \in Seq(Nat)
         /\ Position' = Position + 1 /\ Position \in Nat /\ Position = Start(call.l) + call.at
         /\ Position = Size(call.ino) + Len(call.got)
         /\ call.l \in Nat /\ call.at \in Cell /\ UNCHANGED <<taken, ino, result>>
         /\ call.at # Cells - 1 => /\ b' = [b EXCEPT ![call.at] = byte]
                                   /\ call'.l = call.l /\ UNCHANGED <<marks, blk, n>>
         /\ call.at = Cells - 1 => call'.l = call.l + 1
<1> DEFINE c == [call EXCEPT !.left = @ - 1, !.got = Append(@, byte)]
<1>1. /\ call.op = "write" /\ call.left > 0 /\ UNCHANGED <<taken, ino, result>>
      /\ call.at # Cells - 1 => /\ b' = [b EXCEPT ![call.at] = byte]
                                /\ call' = [c EXCEPT !.at = @ + 1] /\ UNCHANGED <<marks, blk, n>>
      /\ call.at = Cells - 1 => call' = [c EXCEPT !.l = @ + 1, !.at = 0]
  BY DEF WriteByte
<1>2. call \in CallRec /\ call.ino \in taken /\ call.ino \in Inodes
  BY <1>1, StructureFacts DEF Working
<1>3. /\ call.l \in Nat /\ call.at \in Cell /\ call.got \in Seq(Nat) /\ Position \in Nat
      /\ Start(call.l) \in Nat /\ Start(call.l + 1) = Start(call.l) + Cells
  BY CallFacts
<1>4. Position = Size(call.ino) + Len(call.got)
  BY <1>1 DEF Structure, Bounded
<1>5. /\ call'.op = "write" /\ call'.ino = call.ino /\ call'.got = Append(call.got, byte)
      /\ call.at # Cells - 1 => call'.l = call.l /\ call'.at = call.at + 1
      /\ call.at = Cells - 1 => call'.l = call.l + 1 /\ call'.at = 0
  BY <1>1, <1>2 DEF CallRec
<1>6. Position' = Position + 1
  BY <1>3, <1>5, CellSizes DEF Position, Cell
<1> QED
  BY <1>1, <1>2, <1>3, <1>4, <1>5, <1>6 DEF Position

LEMMA BytePut ==
  ASSUME Structure, WriteByte, ~Full,
         NEW byte, byte = Byte(call.ino, Size(call.ino) + Len(call.got)),
         NEW data, data = [b EXCEPT ![call.at] = byte], NEW p \in 0 .. Position
  PROVE  /\ p \in Nat /\ p \div Cells <= call.l /\ p \div Cells \in Nat
         /\ p = Position => p \div Cells = call.l
         /\ p \div Cells = call.l => data[p % Cells] = IF p = Position THEN byte ELSE b[p % Cells]
<1>1. Position \in Nat /\ Position = Start(call.l) + call.at /\ call.l \in Nat /\ call.at \in Cell
  BY WriteByteCall
<1>2. b \in [Cell -> Nat]
  BY Begins
<1>3. /\ p \in Nat
      /\ p < Position => p \div Cells <= call.l /\ (p \div Cells = call.l => p % Cells < call.at)
      /\ p = Position => p \div Cells = call.l /\ p % Cells = call.at
  BY <1>1, BytesBefore
<1>4. p % Cells \in Cell /\ p \div Cells \in Nat
  BY <1>3, BytePlace
<1>5. call.at \in Int
  BY <1>1, CellSizes DEF Cell
<1>6. data[p % Cells] = IF p % Cells = call.at THEN byte ELSE b[p % Cells]
  BY <1>2, <1>4
<1>7. p \div Cells = call.l => (p % Cells = call.at <=> p = Position)
  <2>1. p < Position \/ p = Position
    BY <1>1
  <2> QED
    BY <1>3, <1>5, <2>1
<1>8. p \div Cells <= call.l
  <2>1. p < Position \/ p = Position
    BY <1>1
  <2> QED
    BY <1>1, <1>3, <2>1
<1> QED
  BY <1>3, <1>4, <1>6, <1>7, <1>8

\* The byte that fills a block has it written: what the file had is still there, ...
LEMMA WriteByteFills ==
  ASSUME Structure, WriteData, WriteByte, ~Full, call.at = Cells - 1,
         NEW byte, byte = Byte(call.ino, Size(call.ino) + Len(call.got)),
         NEW data, data = [b EXCEPT ![call.at] = byte]
  PROVE  /\ SameBytes
         /\ \A p \in 0 .. Position : ByteOf(blk', n', p) =
              IF p \div Cells = call.l THEN data[p % Cells] ELSE ByteOf(blk, n, p)
<1> DEFINE i == call.ino
<1>1. /\ call.op = "write" /\ i \in taken /\ i \in Inodes /\ call'.op = "write"
      /\ Position = Size(i) + Len(call.got) /\ Position \in Nat /\ call.l \in Nat
  BY WriteByteCall
<1>2. Recs[i] = n /\ call.l \in Logical /\ Size(i) \in Nat /\ Len(call.got) \in Nat
  BY <1>1, StructureFacts, CallFacts, FilesLogical DEF Working
<1>3. \A j \in taken : \A w \in Leaves : LET k == PtrIn(blk, Recs[j], w) IN
        k # 0 => blk'[k] = IF j = i /\ w = W(call.l) THEN data ELSE blk[k]
  <2>1. data = [b EXCEPT ![call.at] = Byte(call.ino, Size(call.ino) + Len(call.got))]
    OBVIOUS
  <2> QED
    BY <2>1, WriteByteLoads
<1>4. Grew(marks', i, call.l + 1)
  BY WriteByteStep, <1>1 DEF Stops, Idle
<1>5. KeptOnDisk
  BY <1>4, GrewKept
<1>6. Recs'[i] = n'
  BY <1>4, GrewKeeps
<1> HIDE DEF i
<1>7. ASSUME NEW j \in taken, NEW p \in 0 .. Size(j) - 1
      PROVE  ByteOf(blk', ino[j], p) = ByteOf(blk, ino[j], p)
  <2> DEFINE w == W(p \div Cells)
             k == PtrIn(blk, ino[j], w)
  <2>1. /\ w \in Leaves /\ w \in Ways /\ k # 0 /\ p \div Cells \in Logical
        /\ PtrIn(blk, Recs[j], w) = k
    BY FilesInPlace DEF InPlace
  <2>2. PtrIn(blk', ino[j], w) = k
    BY <1>5, <2>1 DEF KeptOnDisk, Keeps
  <2>3. blk'[k] = IF j = i /\ w = W(call.l) THEN data ELSE blk[k]
    BY <1>3, <2>1
  <2>4. CASE ~(j = i /\ w = W(call.l))
    BY <2>2, <2>3, <2>4 DEF ByteOf
  <2>5. CASE j = i /\ w = W(call.l)
    <3>1. p \div Cells = call.l
      BY <1>2, <2>1, <2>5, WayUnique
    <3>2. p \in 0 .. Position /\ p # Position /\ p < Size(i) /\ p \in 0 .. Position - 1
      BY <1>1, <1>2, <2>5
    <3>3. data[p % Cells] = b[p % Cells]
      BY <3>1, <3>2, BytePut
    <3>4. b[p % Cells] = ByteOf(blk, ino[i], p)
      BY <1>1, <3>1, <3>2 DEF WriteData, Typed, Meant, i
    <3> QED
      BY <2>2, <2>3, <2>5, <3>3, <3>4 DEF ByteOf
  <2> QED
    BY <2>4, <2>5
<1>8. ASSUME NEW p \in 0 .. Position
      PROVE  ByteOf(blk', n', p) =
               IF p \div Cells = call.l THEN data[p % Cells] ELSE ByteOf(blk, n, p)
  <2> DEFINE l == p \div Cells
             w == W(l)
             k == PtrIn(blk, n, w)
  <2>1. l \in Nat /\ l <= call.l
    BY BytePut
  <2>2. l \in Logical /\ k # 0
    <3>1. l \in 0 .. call.l
      BY <1>1, <2>1
    <3>2. k # 0
      BY <1>1, <3>1 DEF Structure, FilledW, Filled
    <3>3. l \in Logical
      BY <1>2, <2>1, CellSizes DEF Logical
    <3> QED
      BY <3>2, <3>3
  <2>3. w \in Leaves /\ w \in Ways
    BY <2>2, WayOfBlock DEF Leaves
  <2>4. PtrIn(blk', n', w) = k
    <3>1. \/ PtrIn(blk', Recs'[i], w) = PtrIn(blk, Recs[i], w)
          \/ PtrIn(blk, Recs[i], w) = 0
      BY <1>1, <1>4, <2>3 DEF Grew
    <3> QED
      BY <1>2, <1>6, <2>2, <3>1
  <2>5. blk'[k] = IF w = W(call.l) THEN data ELSE blk[k]
    BY <1>1, <1>2, <1>3, <2>2, <2>3
  <2>6. w = W(call.l) <=> l = call.l
    BY <1>2, <2>2, WayUnique
  <2> QED
    BY <2>4, <2>5, <2>6 DEF ByteOf
<1>9. SameBytes
  BY <1>7 DEF SameBytes
<1> QED
  BY <1>8, <1>9

\* ... and what the call writes is in its place.
LEMMA WriteByteStutters ==
  ASSUME Structure, Structure', WriteData, WriteByte
  PROVE  WriteData' /\ ReadData' /\ Stutters
<1> DEFINE i == call.ino
           byte == Byte(call.ino, Size(call.ino) + Len(call.got))
           data == [b EXCEPT ![call.at] = byte]
<1>1. CASE Full
  BY <1>1, FullOp, NothingWritten, OtherCall DEF Stutters, WriteByte
<1>2. CASE ~Full
  <2>1. /\ call.op = "write" /\ call'.op = "write" /\ call'.ino = i /\ i \in taken /\ i \in Inodes
        /\ call'.got = Append(call.got, byte) /\ call.got \in Seq(Nat)
        /\ Position' = Position + 1 /\ Position \in Nat /\ Position = Start(call.l) + call.at
        /\ Position = Size(i) + Len(call.got)
        /\ call.l \in Nat /\ call.at \in Cell /\ UNCHANGED <<taken, ino, result>>
        /\ call.at # Cells - 1 => b' = data /\ call'.l = call.l /\ UNCHANGED <<marks, blk, n>>
        /\ call.at = Cells - 1 => call'.l = call.l + 1
    BY <1>2, WriteByteCall
  <2>2. byte \in Nat /\ Len(call.got) \in Nat
    BY WriteByteStep, CallFacts
  <2>3. Size(i) \in Nat /\ Size(call.ino)' = Size(i) /\ (ino[call.ino])' = ino[i]
    BY <2>1, FilesLogical DEF Size
  <2>4. ASSUME NEW p \in 0 .. Position
        PROVE  /\ p \in Nat /\ p \div Cells <= call.l /\ p \div Cells \in Nat
               /\ p = Position => p \div Cells = call.l
               /\ p \div Cells = call.l => data[p % Cells] = IF p = Position THEN byte ELSE b[p % Cells]
    BY <1>2, BytePut
  <2> HIDE DEF data
  <2>6. SameBytes /\ \A p \in 0 .. Position : Typed(p)' = IF p = Position THEN byte ELSE Typed(p)
    <3>1. CASE call.at # Cells - 1
      <4>1. SameBytes
        BY <2>1, <3>1 DEF SameBytes
      <4> QED
        BY <2>1, <2>4, <3>1, <4>1 DEF Typed
    <3>2. CASE call.at = Cells - 1
      <4>1. /\ SameBytes
            /\ \A p \in 0 .. Position : ByteOf(blk', n', p) =
                 IF p \div Cells = call.l THEN data[p % Cells] ELSE ByteOf(blk, n, p)
        BY <1>2, <3>2, WriteByteFills DEF data
      <4>2. \A p \in 0 .. Position : Typed(p)' = ByteOf(blk', n', p)
        <5>1. \A p \in 0 .. Position : p \div Cells # call'.l
          BY <2>1, <2>4, <3>2
        <5> QED
          BY <5>1 DEF Typed
      <4> QED
        BY <2>4, <4>1, <4>2 DEF Typed
    <3> QED
      BY <3>1, <3>2
  <2>7. Contents' = Contents
    BY <2>1, <2>6, SameContents
  <2> HIDE DEF byte
  <2>8. ASSUME NEW p \in 0 .. Position
        PROVE  Meant(p)' = IF p = Position THEN byte ELSE Meant(p)
    <3>1. CASE p < Size(i)
      <4>1. p \in 0 .. Size(i) - 1
        BY <2>3, <3>1, <2>1
      <4>2. Meant(p)' = ByteOf(blk', ino[i], p) /\ Meant(p) = ByteOf(blk, ino[i], p)
        BY <2>3, <3>1 DEF Meant
      <4>3. ByteOf(blk', ino[i], p) = ByteOf(blk, ino[i], p)
        BY <2>1, <2>6, <4>1 DEF SameBytes
      <4> QED
        BY <2>1, <2>2, <2>3, <3>1, <4>2, <4>3
    <3>2. CASE ~(p < Size(i))
      <4>1. /\ Meant(p)' = Append(call.got, byte)[p - Size(i) + 1]
            /\ Meant(p) = call.got[p - Size(i) + 1]
        BY <2>1, <2>3, <3>2 DEF Meant
      <4> HIDE DEF i
      <4>2. /\ p - Size(i) + 1 \in 1 .. Len(call.got) + 1
            /\ p = Position <=> p - Size(i) + 1 = Len(call.got) + 1
        BY <2>1, <2>2, <2>3, <3>2
      <4>3. \A k \in 1 .. Len(call.got) + 1 :
              Append(call.got, byte)[k] = IF k = Len(call.got) + 1 THEN byte ELSE call.got[k]
        BY <2>1, <2>2
      <4> QED
        BY <4>1, <4>2, <4>3
    <3> QED
      BY <3>1, <3>2
  <2>9. WriteData'
    <3>1. \A p \in 0 .. Position - 1 : Typed(p) = Meant(p)
      BY <2>1 DEF WriteData
    <3>2. ASSUME NEW p \in 0 .. Position PROVE Typed(p)' = Meant(p)'
      <4>1. p # Position => p \in 0 .. Position - 1
        BY <2>1
      <4> QED
        BY <2>6, <2>8, <3>1, <4>1
    <3>3. \A p \in 0 .. Position' - 1 : p \in 0 .. Position
      BY <2>1
    <3> QED
      BY <3>2, <3>3 DEF WriteData
  <2> QED
    BY <2>1, <2>7, <2>9 DEF Stutters, ReadData
<1> QED
  BY <1>1, <1>2


\* The contents of a file are a sequence of as many bytes as its size.
ContentsSeqs == ~Started => \A i \in taken :
  /\ Contents[i] \in Seq(Nat) /\ Len(Contents[i]) = Size(i) /\ Size(i) \in Nat
  /\ \A p \in 1 .. Size(i) : Contents[i][p] = ByteOf(blk, ino[i], p - 1)

LEMMA ContentsSeq == Structure => ContentsSeqs
<1> SUFFICES ASSUME Structure, ~Started, NEW i \in taken
             PROVE  /\ Contents[i] \in Seq(Nat) /\ Len(Contents[i]) = Size(i) /\ Size(i) \in Nat
                    /\ \A p \in 1 .. Size(i) : Contents[i][p] = ByteOf(blk, ino[i], p - 1)
  BY DEF ContentsSeqs
<1>1. i \in Inodes /\ blk \in [Blocks -> [Cell -> Nat]]
  BY StructureFacts
<1>2. Size(i) \in Nat
  BY <1>1, FilesLogical
<1>3. Contents[i] = [p \in 1 .. Size(i) |-> ByteOf(blk, ino[i], p - 1)]
  BY <1>1, ContentsBytes DEF ContentsAre
<1>4. ASSUME NEW p \in 1 .. Size(i)
      PROVE  ByteOf(blk, ino[i], p - 1) \in Nat
  <2>1. p - 1 \in 0 .. Size(i) - 1
    BY <1>2
  <2>2. /\ PtrIn(blk, ino[i], W((p - 1) \div Cells)) \in Blocks
        /\ (p - 1) % Cells \in Cell
    BY <2>1, FilesInPlace DEF InPlace
  <2> QED
    BY <1>1, <2>2 DEF ByteOf
<1> QED
  BY <1>2, <1>3, <1>4

LEMMA ContentsSeqNext == Structure' => ContentsSeqs'
  BY ContentsSeq, PTL

LEMMA Joined ==
  ASSUME NEW r \in Seq(Nat), NEW s \in Seq(Nat), NEW t \in Seq(Nat),
         Len(r) = Len(s) + Len(t), \A p \in 1 .. Len(s) : r[p] = s[p],
         \A p \in 1 .. Len(t) : r[Len(s) + p] = t[p]
  PROVE  r = s \o t
<1>1. s \o t \in Seq(Nat) /\ Len(s \o t) = Len(s) + Len(t)
  OBVIOUS
<1>2. ASSUME NEW p \in 1 .. Len(r) PROVE r[p] = (s \o t)[p]
  <2>1. CASE p <= Len(s)
    BY <2>1
  <2>2. CASE p > Len(s)
    <3>1. p - Len(s) \in 1 .. Len(t) /\ p = Len(s) + (p - Len(s))
      BY <2>2
    <3>2. r[p] = t[p - Len(s)]
      BY <3>1
    <3> QED
      BY <2>2, <3>1, <3>2
  <2> QED
    BY <2>1, <2>2
<1> QED
  BY <1>1, <1>2, SeqEqual

\* A write that ends adds to its file what it wrote, and nothing to another.
LEMMA WriteEndsBytes ==
  ASSUME Structure, Structure', WriteData, WriteEnds
  PROVE  /\ Size(call.ino) \in Nat /\ Position = Size(call.ino) + Len(call.got) /\ Position \in Nat
         /\ call.ino \in taken /\ call.ino \in Inodes /\ taken' = taken /\ call' = Idle
         /\ \A j \in Inodes : j # call.ino => ino'[j] = ino[j]
         /\ ino'[call.ino].blocks = call.l /\ ino'[call.ino].lwo = call.at
         /\ \A p \in 0 .. Position - 1 : ByteOf(blk', ino'[call.ino], p) = Meant(p)
         /\ \A j \in taken : j # call.ino => \A p \in 0 .. Size(j) - 1 :
              ByteOf(blk', ino[j], p) = ByteOf(blk, ino[j], p)
<1> DEFINE i == call.ino
           q == PtrIn(blk, n, W(call.l))
<1>1. /\ call.op = "write" /\ i \in taken /\ taken' = taken /\ call' = Idle
      /\ n' \in InodeRec /\ n'.data = n.data /\ n'.lwo = call.at
      /\ ino' = [ino EXCEPT ![i] = [n' EXCEPT !.blocks = call.l]]
      /\ \A j \in taken : \A v \in Ways : PtrIn(blk', Recs[j], v) = PtrIn(blk, Recs[j], v)
      /\ q # 0 /\ blk' = [blk EXCEPT ![q] = b]
  BY WriteEndsStep
<1>2. /\ Recs[i] = n /\ i \in Inodes /\ taken \subseteq Inodes /\ ino \in [Inodes -> InodeRec]
      /\ blk \in [Blocks -> [Cell -> Nat]] /\ marks \in SUBSET Blocks
      /\ Sound(marks, blk, Recs, taken)
      /\ \A j \in taken : j # i => Recs[j] = ino[j]
  BY <1>1, StructureFacts DEF Working, Started
<1>3. /\ call.l \in Nat /\ call.l \in Logical /\ call.at \in Cell /\ Position \in Nat
      /\ Size(i) \in Nat /\ Position = Size(i) + Len(call.got)
  BY <1>1, <1>2, CallFacts, FilesLogical DEF Structure, Bounded
<1>4. /\ ino'[i].blocks = call.l /\ ino'[i].lwo = call.at /\ ino'[i].data = n.data
      /\ \A j \in Inodes : j # i => ino'[j] = ino[j]
  BY <1>1, <1>2 DEF InodeRec
<1>5. W(call.l) \in Ways /\ q \in Blocks
  <2>1. W(call.l) \in Ways
    BY <1>3, WayOfBlock DEF Leaves
  <2> QED
    BY <1>1, <1>2, <2>1 DEF Sound, Within
<1> HIDE DEF q, i
<1>6. ASSUME NEW k \in Blocks PROVE blk'[k] = IF k = q THEN b ELSE blk[k]
  BY <1>1, <1>2
<1>7. ASSUME NEW j \in taken, NEW w \in Ways, PtrIn(blk, Recs[j], w) # 0
      PROVE  blk'[PtrIn(blk, Recs[j], w)] =
               IF j = i /\ w = W(call.l) THEN b ELSE blk[PtrIn(blk, Recs[j], w)]
  <2>1. PtrIn(blk, Recs[j], w) \in Blocks
    BY <1>2, <1>7 DEF Sound, Within
  <2>2. PtrIn(blk, Recs[j], w) = q <=> j = i /\ w = W(call.l)
    BY <1>1, <1>2, <1>5, <1>7 DEF Sound, Distinct, q
  <2> QED
    BY <1>6, <2>1, <2>2
<1>8. ASSUME NEW p \in 0 .. Position - 1
      PROVE  ByteOf(blk', ino'[i], p) = Meant(p)
  <2> DEFINE l == p \div Cells
             w == W(l)
  <2>1. p \in Nat /\ l \in Nat /\ l <= call.l
    <3>1. p \in Nat /\ p < Start(call.l) + call.at
      BY <1>3 DEF Position
    <3> QED
      BY <1>3, <3>1, BytesBefore, BytePlace
  <2>2. l \in Logical /\ PtrIn(blk, n, w) # 0
    <3>1. l \in 0 .. call.l
      BY <1>3, <2>1
    <3>2. PtrIn(blk, n, w) # 0
      BY <1>1, <3>1 DEF Structure, FilledW, Filled
    <3>3. l \in Logical
      BY <1>3, <2>1, CellSizes DEF Logical
    <3> QED
      BY <3>2, <3>3
  <2>3. w \in Ways /\ (w = W(call.l) <=> l = call.l)
    BY <1>3, <2>2, WayOfBlock, WayUnique DEF Leaves
  <2> HIDE DEF w
  <2>4. PtrIn(blk', ino'[i], w) = PtrIn(blk, n, w)
    <3>1. PtrIn(blk', ino'[i], w) = PtrIn(blk', n, w)
      BY <1>4, SameData
    <3>2. PtrIn(blk', n, w) = PtrIn(blk, n, w)
      BY <1>1, <1>2, <2>3
    <3> QED
      BY <3>1, <3>2
  <2>5. blk'[PtrIn(blk, n, w)] = IF l = call.l THEN b ELSE blk[PtrIn(blk, n, w)]
    BY <1>1, <1>2, <1>7, <2>2, <2>3
  <2>6. ByteOf(blk', ino'[i], p) = Typed(p)
    BY <2>4, <2>5 DEF ByteOf, Typed, w
  <2> QED
    BY <1>1, <2>6 DEF WriteData
<1>9. ASSUME NEW j \in taken, j # i, NEW p \in 0 .. Size(j) - 1
      PROVE  ByteOf(blk', ino[j], p) = ByteOf(blk, ino[j], p)
  <2> DEFINE w == W(p \div Cells)
  <2>1. w \in Ways /\ PtrIn(blk, ino[j], w) # 0 /\ Recs[j] = ino[j]
    BY <1>2, <1>9, FilesInPlace DEF InPlace
  <2> HIDE DEF w
  <2>2. PtrIn(blk', ino[j], w) = PtrIn(blk, ino[j], w)
    BY <1>1, <2>1
  <2>3. blk'[PtrIn(blk, ino[j], w)] = blk[PtrIn(blk, ino[j], w)]
    BY <1>7, <1>9, <2>1
  <2> QED
    BY <2>2, <2>3 DEF ByteOf, w
<1> QED
  BY <1>1, <1>2, <1>3, <1>4, <1>8, <1>9 DEF i

LEMMA WriteEndsAdds ==
  ASSUME Structure, Structure', WriteData, WriteEnds
  PROVE  WriteData' /\ ReadData' /\ \E i \in Inodes : F!AddTo(i)
<1> DEFINE i == call.ino
           got == call.got
<1>1. /\ Size(i) \in Nat /\ Position = Size(i) + Len(got) /\ Position \in Nat
      /\ i \in taken /\ i \in Inodes /\ taken' = taken /\ call' = Idle
      /\ \A j \in Inodes : j # i => ino'[j] = ino[j]
      /\ ino'[i].blocks = call.l /\ ino'[i].lwo = call.at
      /\ \A p \in 0 .. Position - 1 : ByteOf(blk', ino'[i], p) = Meant(p)
      /\ \A j \in taken : j # i => \A p \in 0 .. Size(j) - 1 :
           ByteOf(blk', ino[j], p) = ByteOf(blk, ino[j], p)
  BY WriteEndsBytes
<1>2. call.op = "write" /\ result'.op = "write" /\ result'.ino = i /\ result'.got = got
  <2>1. call'.op # "full"
    BY <1>1, IdleCall
  <2> QED
    BY <2>1 DEF WriteEnds, Full, Idle, NoResult
<1>3. got \in Seq(Nat) /\ taken \subseteq Inodes /\ ~Started /\ ~Started'
  BY <1>1, <1>2, CallFacts, StructureFacts, IdleCall DEF Started
<1> HIDE DEF i, got
<1>4. /\ Contents[i] \in Seq(Nat) /\ Len(Contents[i]) = Size(i)
      /\ \A p \in 1 .. Size(i) : Contents[i][p] = ByteOf(blk, ino[i], p - 1)
  BY <1>1, <1>3, ContentsSeq DEF ContentsSeqs
<1>5. /\ Contents'[i] \in Seq(Nat) /\ Len(Contents'[i]) = Position
      /\ \A p \in 1 .. Position : Contents'[i][p] = ByteOf(blk', ino'[i], p - 1)
  <2>1. \A j \in Inodes : ino'[j].blocks * Cells + ino'[j].lwo = Position
          => /\ j \in taken => Contents'[j] \in Seq(Nat) /\ Len(Contents'[j]) = Position
             /\ j \in taken => \A p \in 1 .. Position : Contents'[j][p] = ByteOf(blk', ino'[j], p - 1)
    BY <1>1, <1>3, ContentsSeqNext DEF ContentsSeqs, Size
  <2>2. ino'[i].blocks * Cells + ino'[i].lwo = Position
    BY <1>1 DEF Position, Start
  <2> QED
    BY <1>1, <2>1, <2>2
<1>6. Contents'[i] = Contents[i] \o got
  <2>1. ASSUME NEW p \in 1 .. Size(i) PROVE Contents'[i][p] = Contents[i][p]
    <3>1. p - 1 \in 0 .. Position - 1 /\ p \in 1 .. Position /\ p - 1 < Size(i)
      BY <1>1, <1>3
    <3> QED
      BY <1>1, <1>4, <1>5, <3>1 DEF Meant, i
  <2>2. ASSUME NEW p \in 1 .. Len(got) PROVE Contents'[i][Size(i) + p] = got[p]
    <3> DEFINE m == Size(i) + p
    <3>1. /\ m - 1 \in 0 .. Position - 1 /\ m \in 1 .. Position
          /\ ~(m - 1 < Size(i)) /\ (m - 1) - Size(i) + 1 = p
      BY <1>1, <1>3
    <3> HIDE DEF m
    <3>2. Meant(m - 1) = got[p]
      BY <3>1 DEF Meant, i, got
    <3>3. Contents'[i][m] = got[p]
      BY <1>1, <1>5, <3>1, <3>2
    <3> QED
      BY <3>3 DEF m
  <2> DEFINE r == Contents'[i]
             s == Contents[i]
  <2>3. /\ r \in Seq(Nat) /\ s \in Seq(Nat) /\ Len(r) = Len(s) + Len(got)
        /\ \A p \in 1 .. Len(s) : r[p] = s[p]
        /\ \A p \in 1 .. Len(got) : r[Len(s) + p] = got[p]
    BY <1>1, <1>4, <1>5, <2>1, <2>2
  <2> HIDE DEF r, s
  <2>4. r = s \o got
    BY <1>3, <2>3, Joined
  <2> QED
    BY <2>4 DEF r, s
<1>7. ASSUME NEW j \in Inodes, j # i PROVE Contents'[j] = Contents[j]
  <2>1. Contents'[j] = IF j \notin taken THEN <<>>
                       ELSE [p \in 1 .. Size(j)' |-> ByteOf(blk', ino'[j], p - 1)]
    BY <1>1, ContentsBytesNext DEF ContentsAre
  <2>2. Contents[j] = IF j \notin taken THEN <<>>
                      ELSE [p \in 1 .. Size(j) |-> ByteOf(blk, ino[j], p - 1)]
    BY ContentsBytes DEF ContentsAre
  <2>3. Size(j)' = Size(j) /\ ino'[j] = ino[j] /\ Size(j) \in Nat
    BY <1>1, <1>7, FilesLogical DEF Size
  <2>4. j \in taken => \A p \in 1 .. Size(j) : ByteOf(blk', ino[j], p - 1) = ByteOf(blk, ino[j], p - 1)
    <3>1. \A p \in 1 .. Size(j) : p - 1 \in 0 .. Size(j) - 1
      BY <2>3
    <3> QED
      BY <1>1, <1>7, <3>1
  <2> QED
    BY <2>1, <2>2, <2>3, <2>4
<1>8. Contents' = [Contents EXCEPT ![i] = @ \o got]
  <2>1. /\ Contents = [j \in Inodes |-> Contents[j]]
        /\ Contents' = [j \in Inodes |-> Contents'[j]]
    BY DEF Contents
  <2> QED
    BY <1>1, <1>6, <1>7, <2>1
<1>9. F!AddTo(i)
  BY <1>2, <1>8 DEF F!AddTo
<1> QED
  BY <1>1, <1>9, OtherCall, IdleCall


(***************************************************************************)
(* Reads.                                                                   *)
(***************************************************************************)
LEMMA RestOf ==
  ASSUME Structure, ~Started, NEW i \in taken, NEW from \in Nat, from <= Size(i)
  PROVE  LET rest == SubSeq(Contents[i], from + 1, Len(Contents[i])) IN
         /\ Len(Contents[i]) = Size(i) /\ Size(i) \in Nat /\ Len(rest) = Size(i) - from
         /\ \A k \in 1 .. Size(i) - from : rest[k] = ByteOf(blk, ino[i], from + k - 1)
<1> DEFINE s == Contents[i]
           rest == SubSeq(s, from + 1, Size(i))
<1>1. /\ s \in Seq(Nat) /\ Len(s) = Size(i) /\ Size(i) \in Nat
      /\ \A p \in 1 .. Size(i) : s[p] = ByteOf(blk, ino[i], p - 1)
  BY ContentsSeq DEF ContentsSeqs
<1> HIDE DEF s
<1>2. \A k \in from + 1 .. Size(i) : s[k] \in Nat
  BY <1>1, ElementOfSeq
<1>3. /\ Len(rest) = IF from + 1 <= Size(i) THEN Size(i) - (from + 1) + 1 ELSE 0
      /\ \A k \in 1 .. Size(i) - (from + 1) + 1 : rest[k] = s[from + 1 + k - 1]
  BY <1>1, <1>2, SubSeqProperties
<1> HIDE DEF rest
<1>4. Len(rest) = Size(i) - from
  BY <1>1, <1>3
<1>5. ASSUME NEW k \in 1 .. Size(i) - from
      PROVE  rest[k] = ByteOf(blk, ino[i], from + k - 1)
  <2>1. k \in 1 .. Size(i) - (from + 1) + 1 /\ from + 1 + k - 1 = from + k /\ from + k \in 1 .. Size(i)
    BY <1>1
  <2> QED
    BY <1>1, <1>3, <2>1
<1> QED
  BY <1>1, <1>4, <1>5 DEF s, rest

\* The call finds the block of its first byte, or that there is none to read.
LEMMA ReadCallReads ==
  ASSUME Structure, Structure', NEW i \in Inodes, NEW from \in 0 .. MaxLen, NEW size \in ReadSizes,
         ReadCall(i, from, size)
  PROVE  WriteData' /\ ReadData' /\ (Stutters \/ F!Read(i))
<1> DEFINE l == from \div Cells
           at == from % Cells
<1>1. /\ UNCHANGED <<taken, ino, blk>> /\ call.op = "none" /\ i \in taken /\ from <= Size(i)
      /\ call = Idle /\ ~Started
  BY ReadCallFound DEF ReadCall, Begin, Started
<1>2. Contents' = Contents
  BY <1>1, NothingWritten
<1>3. /\ from \in Nat /\ l \in Nat /\ at \in Nat /\ at < Cells /\ Cells \in Nat
      /\ Start(l) + at = from /\ Start(l) \in Nat
  BY FromIs, CellSizes, CellsTimes
<1>4. /\ ino[i].blocks \in Nat /\ ino[i].lwo \in Nat /\ ino[i].lwo < Cells
      /\ Size(i) = Start(ino[i].blocks) + ino[i].lwo
      /\ Start(ino[i].blocks) \in Nat /\ Size(i) \in Nat
  BY FilesLogical, CellSizes DEF Cell
<1>5. l < ino[i].blocks \/ (l = ino[i].blocks /\ at < ino[i].lwo) <=> from < Size(i)
  <2>1. l < ino[i].blocks => Start(l) + Cells <= Start(ino[i].blocks)
    BY <1>3, <1>4, StartGrows
  <2>2. ino[i].blocks < l => Start(ino[i].blocks) + Cells <= Start(l)
    BY <1>3, <1>4, StartGrows
  <2> HIDE DEF l, at
  <2> QED
    BY <1>3, <1>4, <2>1, <2>2
<1>6. CASE from < Size(i)
  <2>1. \/ call'.op = "full"
        \/ call' = [Idle EXCEPT !.op = "read", !.ino = i, !.l = l, !.at = at,
                                !.from = from, !.left = size]
    BY <1>5, <1>6, FullOp DEF ReadCall
  <2>2. Stutters
    BY <1>2, <1>5, <1>6 DEF Stutters, ReadCall
  <2>3. CASE call'.op = "full"
    BY <2>2, <2>3, OtherCall
  <2>4. CASE call' = [Idle EXCEPT !.op = "read", !.ino = i, !.l = l, !.at = at,
                                  !.from = from, !.left = size]
    <3>1. /\ call'.op = "read" /\ call'.ino = i /\ call'.l = l /\ call'.at = at
          /\ call'.from = from /\ call'.got = <<>>
      BY <2>4 DEF Idle
    <3>2. b' = blk'[PtrIn(blk', n', W(l))]
      BY <3>1, ReadCallLoads DEF Loads
    <3>3. Position' = from /\ Size(call.ino)' = Size(i)
      BY <1>1, <1>3, <3>1 DEF Position, Size
    <3>4. Len(call'.got) = 0
      BY <3>1, EmptySeq
    <3> HIDE DEF l, at
    <3>5. ReadData'
      BY <1>1, <1>6, <3>1, <3>2, <3>3, <3>4 DEF ReadData
    <3> QED
      BY <2>2, <3>1, <3>5 DEF WriteData
  <2> QED
    BY <2>1, <2>3, <2>4
<1>7. CASE ~(from < Size(i))
  <2>1. /\ result' = [NoResult EXCEPT !.op = "read", !.ino = i, !.from = from, !.size = size]
        /\ call' = call
    BY <1>5, <1>7 DEF ReadCall
  <2>2. /\ result'.op = "read" /\ result'.ino = i /\ result'.from = from /\ result'.got = <<>>
    BY <2>1 DEF NoResult
  <2> DEFINE rest == SubSeq(Contents[i], from + 1, Len(Contents[i]))
  <2>3. Len(rest) = Size(i) - from
    BY <1>1, <1>3, RestOf
  <2> HIDE DEF rest
  <2>4. Len(rest) = 0 /\ Len(<<>>) = 0
    BY <1>1, <1>3, <1>4, <1>7, <2>3, EmptySeq
  <2>5. F!Prefix(<<>>, rest) /\ Len(<<>>) >= Len(rest) - 1
    BY <2>4 DEF F!Prefix
  <2>6. F!Read(i)
    BY <1>2, <2>2, <2>5 DEF F!Read, rest
  <2> QED
    BY <1>1, <2>1, <2>6, OtherCall
<1> QED
  BY <1>6, <1>7

\* What a read returns is what the file holds.
LEMMA ReturnsBytes ==
  ASSUME Structure, ReadData, call.op = "read", ReadReturns(call.got), UNCHANGED <<taken, ino>>,
         call.left = 0 \/ Position = Size(call.ino) - 1
  PROVE  WriteData' /\ ReadData' /\ \E i \in Inodes : F!Read(i)
<1> DEFINE i == call.ino
           from == call.from
           got == call.got
           rest == SubSeq(Contents[i], from + 1, Len(Contents[i]))
<1>1. i \in taken /\ i \in Inodes /\ ~Started
  BY StructureFacts DEF Working, Started
<1>2. /\ from \in Nat /\ got \in Seq(Nat) /\ Len(got) \in Nat /\ call.left \in Nat
      /\ Position = from + Len(got) /\ Position \in Nat
  BY CallFacts DEF Structure, Bounded
<1>3. /\ from <= Size(i) /\ (ino[i].lwo > 0 => Position < Size(i))
      /\ \A k \in 1 .. Len(got) : from + k <= Size(i) =>
           got[k] = ByteOf(blk, ino[i], from + k - 1)
  BY DEF ReadData
<1>4. /\ Len(Contents[i]) = Size(i) /\ Size(i) \in Nat /\ Len(rest) = Size(i) - from
      /\ \A k \in 1 .. Size(i) - from : rest[k] = ByteOf(blk, ino[i], from + k - 1)
  BY <1>1, <1>2, <1>3, RestOf
<1>5. /\ result'.op = "read" /\ result'.ino = i /\ result'.from = from
      /\ result'.got = got /\ result'.size = Len(got) + call.left /\ call' = Idle
  BY DEF ReadReturns
<1>6. Contents' = Contents
  BY NothingWritten DEF ReadReturns
<1>7. ino[i].lwo \in Nat /\ Size(i) = Start(ino[i].blocks) + ino[i].lwo /\ ino[i].blocks \in Nat
  BY <1>1, FilesLogical, CellSizes DEF Cell
<1> HIDE DEF i, from, got, rest
<1>8. ASSUME NEW k \in 1 .. Len(got), k \in 1 .. Len(rest)
      PROVE  got[k] = rest[k]
  <2>1. k \in 1 .. Size(i) - from /\ from + k <= Size(i)
    BY <1>2, <1>3, <1>4, <1>8
  <2> QED
    BY <1>3, <1>4, <2>1
<1>9. CASE Len(got) <= Len(rest)
  <2>1. F!Prefix(got, rest)
    BY <1>2, <1>4, <1>8, <1>9 DEF F!Prefix
  <2>2. Len(got) = result'.size \/ Len(got) >= Len(rest) - 1
    BY <1>2, <1>4, <1>5 DEF i
  <2> QED
    BY <1>1, <1>5, <1>6, <2>1, <2>2, OtherCall, IdleCall DEF F!Read, rest
<1>10. CASE ~(Len(got) <= Len(rest))
  <2>1. call.left = 0 /\ ino[i].lwo = 0
    BY <1>2, <1>3, <1>4, <1>7, <1>10 DEF i
  <2>2. F!Prefix(rest, got) /\ Len(got) = result'.size
    BY <1>2, <1>3, <1>4, <1>5, <1>8, <1>10, <2>1 DEF F!Prefix
  <2>3. Len(Contents[i]) % Cells = 0
    <3>1. 0 \in Cell /\ Size(i) = Start(ino[i].blocks) + 0 /\ Size(i) \in Nat
      BY <1>4, <1>7, <2>1, CellSizes DEF Cell
    <3>2. Size(i) % Cells = 0
      BY <1>7, <3>1, BytesBefore
    <3> QED
      BY <1>4, <3>2
  <2> QED
    BY <1>1, <1>5, <1>6, <2>2, <2>3, OtherCall, IdleCall DEF F!Read, rest
<1> QED
  BY <1>9, <1>10


\* A byte is read from the block that the call has.
LEMMA ReadByteCall ==
  ASSUME Structure, ReadByte, ~AtTop, ~Full
  PROVE  /\ call.op = "read" /\ call'.op = "read" /\ call'.ino = call.ino /\ call'.from = call.from
         /\ call.ino \in taken /\ call.ino \in Inodes
         /\ call'.got = Append(call.got, b[call.at]) /\ call.got \in Seq(Nat)
         /\ Position' = Position + 1 /\ Position \in Nat /\ Position = Start(call.l) + call.at
         /\ Position = call.from + Len(call.got) /\ call.from \in Nat
         /\ call.l \in Nat /\ call.at \in Cell /\ UNCHANGED <<taken, ino, result>>
         /\ \/ call.at # Cells - 1 /\ call'.l = call.l /\ UNCHANGED <<blk, n, b>>
            \/ call.at = Cells - 1 /\ call'.l = call.l + 1 /\ Loads(call.l + 1) /\ KeptOnDisk
<1> DEFINE c == [call EXCEPT !.left = @ - 1, !.got = Append(@, b[call.at])]
<1>1. /\ call.op = "read" /\ UNCHANGED <<taken, ino, result>>
      /\ \/ call.at = Cells - 1 /\ call' = [c EXCEPT !.l = @ + 1, !.at = 0]
         \/ call.at # Cells - 1 /\ call' = [c EXCEPT !.at = @ + 1] /\ UNCHANGED <<blk, n, b>>
  BY DEF ReadByte
<1>2. call \in CallRec /\ call.ino \in taken /\ call.ino \in Inodes
  BY <1>1, StructureFacts DEF Working
<1>3. /\ call.l \in Nat /\ call.at \in Cell /\ call.got \in Seq(Nat) /\ Position \in Nat
      /\ Start(call.l) \in Nat /\ Start(call.l + 1) = Start(call.l) + Cells /\ call.from \in Nat
  BY CallFacts
<1>4. Position = call.from + Len(call.got)
  BY <1>1 DEF Structure, Bounded
<1>5. /\ call'.op = "read" /\ call'.ino = call.ino /\ call'.from = call.from
      /\ call'.got = Append(call.got, b[call.at])
      /\ call.at # Cells - 1 => call'.l = call.l /\ call'.at = call.at + 1
      /\ call.at = Cells - 1 => call'.l = call.l + 1 /\ call'.at = 0
  BY <1>1, <1>2 DEF CallRec
<1>6. Position' = Position + 1
  BY <1>3, <1>5, CellSizes DEF Position, Cell
<1>7. call.at = Cells - 1 => Loads(call.l + 1) /\ KeptOnDisk
  <2>1. call.at = Cells - 1 => Loads(call.l + 1)
    BY <1>5, ReadByteLoads
  <2>2. KeptOnDisk
    BY <1>5, ReadByteStep, GrewKept, SameKept DEF Stops, Idle
  <2> QED
    BY <2>1, <2>2
<1> QED
  BY <1>1, <1>2, <1>3, <1>4, <1>5, <1>6, <1>7 DEF Position

LEMMA ReadByteReads ==
  ASSUME Structure, Structure', ReadData, ReadByte
  PROVE  WriteData' /\ ReadData' /\ (Stutters \/ \E i \in Inodes : F!Read(i))
<1> DEFINE i == call.ino
<1>1. CASE AtTop
  <2>1. /\ call.op = "read" /\ ReadReturns(call.got) /\ UNCHANGED <<taken, ino>>
    BY <1>1 DEF ReadByte
  <2>2. i \in taken /\ i \in Inodes /\ n.blocks = ino[i].blocks /\ n.lwo = ino[i].lwo
    BY <2>1, StructureFacts DEF Structure, Extends, Working
  <2>3. /\ ino[i].lwo \in Nat /\ Size(i) = Start(ino[i].blocks) + ino[i].lwo
        /\ Start(ino[i].blocks) \in Nat
    BY <2>2, FilesLogical, CellSizes DEF Cell
  <2>4. Position = Size(i) - 1
    BY <1>1, <2>2, <2>3 DEF AtTop, Position
  <2> QED
    BY <2>1, <2>4, ReturnsBytes
<1>2. CASE ~AtTop /\ Full
  BY <1>2, FullOp, NothingWritten, OtherCall DEF Stutters, ReadByte
<1>3. CASE ~AtTop /\ ~Full
  <2>1. /\ call.op = "read" /\ call'.op = "read" /\ call'.ino = i /\ call'.from = call.from
        /\ i \in taken /\ i \in Inodes
        /\ call'.got = Append(call.got, b[call.at]) /\ call.got \in Seq(Nat)
        /\ Position' = Position + 1 /\ Position \in Nat /\ Position = Start(call.l) + call.at
        /\ Position = call.from + Len(call.got) /\ call.from \in Nat
        /\ call.l \in Nat /\ call.at \in Cell /\ UNCHANGED <<taken, ino, result>>
        /\ \/ call.at # Cells - 1 /\ call'.l = call.l /\ UNCHANGED <<blk, n, b>>
           \/ call.at = Cells - 1 /\ call'.l = call.l + 1 /\ Loads(call.l + 1) /\ KeptOnDisk
    BY <1>3, ReadByteCall
  <2>2. /\ Size(i) \in Nat /\ Size(call.ino)' = Size(i) /\ (ino[call.ino])' = ino[i]
        /\ ino[i].blocks \in Nat /\ ino[i].lwo \in Cell
        /\ Size(i) = Start(ino[i].blocks) + ino[i].lwo
    BY <2>1, FilesLogical DEF Size
  <2>3. SameBytes /\ b' = blk'[PtrIn(blk', n', W(call'.l))]
    <3>1. CASE call.at # Cells - 1
      BY <2>1, <3>1 DEF SameBytes, ReadData
    <3>2. CASE call.at = Cells - 1
      BY <2>1, <3>2, KeptBytes DEF Loads
    <3> QED
      BY <3>1, <3>2
  <2>4. Stutters
    BY <2>1, <2>3, SameContents DEF Stutters
  <2>5. ino[i].lwo > 0 => Position' < Size(i)
    <3>1. SUFFICES ASSUME ino[i].lwo > 0, ~(Position + 1 < Size(i)) PROVE FALSE
      BY <2>1
    <3>2. Position < Size(i)
      BY <2>1, <3>1 DEF ReadData
    <3>3. Position = Start(ino[i].blocks) + (ino[i].lwo - 1)
      <4>1. Position + 1 = Size(i)
        BY <2>1, <2>2, <3>1, <3>2
      <4>2. ino[i].lwo \in Nat /\ Start(ino[i].blocks) \in Nat
        BY <2>2, CellSizes, CellsTimes DEF Cell
      <4>3. Position \in Nat /\ Size(i) = Start(ino[i].blocks) + ino[i].lwo
        BY <2>1, <2>2
      <4> HIDE DEF i
      <4> QED
        BY <4>1, <4>2, <4>3
    <3>4. ino[i].lwo - 1 \in Cell
      BY <2>2, <3>1, CellSizes DEF Cell
    <3>5. ino[i].blocks = call.l /\ ino[i].lwo - 1 = call.at
      <4>1. /\ Position \div Cells = call.l /\ Position % Cells = call.at
            /\ Position \div Cells = ino[i].blocks /\ Position % Cells = ino[i].lwo - 1
        BY <2>1, <2>2, <3>3, <3>4, BytesBefore
      <4> QED
        BY <4>1
    <3>6. n.blocks = ino[i].blocks /\ n.lwo = ino[i].lwo
      BY <2>1 DEF Structure, Extends, Working
    <3> QED
      BY <1>3, <3>5, <3>6 DEF AtTop
  <2>6. Position < Size(i) => b[call.at] = ByteOf(blk, ino[i], Position)
    <3>1. SUFFICES ASSUME Position < Size(i) PROVE b[call.at] = ByteOf(blk, ino[i], Position)
      OBVIOUS
    <3>2. Position \div Cells = call.l /\ Position % Cells = call.at
      BY <2>1, BytesBefore
    <3>3. b[call.at] = ByteOf(blk, n, Position)
      BY <2>1, <3>2 DEF ReadData, ByteOf
    <3>4. Position \in 0 .. Size(i) - 1
      BY <2>1, <2>2, <3>1
    <3> QED
      BY <2>1, <3>3, <3>4, CallBytes DEF WorkBytes, Working
  <2> HIDE DEF i
  <2>7. ASSUME NEW k \in 1 .. Len(call'.got), call.from + k <= Size(i)
        PROVE  call'.got[k] = ByteOf(blk', ino[i], call.from + k - 1)
    <3> DEFINE p == call.from + k - 1
    <3>1. Len(call.got) \in Nat /\ Len(call'.got) = Len(call.got) + 1
      BY <2>1, LenProperties
    <3>2. p \in 0 .. Size(i) - 1
      BY <2>1, <2>2, <2>7, <3>1
    <3>3. ByteOf(blk', ino[i], p) = ByteOf(blk, ino[i], p)
      BY <2>1, <2>3, <3>2 DEF SameBytes
    <3>4. call'.got[k] = IF k = Len(call.got) + 1 THEN b[call.at] ELSE call.got[k]
      BY <2>1, <3>1
    <3>5. CASE k = Len(call.got) + 1
      <4>1. p = Position /\ Position < Size(i)
        BY <2>1, <2>2, <3>1, <3>2, <3>5
      <4> QED
        BY <2>6, <3>3, <3>4, <3>5, <4>1
    <3>6. CASE k # Len(call.got) + 1
      <4>1. k \in 1 .. Len(call.got)
        BY <3>1, <3>6
      <4>2. call.got[k] = ByteOf(blk, ino[i], p)
        BY <2>1, <2>7, <4>1 DEF ReadData, i
      <4> QED
        BY <3>3, <3>4, <3>6, <4>2
    <3> QED
      BY <3>5, <3>6
  <2>8. ReadData'
    <3>1. call.from <= Size(i)
      BY <2>1 DEF ReadData, i
    <3> QED
      BY <2>1, <2>2, <2>3, <2>5, <2>7, <3>1 DEF ReadData, i
  <2> QED
    BY <2>1, <2>4, <2>8 DEF WriteData
<1> QED
  BY <1>1, <1>2, <1>3

LEMMA ReadEndsReads ==
  ASSUME Structure, ReadData, ReadEnds
  PROVE  WriteData' /\ ReadData' /\ \E i \in Inodes : F!Read(i)
  BY ReturnsBytes DEF ReadEnds

(***************************************************************************)
(* What a file is to its callers is a sequence of bytes.                    *)
(***************************************************************************)
LEMMA FilesStart == ASSUME Init PROVE WriteData /\ ReadData /\ F!Init
<1>1. taken = {} /\ call.op = "none" /\ result = NoResult
  BY IdleCall DEF Init
<1>2. Contents = [i \in Inodes |-> <<>>]
  BY <1>1 DEF Contents
<1> QED
  BY <1>1, <1>2 DEF WriteData, ReadData, F!Init, F!NoResult, NoResult

LEMMA FilesStep ==
  ASSUME Structure, Structure', WriteData, ReadData, [Next]_vars
  PROVE  WriteData' /\ ReadData' /\ [F!Next]_<<Contents, result>>
<1> USE DEF Stutters, F!Next
<1>1. ASSUME NEW i \in Inodes, Create(i)
      PROVE  WriteData' /\ ReadData' /\ [F!Next]_<<Contents, result>>
  BY <1>1, CreateStutters
<1>2. ASSUME NEW i \in Inodes, RmCall(i)
      PROVE  WriteData' /\ ReadData' /\ [F!Next]_<<Contents, result>>
  BY <1>2, RmCallStutters
<1>3. ASSUME NEW i \in Inodes, NEW size \in WriteSizes, WriteCall(i, size)
      PROVE  WriteData' /\ ReadData' /\ [F!Next]_<<Contents, result>>
  BY <1>3, WriteCallStutters
<1>4. ASSUME NEW i \in Inodes, NEW from \in 0 .. MaxLen, NEW size \in ReadSizes,
             ReadCall(i, from, size)
      PROVE  WriteData' /\ ReadData' /\ [F!Next]_<<Contents, result>>
  BY <1>4, ReadCallReads
<1>5. CASE WriteByte
  BY <1>5, WriteByteStutters
<1>6. CASE WriteEnds
  BY <1>6, WriteEndsAdds
<1>7. CASE ReadByte
  BY <1>7, ReadByteReads
<1>8. CASE ReadEnds
  BY <1>8, ReadEndsReads
<1>9. CASE RmBlock
  BY <1>9, RmBlockStutters
<1>10. CASE RmEnds
  BY <1>10, RmEndsRemoves
<1>11. CASE UNCHANGED vars
  <2>1. UNCHANGED <<ino, taken, blk, n, b, call, result>>
    BY <1>11 DEF vars
  <2>2. Contents' = Contents
    BY <2>1, NothingWritten
  <2>3. WriteData' /\ ReadData'
    BY <2>1 DEF WriteData, ReadData, Typed, Meant, Position, Size
  <2> QED
    BY <2>1, <2>2, <2>3
<1> QED
  BY <1>1, <1>2, <1>3, <1>4, <1>5, <1>6, <1>7, <1>8, <1>9, <1>10, <1>11 DEF Next

\* FileBlocks implements Files: whatever blocks it takes, frees and leads to them
\* by, a file is the bytes that were written to it, each write after the one
\* before, and a read returns those of its place (fs_write_file, fs_read_file,
\* fs_rm).
THEOREM IsFilesCorrect == Spec => IsFiles
<1>1. Init => F!Init
  BY FilesStart
<1>2. Spec => [](WriteData /\ ReadData)
  <2>1. Init => WriteData /\ ReadData
    BY FilesStart
  <2>2. Structure /\ Structure' /\ WriteData /\ ReadData /\ [Next]_vars => (WriteData /\ ReadData)'
    BY FilesStep
  <2> QED
    BY <2>1, <2>2, BlocksStructure, PTL DEF Spec
<1>3. Structure /\ Structure' /\ WriteData /\ ReadData /\ [Next]_vars
        => [F!Next]_<<Contents, result>>
  BY FilesStep
<1> QED
  BY <1>1, <1>2, <1>3, BlocksStructure, PTL DEF Spec, IsFiles, F!Spec
=============================================================================
