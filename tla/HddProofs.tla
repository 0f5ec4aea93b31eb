----------------------------- MODULE HddProofs -----------------------------
(***************************************************************************)
(* Theorems about HddCache, for every size of the cache and of the disk,   *)
(* as long as no counter of writes wraps (MaxCalls < Width).               *)
(***************************************************************************)
EXTENDS HddCache, TLAPS

Filled(f)  == block[f][1] # MasterBoot
GroupOf(f) == block[f][1][1]

(* A filled family holds one group of the disk, and no other holds it. *)
GroupsInv ==
  /\ \A f \in Families : Filled(f) =>
       \A i \in Offsets : block[f][i] = <<GroupOf(f), i>>
  /\ \A f \in Families : ~Filled(f) =>
       \A i \in Offsets : block[f][i] = MasterBoot /\ writes[f][i] = 0
  /\ \A f, h \in Families :
       Filled(f) /\ Filled(h) /\ GroupOf(f) = GroupOf(h) => f = h

(* During a miss nobody holds the group, and the buffer is what the disk has. *)
MissInv ==
  /\ op.block # MasterBoot
  /\ op.at \in {"miss", "synced"} =>
       /\ \A f \in Families : Filled(f) => GroupOf(f) # op.block[1]
       /\ \A i \in Offsets : op.buffer[i] = disk[<<op.block[1], i>>]

(* Each call counts one write at most. *)
CountInv ==
  \A f \in Families, i \in Offsets :
    IF op.at = "none" THEN writes[f][i] <= calls ELSE writes[f][i] < calls

(* A line without writes is as on the disk. *)
CleanInv ==
  \A f \in Families, i \in Offsets :
    Filled(f) /\ writes[f][i] = 0 => data[f][i] = disk[block[f][i]]

(* dirty_cache = 0, and a sync just done, mean that the first families are  *)
(* clean.                                                                   *)
FlagInv ==
  ~dirty_cache \/ op.at = "synced" =>
    \A f \in Synced, i \in Offsets : writes[f][i] = 0

IInv == TypeOK /\ GroupsInv /\ MissInv /\ CountInv /\ CleanInv /\ FlagInv

-----------------------------------------------------------------------------
(* A hit is the line of the block in the family that holds its group. *)
LEMMA HitIsFilled ==
  ASSUME TypeOK, GroupsInv, NEW b \in Blocks, b # MasterBoot, NEW l \in Hits(b)
  PROVE  /\ l[1] \in Families /\ l = <<l[1], b[2]>>
         /\ Filled(l[1]) /\ GroupOf(l[1]) = b[1]
<1>1. l \in Families \X Offsets /\ block[l[1]][l[2]] = b
  BY DEF Hits
<1>2. Filled(l[1])
  BY <1>1 DEF GroupsInv
<1>3. block[l[1]][l[2]] = <<GroupOf(l[1]), l[2]>>
  BY <1>1, <1>2 DEF GroupsInv
<1> QED BY <1>1, <1>2, <1>3

LEMMA FilledIsHit ==
  ASSUME GroupsInv, NEW b \in Blocks, NEW f \in Families,
         Filled(f), GroupOf(f) = b[1]
  PROVE  <<f, b[2]>> \in Hits(b)
<1>1. b = <<b[1], b[2]>> /\ b[2] \in Offsets
  BY DEF Blocks
<1>2. block[f][b[2]] = b
  BY <1>1 DEF GroupsInv
<1> QED BY <1>1, <1>2 DEF Hits

(* The code stops at that line. *)
LEMMA LineOfFilled ==
  ASSUME TypeOK, GroupsInv, NEW b \in Blocks, b # MasterBoot,
         NEW f \in Families, Filled(f), GroupOf(f) = b[1]
  PROVE  Hits(b) = {<<f, b[2]>>} /\ Line(b) = <<f, b[2]>>
<1>1. <<f, b[2]>> \in Hits(b)
  BY FilledIsHit
<1>2. ASSUME NEW l \in Hits(b) PROVE l = <<f, b[2]>>
  <2>1. l[1] \in Families /\ l = <<l[1], b[2]>> /\ Filled(l[1]) /\ GroupOf(l[1]) = b[1]
    BY HitIsFilled
  <2> QED BY <2>1 DEF GroupsInv
<1>3. Before(<<f, b[2]>>, <<f, b[2]>>)
  BY DEF Before, Blocks, Offsets, Families
<1>4. Hits(b) = {<<f, b[2]>>}
  BY <1>1, <1>2
<1> QED BY <1>3, <1>4 DEF Line

LEMMA NoHit ==
  ASSUME TypeOK, GroupsInv, NEW b \in Blocks, b # MasterBoot
  PROVE  Hits(b) = {} <=> \A f \in Families : Filled(f) => GroupOf(f) # b[1]
<1>1. ASSUME Hits(b) = {}, NEW f \in Families, Filled(f), GroupOf(f) = b[1] PROVE FALSE
  BY <1>1, FilledIsHit
<1>2. ASSUME NEW l \in Hits(b) PROVE l[1] \in Families /\ Filled(l[1]) /\ GroupOf(l[1]) = b[1]
  BY HitIsFilled
<1> QED BY <1>1, <1>2

(* What a flush of filled families writes. *)
LEMMA FlushedBlock ==
  ASSUME TypeOK, GroupsInv, NEW F \in SUBSET Families, \A f \in F : Filled(f),
         NEW b \in Blocks, NEW f \in F, GroupOf(f) = b[1]
  PROVE  DiskWith(F)[b] = data[f][b[2]]
<1>1. ASSUME NEW h \in F PROVE block[h][0][1] = GroupOf(h)
  BY HddAssumption DEF GroupsInv, Offsets
<1>2. Holders(F, b[1]) = {f}
  BY <1>1 DEF Holders, GroupsInv
<1>3. (CHOOSE g \in {f} : \A h \in {f} : h <= g) = f
  BY DEF Families
<1> QED BY <1>2, <1>3 DEF DiskWith

LEMMA UntouchedBlock ==
  ASSUME TypeOK, GroupsInv, NEW F \in SUBSET Families, \A f \in F : Filled(f),
         NEW b \in Blocks, \A f \in F : GroupOf(f) # b[1]
  PROVE  DiskWith(F)[b] = disk[b]
<1>1. ASSUME NEW h \in F PROVE block[h][0][1] = GroupOf(h)
  BY HddAssumption DEF GroupsInv, Offsets
<1>2. Holders(F, b[1]) = {}
  BY <1>1 DEF Holders
<1> QED BY <1>2 DEF DiskWith

LEMMA DiskWithType ==
  ASSUME TypeOK, GroupsInv, NEW F \in SUBSET Families, \A f \in F : Filled(f)
  PROVE  DiskWith(F) \in [Blocks -> Values]
<1>1. ASSUME NEW b \in Blocks PROVE DiskWith(F)[b] \in Values
  <2>1. CASE \E f \in F : GroupOf(f) = b[1]
    <3>1. PICK f \in F : GroupOf(f) = b[1]
      BY <2>1
    <3>2. DiskWith(F)[b] = data[f][b[2]]
      BY <3>1, FlushedBlock
    <3> QED BY <3>2 DEF TypeOK, Blocks
  <2>2. CASE \A f \in F : GroupOf(f) # b[1]
    BY <2>2, UntouchedBlock DEF TypeOK
  <2> QED BY <2>1, <2>2
<1> QED BY <1>1 DEF DiskWith

DirtyIn(D) == {f \in D : Dirty(f)}

(* What a flush that forgets the writes of D leaves: the lines without      *)
(* writes are still as on the disk, and uncached blocks are not touched.    *)
LEMMA FlushEffect ==
  ASSUME TypeOK, GroupsInv, CleanInv, NEW D \in SUBSET Families
  PROVE  /\ Forgotten(D) \in [Families -> [Offsets -> 0 .. Width - 1]]
         /\ DiskWith(DirtyIn(D)) \in [Blocks -> Values]
         /\ \A b \in Blocks :
              (\A f \in Families : Filled(f) => GroupOf(f) # b[1]) =>
                DiskWith(DirtyIn(D))[b] = disk[b]
         /\ \A f \in Families, i \in Offsets :
              /\ Forgotten(D)[f][i] \in {0, writes[f][i]}
              /\ f \in D => Forgotten(D)[f][i] = 0
              /\ Filled(f) /\ Forgotten(D)[f][i] = 0 =>
                   data[f][i] = DiskWith(DirtyIn(D))[block[f][i]]
<1>1. DirtyIn(D) \in SUBSET Families /\ \A f \in DirtyIn(D) : Filled(f)
  <2>1. ASSUME NEW f \in DirtyIn(D) PROVE f \in Families /\ Filled(f)
    BY DEF GroupsInv, Dirty, DirtyIn
  <2> QED BY <2>1
<1>2. \A f \in Families, i \in Offsets :
        writes[f][i] \in 0 .. Width - 1 /\ 0 \in 0 .. Width - 1
  BY HddAssumption DEF TypeOK
<1>3. Forgotten(D) \in [Families -> [Offsets -> 0 .. Width - 1]]
  BY <1>2 DEF Forgotten, Blank, TypeOK
<1>4. ASSUME NEW f \in Families, NEW i \in Offsets
      PROVE  /\ Forgotten(D)[f][i] \in {0, writes[f][i]}
             /\ f \in D => Forgotten(D)[f][i] = 0
             /\ f \notin D => Forgotten(D)[f][i] = writes[f][i]
  BY DEF Forgotten, Blank
<1>5. ASSUME NEW f \in Families, NEW i \in Offsets,
             Filled(f), Forgotten(D)[f][i] = 0
      PROVE  data[f][i] = DiskWith(DirtyIn(D))[block[f][i]]
  <2>1. block[f][i] = <<GroupOf(f), i>> /\ block[f][i] \in Blocks
    BY <1>5 DEF GroupsInv, TypeOK
  <2>2. CASE f \in DirtyIn(D)
    BY <1>1, <2>1, <2>2, FlushedBlock
  <2>3. CASE f \notin DirtyIn(D)
    <3>1. \A h \in DirtyIn(D) : GroupOf(h) # GroupOf(f)
      BY <1>1, <1>5, <2>3 DEF GroupsInv
    <3>2. DiskWith(DirtyIn(D))[block[f][i]] = disk[block[f][i]]
      BY <1>1, <2>1, <3>1, UntouchedBlock
    <3>3. writes[f][i] = 0
      BY <1>2, <1>4, <1>5, <2>3 DEF Dirty, DirtyIn
    <3> QED BY <1>5, <3>2, <3>3 DEF CleanInv
  <2> QED BY <2>2, <2>3
<1>6. ASSUME NEW b \in Blocks, \A f \in Families : Filled(f) => GroupOf(f) # b[1]
      PROVE  DiskWith(DirtyIn(D))[b] = disk[b]
  BY <1>1, <1>6, UntouchedBlock
<1> QED BY <1>1, <1>3, <1>4, <1>5, <1>6, DiskWithType

(* The two forms of hdd_cache_sync. *)
LEMMA SyncEffect ==
  ASSUME TypeOK, GroupsInv, CleanInv, FlagInv, FullSync \/ PartialSync
  PROVE  /\ writes' \in [Families -> [Offsets -> 0 .. Width - 1]]
         /\ disk' \in [Blocks -> Values] /\ dirty_cache' \in BOOLEAN
         /\ FullSync \/ ~dirty_cache' =>
              \A f \in Synced, i \in Offsets : writes'[f][i] = 0
         /\ \A b \in Blocks :
              (\A f \in Families : Filled(f) => GroupOf(f) # b[1]) =>
                disk'[b] = disk[b]
         /\ \A f \in Families, i \in Offsets :
              /\ writes'[f][i] \in {0, writes[f][i]}
              /\ Filled(f) /\ writes'[f][i] = 0 =>
                   data[f][i] = disk'[block[f][i]]
<1>1. Synced \in SUBSET Families
  BY HddAssumption DEF Synced, Families
<1>2. CASE ~dirty_cache /\ UNCHANGED <<writes, disk, dirty_cache>>
  BY <1>2 DEF TypeOK, FlagInv, CleanInv
<1>3. CASE /\ writes' = Forgotten(Synced) /\ disk' = DiskWith(DirtySynced)
           /\ dirty_cache' = FALSE
  <2>1. DirtySynced = DirtyIn(Synced)
    BY DEF DirtySynced, DirtyIn
  <2> QED BY <1>1, <1>3, <2>1, FlushEffect
<1>4. ASSUME NEW g \in DirtySynced, writes' = Forgotten({g}),
             disk' = DiskWith({g}), dirty_cache' = dirty_cache, dirty_cache
      PROVE  /\ writes' \in [Families -> [Offsets -> 0 .. Width - 1]]
             /\ disk' \in [Blocks -> Values]
             /\ \A b \in Blocks :
                  (\A f \in Families : Filled(f) => GroupOf(f) # b[1]) =>
                    disk'[b] = disk[b]
             /\ \A f \in Families, i \in Offsets :
                  /\ writes'[f][i] \in {0, writes[f][i]}
                  /\ Filled(f) /\ writes'[f][i] = 0 =>
                       data[f][i] = disk'[block[f][i]]
  <2>1. {g} \in SUBSET Families /\ {g} = DirtyIn({g}) /\ g \in {g}
    BY <1>1 DEF DirtySynced, DirtyIn
  <2>2. disk' = DiskWith(DirtyIn({g}))
    BY <1>4, <2>1
  <2>3. /\ Forgotten({g}) \in [Families -> [Offsets -> 0 .. Width - 1]]
        /\ DiskWith(DirtyIn({g})) \in [Blocks -> Values]
        /\ \A b \in Blocks :
             (\A f \in Families : Filled(f) => GroupOf(f) # b[1]) =>
               DiskWith(DirtyIn({g}))[b] = disk[b]
        /\ \A f \in Families, i \in Offsets :
             /\ Forgotten({g})[f][i] \in {0, writes[f][i]}
             /\ Filled(f) /\ Forgotten({g})[f][i] = 0 =>
                  data[f][i] = DiskWith(DirtyIn({g}))[block[f][i]]
    BY <2>1, FlushEffect
  <2>4. writes' = Forgotten({g})
    BY <1>4
  <2> QED BY ONLY <2>2, <2>3, <2>4
<1>5. CASE FullSync
  BY <1>2, <1>3, <1>5 DEF FullSync
<1>6. CASE PartialSync /\ ~FullSync
  <2>1. PICK g \in DirtySynced : /\ writes' = Forgotten({g})
                                 /\ disk' = DiskWith({g})
                                 /\ dirty_cache' = dirty_cache /\ dirty_cache
    BY <1>6 DEF PartialSync, FullSync, TypeOK
  <2> QED BY <1>4, <1>6, <2>1 DEF TypeOK
<1> QED BY <1>5, <1>6

-----------------------------------------------------------------------------
(* The start: nothing is filled. *)
LEMMA InitHolds == Init => IInv
<1> SUFFICES ASSUME Init PROVE IInv
  OBVIOUS
<1>1. 0 \in Offsets /\ 1 \in Offsets /\ 0 \in Groups /\ 0 \in 0 .. HistCount - 2
  BY HddAssumption DEF Offsets, Groups
<1>2. MasterBoot \in Blocks /\ SuperBlock \in Blocks /\ MasterBoot # SuperBlock
  BY <1>1 DEF MasterBoot, SuperBlock, Blocks
<1>3. Zero \in Values /\ 0 \in 0 .. Width - 1 /\ 0 \in 0 .. MaxCalls
  BY HddAssumption
<1>4. \A f \in Families : ~Filled(f)
  BY <1>1 DEF Init, Blank, Filled
<1>5. \A f \in Families, i \in Offsets : block[f][i] = MasterBoot /\ writes[f][i] = 0
  BY DEF Init, Blank
<1>6. op = NoCall /\ calls = 0 /\ dirty_cache = TRUE
  BY DEF Init
<1>7. /\ block \in [Families -> [Offsets -> Blocks]]
      /\ reads \in [Families -> [Offsets -> 0 .. Width - 1]]
      /\ writes \in [Families -> [Offsets -> 0 .. Width - 1]]
      /\ data \in [Families -> [Offsets -> Values]]
      /\ disk \in [Blocks -> Values] /\ last \in [Blocks -> Values]
      /\ op \in [at : {"none", "find", "miss", "synced"}, kind : {"read", "write"},
                 block : Blocks, value : Values, buffer : [Offsets -> Values]]
  BY <1>2, <1>3 DEF Init, Blank, NoCall
<1>8. TypeOK
  BY <1>1, <1>2, <1>3, <1>7 DEF Init, TypeOK
<1>9. op.at = "none" /\ op.block = SuperBlock
  BY <1>6 DEF NoCall
<1>10. GroupsInv /\ MissInv /\ CountInv /\ CleanInv /\ FlagInv
  <2>1. GroupsInv /\ CleanInv
    BY <1>4, <1>5 DEF GroupsInv, CleanInv
  <2>2. MissInv
    BY <1>2, <1>9 DEF MissInv
  <2>3. CountInv
    BY <1>5, <1>6, <1>9 DEF CountInv
  <2>4. FlagInv
    BY <1>6, <1>9 DEF FlagInv
  <2> QED BY <2>1, <2>2, <2>3, <2>4
<1> QED BY <1>8, <1>10 DEF IInv

(* The family and the line a served call finds. *)
LEMMA Found ==
  ASSUME IInv, Hits(op.block) # {}
  PROVE  \E f \in Families :
           /\ Filled(f) /\ GroupOf(f) = op.block[1] /\ op.block[2] \in Offsets
           /\ block[f][op.block[2]] = op.block
           /\ Line(op.block)[1] = f /\ Line(op.block)[2] = op.block[2]
           /\ Hits(op.block) = {<<f, op.block[2]>>}
<1>1. op.block \in Blocks /\ op.block # MasterBoot /\ TypeOK /\ GroupsInv
  BY DEF IInv, TypeOK, MissInv
<1>2. PICK l \in Hits(op.block) : TRUE
  OBVIOUS
<1>3. l[1] \in Families /\ Filled(l[1]) /\ GroupOf(l[1]) = op.block[1]
  BY <1>1, <1>2, HitIsFilled
<1>4. Hits(op.block) = {<<l[1], op.block[2]>>} /\ Line(op.block) = <<l[1], op.block[2]>>
  BY <1>1, <1>3, LineOfFilled
<1>5. op.block[2] \in Offsets /\ op.block = <<op.block[1], op.block[2]>>
  BY <1>1 DEF Blocks
<1>6. block[l[1]][op.block[2]] = op.block
  BY <1>1, <1>3, <1>5 DEF GroupsInv
<1> QED BY <1>3, <1>4, <1>5, <1>6

(* The victim is a touchable family, clean if it was chosen before the sync. *)
LEMMA VictimOf ==
  ASSUME NEW f, Load(f)
  PROVE  /\ f \in Families /\ op.at \in {"miss", "synced"}
         /\ op.at = "miss" => ~Dirty(f)
  BY DEF Load, FirstChoice, SecondChoice, LeastRead, Clean, Fresh, Touchable

(* What an eviction writes to the disk. *)
LEMMA EvictionDisk ==
  ASSUME IInv, NEW f, Load(f)
  PROVE  /\ disk' \in [Blocks -> Values]
         /\ \A b \in Blocks : ~Filled(f) \/ GroupOf(f) # b[1] => disk'[b] = disk[b]
         /\ WritesBack(f) => \A b \in Blocks : GroupOf(f) = b[1] => disk'[b] = data[f][b[2]]
         /\ ~WritesBack(f) => \A b \in Blocks : disk'[b] = disk[b]
<1> DEFINE F == {g \in {f} : WritesBack(g)}
<1>1. disk' = DiskWith(F) /\ f \in Families
  BY VictimOf DEF Load
<1>2. F \in SUBSET Families /\ \A g \in F : g = f /\ Filled(g)
  BY <1>1 DEF WritesBack, Dirty, IInv, GroupsInv
<1>3. WritesBack(f) => f \in F
  OBVIOUS
<1>4. ~WritesBack(f) => F = {}
  OBVIOUS
<1> HIDE DEF F
<1>5. TypeOK /\ GroupsInv
  BY DEF IInv
<1>6. DiskWith(F) \in [Blocks -> Values]
  BY <1>2, <1>5, DiskWithType
<1>7. ASSUME NEW b \in Blocks, ~Filled(f) \/ GroupOf(f) # b[1]
      PROVE  DiskWith(F)[b] = disk[b]
  <2>1. \A g \in F : GroupOf(g) # b[1]
    BY <1>2, <1>7
  <2> QED BY <1>2, <1>5, <2>1, UntouchedBlock
<1>8. ASSUME NEW b \in Blocks, WritesBack(f), GroupOf(f) = b[1]
      PROVE  DiskWith(F)[b] = data[f][b[2]]
  BY <1>2, <1>3, <1>5, <1>8, FlushedBlock
<1>9. ASSUME NEW b \in Blocks, ~WritesBack(f)
      PROVE  DiskWith(F)[b] = disk[b]
  <2>1. \A g \in F : GroupOf(g) # b[1]
    BY <1>4, <1>9
  <2> QED BY <1>2, <1>5, <2>1, UntouchedBlock
<1> QED BY <1>1, <1>6, <1>7, <1>8, <1>9

(* Counters of sixteen bits. *)
LEMMA CounterRange ==
  ASSUME NEW n \in 0 .. Width - 1
  PROVE  (n + 1) % Width \in 0 .. Width - 1
BY HddAssumption

-----------------------------------------------------------------------------
(* The types. *)
LEMMA TypeStep ==
  ASSUME IInv, [Next]_vars
  PROVE  TypeOK'
<1> USE DEF IInv
<1>1. TypeOK
  OBVIOUS
<1>2. Zero \in Values /\ Used \subseteq Blocks /\ 0 \in 0 .. Width - 1
  BY HddAssumption
<1>3. ASSUME NEW kind \in {"read", "write"}, NEW b \in Used, NEW v \in Values,
             Request(kind, b, v)
      PROVE  TypeOK'
  <2>1. calls' \in 0 .. MaxCalls
    BY <1>1, <1>3, HddAssumption DEF Request, TypeOK
  <2>2. op' \in [at : {"none", "find", "miss", "synced"}, kind : {"read", "write"},
                 block : Blocks, value : Values, buffer : [Offsets -> Values]]
    BY <1>2, <1>3 DEF Request, Blank
  <2> QED BY <1>1, <1>3, <2>1, <2>2 DEF Request, TypeOK, lines, hist
<1>4. CASE Miss
  <2>1. \A i \in Offsets : <<op.block[1], i>> \in Blocks
    BY <1>1 DEF TypeOK, Blocks
  <2>2. [i \in Offsets |-> disk[<<op.block[1], i>>]] \in [Offsets -> Values]
    BY <1>1, <2>1 DEF TypeOK
  <2>3. op' \in [at : {"none", "find", "miss", "synced"}, kind : {"read", "write"},
                 block : Blocks, value : Values, buffer : [Offsets -> Values]]
    BY <1>1, <1>4, <2>2 DEF Miss, TypeOK
  <2> QED BY <1>1, <1>4, <2>3 DEF Miss, TypeOK, lines, hist
<1>5. CASE SyncForVictim
  <2>1. op' \in [at : {"none", "find", "miss", "synced"}, kind : {"read", "write"},
                 block : Blocks, value : Values, buffer : [Offsets -> Values]]
    BY <1>1, <1>5 DEF SyncForVictim, TypeOK
  <2>2. /\ writes' \in [Families -> [Offsets -> 0 .. Width - 1]]
        /\ disk' \in [Blocks -> Values] /\ dirty_cache' \in BOOLEAN
    BY <1>5, SyncEffect DEF SyncForVictim
  <2> QED BY <1>1, <1>5, <2>1, <2>2 DEF SyncForVictim, TypeOK, hist
<1>6. CASE IdleSync
  <2>1. /\ writes' \in [Families -> [Offsets -> 0 .. Width - 1]]
        /\ disk' \in [Blocks -> Values] /\ dirty_cache' \in BOOLEAN
    BY <1>6, SyncEffect DEF IdleSync
  <2> QED BY <1>1, <1>6, <2>1 DEF IdleSync, TypeOK, hist
<1>7. NoCall \in [at : {"none", "find", "miss", "synced"}, kind : {"read", "write"},
                  block : Blocks, value : Values, buffer : [Offsets -> Values]]
  <2>1. SuperBlock \in Blocks
    BY HddAssumption DEF SuperBlock, Blocks, Groups, Offsets
  <2> QED BY <1>2, <2>1 DEF NoCall, Blank
<1>8. ASSUME Hits(op.block) # {}, reads' = Counted(Line(op.block))
      PROVE  reads' \in [Families -> [Offsets -> 0 .. Width - 1]]
  <2>1. PICK f \in Families : /\ op.block[2] \in Offsets
                              /\ Line(op.block)[1] = f /\ Line(op.block)[2] = op.block[2]
    BY <1>8, Found
  <2>2. (reads[f][op.block[2]] + 1) % Width \in 0 .. Width - 1
    BY <1>1, <2>1, CounterRange, SMTT(20) DEF TypeOK
  <2> QED BY <1>1, <1>8, <2>1, <2>2 DEF Counted, TypeOK
<1>9. CASE ReadHit
  BY <1>1, <1>7, <1>8, <1>9 DEF ReadHit, TypeOK, hist
<1>10. CASE WriteHit
  <2>1. PICK f \in Families : /\ op.block[2] \in Offsets
                              /\ Line(op.block)[1] = f /\ Line(op.block)[2] = op.block[2]
    BY <1>10, Found DEF WriteHit
  <2> DEFINE i == op.block[2]
             n == IF data[f][i] = op.value THEN writes[f][i]
                  ELSE (writes[f][i] + 1) % Width
  <2>2. /\ data' = [data EXCEPT ![f][i] = op.value]
        /\ writes' = [writes EXCEPT ![f][i] = n]
        /\ dirty_cache' = (dirty_cache \/ n > 0)
    BY <1>10, <2>1 DEF WriteHit
  <2>3. n \in 0 .. Width - 1
    <3>1. writes[f][i] \in 0 .. Width - 1
      BY <1>1, <2>1 DEF TypeOK
    <3>2. (writes[f][i] + 1) % Width \in 0 .. Width - 1
      BY <3>1, CounterRange
    <3> QED BY <3>1, <3>2
  <2>4. /\ data' \in [Families -> [Offsets -> Values]]
        /\ writes' \in [Families -> [Offsets -> 0 .. Width - 1]]
        /\ dirty_cache' \in BOOLEAN
    BY <1>1, <2>1, <2>2, <2>3 DEF TypeOK
  <2>5. last' \in [Blocks -> Values]
    BY <1>1, <1>10 DEF WriteHit, TypeOK
  <2> QED BY <1>1, <1>7, <1>8, <1>10, <2>4, <2>5 DEF WriteHit, TypeOK, hist
<1>11. ASSUME NEW f \in Families, Load(f) PROVE TypeOK'
  <2>1. disk' \in [Blocks -> Values]
    BY <1>11, EvictionDisk
  <2>2. \A i \in Offsets : <<op.block[1], i>> \in Blocks
    BY <1>1 DEF TypeOK, Blocks
  <2>3. /\ block' \in [Families -> [Offsets -> Blocks]]
        /\ data' \in [Families -> [Offsets -> Values]]
        /\ reads' \in [Families -> [Offsets -> 0 .. Width - 1]]
        /\ writes' \in [Families -> [Offsets -> 0 .. Width - 1]]
        /\ untouchable' \in [Families -> BOOLEAN]
    BY <1>1, <1>2, <1>11, <2>2 DEF Load, TypeOK, Blank
  <2>4. op' \in [at : {"none", "find", "miss", "synced"}, kind : {"read", "write"},
                 block : Blocks, value : Values, buffer : [Offsets -> Values]]
    BY <1>1, <1>2, <1>11 DEF Load, TypeOK, Blank
  <2>5. 0 \in Offsets /\ block[f][0] \in Blocks
    BY <1>1, <1>11, HddAssumption DEF TypeOK, Offsets
  <2>6. /\ disposed_history' \in [0 .. HistCount - 1 -> Blocks]
        /\ disposed_history_index' \in 0 .. HistCount - 2
    <3> DEFINE k == disposed_history_index
    <3>1. /\ disposed_history \in [0 .. HistCount - 1 -> Blocks]
          /\ k \in 0 .. HistCount - 2 /\ HistCount \in Nat /\ HistCount > 1
      BY <1>1, HddAssumption DEF TypeOK
    <3>2. CASE UNCHANGED hist
      BY <3>1, <3>2 DEF hist
    <3>3. CASE /\ disposed_history' = [disposed_history EXCEPT ![k] = block[f][0]]
               /\ disposed_history_index' = IF k + 1 = HistCount - 1 THEN 0 ELSE k + 1
      BY ONLY <2>5, <3>1, <3>3
    <3> QED BY <1>11, <3>2, <3>3 DEF Load, Dispose
  <2> QED BY <1>1, <1>11, <2>1, <2>3, <2>4, <2>6 DEF Load, TypeOK
<1>12. CASE SetReady
  BY <1>1, <1>12 DEF SetReady, TypeOK, lines, hist
<1>13. CASE UNCHANGED vars
  BY <1>1, <1>13 DEF vars, TypeOK, lines, hist
<1> QED BY <1>2, <1>3, <1>4, <1>5, <1>6, <1>9, <1>10, <1>11, <1>12, <1>13 DEF Next, Serve

-----------------------------------------------------------------------------
(* What a load and a served write change, family by family. *)
LEMMA LoadEffect ==
  ASSUME IInv, NEW f, Load(f)
  PROVE  /\ f \in Families
         /\ \A h \in Families : Filled(h) => GroupOf(h) # op.block[1]
         /\ \A i \in Offsets : /\ block'[f][i] = <<op.block[1], i>>
                               /\ writes'[f][i] = 0 /\ data'[f][i] = op.buffer[i]
         /\ Filled(f)' /\ GroupOf(f)' = op.block[1]
         /\ \A h \in Families \ {f} :
              /\ block'[h] = block[h] /\ writes'[h] = writes[h] /\ data'[h] = data[h]
              /\ Filled(h)' = Filled(h) /\ GroupOf(h)' = GroupOf(h)
<1>1. f \in Families /\ op.at \in {"miss", "synced"}
  BY VictimOf
<1>2. \A h \in Families : Filled(h) => GroupOf(h) # op.block[1]
  BY <1>1 DEF IInv, MissInv
<1>3. 1 \in Offsets
  BY HddAssumption DEF Offsets
<1>4. \A i \in Offsets : /\ block'[f][i] = <<op.block[1], i>>
                        /\ writes'[f][i] = 0 /\ data'[f][i] = op.buffer[i]
  BY <1>1 DEF Load, Blank, IInv, TypeOK
<1>5. \A h \in Families \ {f} :
        block'[h] = block[h] /\ writes'[h] = writes[h] /\ data'[h] = data[h]
  BY <1>1 DEF Load, IInv, TypeOK
<1>6. block'[f][1] = <<op.block[1], 1>>
  BY <1>3, <1>4
<1>7. Filled(f)' /\ GroupOf(f)' = op.block[1]
  BY <1>6 DEF Filled, GroupOf, MasterBoot
<1>8. \A h \in Families \ {f} : Filled(h)' = Filled(h) /\ GroupOf(h)' = GroupOf(h)
  BY <1>5 DEF Filled, GroupOf
<1> QED BY <1>1, <1>2, <1>4, <1>5, <1>7, <1>8

LEMMA WriteEffect ==
  ASSUME IInv, WriteHit
  PROVE  \E f \in Families, i \in Offsets :
           /\ Filled(f) /\ block[f][i] = op.block
           /\ Hits(op.block) = {<<f, i>>}
           /\ data' = [data EXCEPT ![f][i] = op.value]
           /\ \/ data[f][i] = op.value /\ writes' = writes
              \/ writes' = [writes EXCEPT ![f][i] = writes[f][i] + 1]
           /\ \/ dirty_cache'
              \/ ~dirty_cache /\ writes'[f][i] = 0 /\ writes' = writes
<1>1. PICK f \in Families :
        /\ Filled(f) /\ op.block[2] \in Offsets /\ block[f][op.block[2]] = op.block
        /\ Line(op.block)[1] = f /\ Line(op.block)[2] = op.block[2]
        /\ Hits(op.block) = {<<f, op.block[2]>>}
  BY Found DEF WriteHit
<1> DEFINE i == op.block[2]
<1>2. /\ writes \in [Families -> [Offsets -> 0 .. Width - 1]]
      /\ calls \in 0 .. MaxCalls /\ dirty_cache \in BOOLEAN
  BY DEF IInv, TypeOK
<1>3. writes[f][i] < calls
  BY <1>1 DEF WriteHit, IInv, CountInv
<1>4. writes[f][i] \in Nat /\ writes[f][i] + 1 < Width /\ Width \in Nat
  BY <1>1, <1>2, <1>3, HddAssumption
<1>5. (writes[f][i] + 1) % Width = writes[f][i] + 1
  BY ONLY <1>4
<1> DEFINE n == IF data[f][i] = op.value THEN writes[f][i] ELSE writes[f][i] + 1
<1>6. /\ data' = [data EXCEPT ![f][i] = op.value]
      /\ writes' = [writes EXCEPT ![f][i] = n]
      /\ dirty_cache' = (dirty_cache \/ n > 0)
  BY <1>1, <1>5 DEF WriteHit
<1>7. data[f][i] = op.value => writes' = writes
  BY <1>1, <1>2, <1>6
<1>8. data[f][i] # op.value => writes' = [writes EXCEPT ![f][i] = writes[f][i] + 1]
  BY <1>6
<1>9. n = 0 => writes[f][i] = 0 /\ data[f][i] = op.value
  BY <1>4
<1>10. n \in Nat
  BY <1>4
<1> HIDE DEF n
<1>11. dirty_cache' \/ (~dirty_cache /\ ~(n > 0))
  <2>1. CASE n > 0
    BY <1>6, <2>1
  <2>2. CASE ~(n > 0)
    BY <1>2, <1>6, <2>2
  <2> QED BY <2>1, <2>2
<1>12. ~(n > 0) => n = 0
  BY <1>10
<1> QED BY <1>1, <1>6, <1>7, <1>8, <1>9, <1>11, <1>12, ZenonT(30)

(* A step that leaves block and writes leaves which groups are held. *)
LEMMA GroupsStep ==
  ASSUME IInv, [Next]_vars
  PROVE  GroupsInv'
<1>1. TypeOK /\ GroupsInv /\ CleanInv /\ FlagInv
  BY DEF IInv
<1>2. CASE UNCHANGED <<block, writes>>
  BY <1>1, <1>2 DEF GroupsInv, Filled, GroupOf
<1>3. ASSUME UNCHANGED block, FullSync \/ PartialSync PROVE GroupsInv'
  <2>1. \A f \in Families, i \in Offsets : writes'[f][i] \in {0, writes[f][i]}
    BY <1>1, <1>3, SyncEffect
  <2> QED BY <1>1, <1>3, <2>1 DEF GroupsInv, Filled, GroupOf
<1>4. CASE WriteHit
  <2>1. PICK f \in Families, i \in Offsets :
          /\ Filled(f)
          /\ \/ writes' = writes
             \/ writes' = [writes EXCEPT ![f][i] = writes[f][i] + 1]
    BY <1>4, WriteEffect
  <2>2. \A h \in Families : ~Filled(h) => writes'[h] = writes[h]
    BY <1>1, <2>1 DEF TypeOK
  <2>3. block' = block
    BY <1>4 DEF WriteHit
  <2> QED BY <1>1, <2>2, <2>3 DEF GroupsInv, Filled, GroupOf
<1>5. ASSUME NEW f \in Families, Load(f) PROVE GroupsInv'
  <2>1. \A i \in Offsets : block'[f][i] = <<GroupOf(f)', i>>
    BY <1>5, LoadEffect
  <2>2. ASSUME NEW h \in Families, Filled(h)', NEW i \in Offsets
        PROVE  block'[h][i] = <<GroupOf(h)', i>>
    BY <1>1, <1>5, <2>1, <2>2, LoadEffect DEF GroupsInv
  <2>3. ASSUME NEW h \in Families, ~Filled(h)', NEW i \in Offsets
        PROVE  block'[h][i] = MasterBoot /\ writes'[h][i] = 0
    BY <1>1, <1>5, <2>3, LoadEffect DEF GroupsInv
  <2>4. ASSUME NEW h \in Families, NEW k \in Families,
               Filled(h)', Filled(k)', GroupOf(h)' = GroupOf(k)'
        PROVE  h = k
    BY <1>1, <1>5, <2>4, LoadEffect DEF GroupsInv
  <2> QED BY <2>2, <2>3, <2>4 DEF GroupsInv
<1>6. CASE Serve
  BY <1>2, <1>3, <1>4, <1>5, <1>6 DEF Serve, Miss, SyncForVictim, ReadHit, lines
<1>7. CASE [Next]_vars /\ ~Serve
  BY <1>2, <1>3, <1>7 DEF Next, Request, SetReady, IdleSync, vars, lines
<1> QED BY <1>6, <1>7

(* A miss keeps its group uncached and its buffer up to date. *)
LEMMA MissStep ==
  ASSUME IInv, [Next]_vars
  PROVE  MissInv'
<1>1. TypeOK /\ GroupsInv /\ MissInv /\ CleanInv /\ FlagInv
  BY DEF IInv
<1>2. MasterBoot # SuperBlock /\ \A b \in Used : b # MasterBoot
  BY HddAssumption DEF MasterBoot, SuperBlock
<1>3. CASE UNCHANGED <<block, disk, op>>
  BY <1>1, <1>3 DEF MissInv, Filled, GroupOf
<1>4. CASE op'.at \in {"none", "find"} /\ op'.block # MasterBoot
  BY <1>4 DEF MissInv
<1>5. CASE Miss
  <2>1. op.block \in Blocks /\ op.block # MasterBoot
    BY <1>1 DEF TypeOK, MissInv
  <2>2. \A f \in Families : Filled(f) => GroupOf(f) # op.block[1]
    BY <1>1, <1>5, <2>1, NoHit DEF Miss
  <2>3. op'.block = op.block /\ \A i \in Offsets : op'.buffer[i] = disk[<<op.block[1], i>>]
    BY <1>1, <1>5 DEF Miss, TypeOK
  <2>4. block' = block /\ disk' = disk
    BY <1>5 DEF Miss, lines
  <2> QED BY <2>1, <2>2, <2>3, <2>4 DEF MissInv, Filled, GroupOf
<1>6. CASE SyncForVictim
  <2>1. op'.block = op.block /\ op'.buffer = op.buffer /\ block' = block
    BY <1>1, <1>6 DEF SyncForVictim, TypeOK
  <2>2. \A f \in Families : Filled(f) => GroupOf(f) # op.block[1]
    BY <1>1, <1>6 DEF SyncForVictim, MissInv
  <2>3. ASSUME NEW i \in Offsets
        PROVE  /\ op.buffer[i] = disk[<<op.block[1], i>>]
               /\ disk'[<<op.block[1], i>>] = disk[<<op.block[1], i>>]
    <3>1. <<op.block[1], i>> \in Blocks
      BY <1>1 DEF TypeOK, Blocks
    <3>2. FullSync \/ PartialSync
      BY <1>6 DEF SyncForVictim
    <3> QED BY <1>1, <1>6, <2>2, <3>1, <3>2, SyncEffect DEF SyncForVictim, MissInv
  <2> QED BY <1>1, <2>1, <2>2, <2>3 DEF MissInv, Filled, GroupOf
<1>7. ASSUME NEW f \in Families, Load(f) PROVE MissInv'
  BY <1>1, <1>4, <1>7 DEF Load, MissInv, TypeOK
<1>8. CASE ReadHit \/ WriteHit
  BY <1>2, <1>4, <1>8 DEF ReadHit, WriteHit, NoCall
<1>9. CASE IdleSync
  BY <1>1, <1>4, <1>9 DEF IdleSync, MissInv
<1>10. ASSUME NEW kind, NEW b \in Used, NEW v, Request(kind, b, v) PROVE MissInv'
  BY <1>2, <1>4, <1>10 DEF Request
<1>11. CASE SetReady \/ UNCHANGED vars
  BY <1>3, <1>11 DEF SetReady, vars, lines
<1> QED BY <1>5, <1>6, <1>7, <1>8, <1>9, <1>10, <1>11 DEF Next, Serve

(* No line has more writes than there were calls. *)
LEMMA CountStep ==
  ASSUME IInv, [Next]_vars
  PROVE  CountInv'
<1>1. TypeOK /\ GroupsInv /\ CountInv /\ CleanInv /\ FlagInv
  BY DEF IInv
<1>2. ASSUME NEW f \in Families, NEW i \in Offsets
      PROVE  writes[f][i] \in Nat /\ calls \in Nat
  BY <1>1 DEF TypeOK
<1>3. ASSUME calls' = calls, op'.at = "none" <=> op.at = "none",
             \A f \in Families, i \in Offsets : writes'[f][i] \in {0, writes[f][i]}
      PROVE  CountInv'
  <2>1. ASSUME NEW f \in Families, NEW i \in Offsets
        PROVE  IF op'.at = "none" THEN writes'[f][i] <= calls' ELSE writes'[f][i] < calls'
    BY <1>1, <1>2, <1>3 DEF CountInv
  <2> QED BY <2>1 DEF CountInv
<1>4. CASE UNCHANGED <<writes, calls>> /\ op'.at = op.at
  BY <1>3, <1>4
<1>5. ASSUME NEW kind, NEW b, NEW v, Request(kind, b, v) PROVE CountInv'
  <2>1. writes' = writes /\ calls' = calls + 1 /\ op.at = "none" /\ op'.at = "find"
    BY <1>5 DEF Request, lines
  <2>2. ASSUME NEW f \in Families, NEW i \in Offsets
        PROVE  writes'[f][i] < calls'
    BY <1>1, <1>2, <2>1 DEF CountInv
  <2> QED BY <2>1, <2>2 DEF CountInv
<1>6. CASE Miss
  <2>1. op.at = "find" /\ op'.at = "miss" /\ writes' = writes /\ calls' = calls
    BY <1>1, <1>6 DEF Miss, TypeOK, lines
  <2> QED BY <1>3, <2>1
<1>7. CASE SyncForVictim
  <2>1. op.at = "miss" /\ op'.at = "synced" /\ calls' = calls
    BY <1>1, <1>7 DEF SyncForVictim, TypeOK
  <2>2. \A f \in Families, i \in Offsets : writes'[f][i] \in {0, writes[f][i]}
    BY <1>1, <1>7, SyncEffect DEF SyncForVictim
  <2> QED BY <1>3, <2>1, <2>2
<1>8. CASE IdleSync
  <2>1. op' = op /\ calls' = calls
    BY <1>8 DEF IdleSync
  <2>2. \A f \in Families, i \in Offsets : writes'[f][i] \in {0, writes[f][i]}
    BY <1>1, <1>8, SyncEffect DEF IdleSync
  <2> QED BY <1>3, <2>1, <2>2
<1>9. ASSUME NEW f \in Families, Load(f) PROVE CountInv'
  <2>1. op.at # "none" /\ op'.at = "find" /\ calls' = calls
    BY <1>1, <1>9 DEF Load, TypeOK
  <2>2. \A h \in Families, i \in Offsets : writes'[h][i] \in {0, writes[h][i]}
    BY <1>9, LoadEffect
  <2> QED BY <1>3, <2>1, <2>2
<1>10. CASE ReadHit \/ WriteHit
  <2>1. op.at = "find" /\ op'.at = "none" /\ calls' = calls
    BY <1>10 DEF ReadHit, WriteHit, NoCall
  <2>2. ASSUME NEW f \in Families, NEW i \in Offsets
        PROVE  writes'[f][i] \in {writes[f][i], writes[f][i] + 1}
    <3>1. CASE ReadHit
      BY <3>1 DEF ReadHit
    <3>2. CASE WriteHit
      <4>1. PICK g \in Families, k \in Offsets :
              \/ writes' = writes
              \/ writes' = [writes EXCEPT ![g][k] = writes[g][k] + 1]
        BY <3>2, WriteEffect
      <4>2. writes \in [Families -> [Offsets -> 0 .. Width - 1]]
        BY <1>1 DEF TypeOK
      <4> QED BY ONLY <4>1, <4>2, f \in Families, i \in Offsets, g \in Families, k \in Offsets
    <3> QED BY <1>10, <3>1, <3>2
  <2>3. ASSUME NEW f \in Families, NEW i \in Offsets
        PROVE  writes'[f][i] <= calls'
    <3>1. writes[f][i] < calls
      BY <1>1, <2>1 DEF CountInv
    <3> QED BY <1>2, <2>1, <2>2, <3>1
  <2> QED BY <2>1, <2>3 DEF CountInv
<1>11. CASE SetReady \/ UNCHANGED vars
  BY <1>4, <1>11 DEF SetReady, vars, lines
<1> QED BY <1>5, <1>6, <1>7, <1>8, <1>9, <1>10, <1>11 DEF Next, Serve

(* Lines without writes stay as on the disk. *)
LEMMA CleanStep ==
  ASSUME IInv, [Next]_vars
  PROVE  CleanInv'
<1>1. TypeOK /\ GroupsInv /\ MissInv /\ CleanInv /\ FlagInv
  BY DEF IInv
<1>2. CASE UNCHANGED <<block, writes, data, disk>>
  BY <1>1, <1>2 DEF CleanInv, Filled
<1>3. ASSUME FullSync \/ PartialSync, UNCHANGED <<block, data>> PROVE CleanInv'
  BY <1>1, <1>3, SyncEffect DEF CleanInv, Filled
<1>4. CASE WriteHit
  <2>1. PICK f \in Families, i \in Offsets :
          /\ data' = [data EXCEPT ![f][i] = op.value]
          /\ \/ data[f][i] = op.value /\ writes' = writes
             \/ writes' = [writes EXCEPT ![f][i] = writes[f][i] + 1]
    BY <1>4, WriteEffect
  <2>2. block' = block /\ disk' = disk
    BY <1>4 DEF WriteHit
  <2>3. /\ writes \in [Families -> [Offsets -> 0 .. Width - 1]]
        /\ data \in [Families -> [Offsets -> Values]]
    BY <1>1 DEF TypeOK
  <2>4. ASSUME NEW h \in Families, NEW k \in Offsets, writes'[h][k] = 0
        PROVE  writes[h][k] = 0 /\ data'[h][k] = data[h][k]
    <3>1. CASE h = f /\ k = i
      <4>1. writes[f][i] + 1 # 0
        BY <2>3
      <4>2. writes' = writes /\ data[f][i] = op.value
        BY <2>1, <2>3, <2>4, <3>1, <4>1
      <4> QED BY <2>1, <2>3, <2>4, <3>1, <4>2
    <3>2. CASE ~(h = f /\ k = i)
      BY <2>1, <2>3, <2>4, <3>2
    <3> QED BY <3>1, <3>2
  <2> QED BY <1>1, <2>2, <2>4 DEF CleanInv, Filled
<1>5. ASSUME NEW f \in Families, Load(f) PROVE CleanInv'
  <2>1. ASSUME NEW i \in Offsets PROVE data'[f][i] = disk'[block'[f][i]]
    <3>1. <<op.block[1], i>> \in Blocks
      BY <1>1 DEF TypeOK, Blocks
    <3>2. ~Filled(f) \/ GroupOf(f) # op.block[1]
      BY <1>5, LoadEffect
    <3>3. disk'[<<op.block[1], i>>] = disk[<<op.block[1], i>>]
      BY <1>5, <3>1, <3>2, EvictionDisk
    <3>4. op.buffer[i] = disk[<<op.block[1], i>>]
      BY <1>1, <1>5, VictimOf DEF MissInv
    <3> QED BY <1>5, <3>3, <3>4, LoadEffect
  <2>2. ASSUME NEW h \in Families \ {f}, NEW i \in Offsets,
               Filled(h)', writes'[h][i] = 0
        PROVE  data'[h][i] = disk'[block'[h][i]]
    <3>1. /\ Filled(h) /\ writes[h][i] = 0 /\ block'[h][i] = block[h][i]
          /\ data'[h][i] = data[h][i]
      BY <1>5, <2>2, LoadEffect
    <3>2. block[h][i] = <<GroupOf(h), i>> /\ block[h][i] \in Blocks
      BY <1>1, <3>1 DEF GroupsInv, TypeOK
    <3>3. ~Filled(f) \/ GroupOf(f) # GroupOf(h)
      BY <1>1, <3>1 DEF GroupsInv
    <3>4. disk'[block[h][i]] = disk[block[h][i]]
      BY <1>5, <3>2, <3>3, EvictionDisk
    <3> QED BY <1>1, <3>1, <3>4 DEF CleanInv
  <2> QED BY <2>1, <2>2 DEF CleanInv
<1>6. CASE Serve
  BY <1>2, <1>3, <1>4, <1>5, <1>6 DEF Serve, Miss, SyncForVictim, ReadHit, lines
<1>7. CASE [Next]_vars /\ ~Serve
  BY <1>2, <1>3, <1>7 DEF Next, Request, SetReady, IdleSync, vars, lines
<1> QED BY <1>6, <1>7

(* dirty_cache = 0 goes on meaning that the first families are clean. *)
LEMMA FlagStep ==
  ASSUME IInv, [Next]_vars
  PROVE  FlagInv'
<1>1. TypeOK /\ GroupsInv /\ CleanInv /\ FlagInv
  BY DEF IInv
<1>2. Synced \in SUBSET Families
  BY HddAssumption DEF Synced, Families
<1>3. CASE UNCHANGED <<writes, dirty_cache>> /\ (op'.at = "synced" => op.at = "synced")
  BY <1>1, <1>3 DEF FlagInv
<1>4. CASE Miss
  BY <1>1, <1>3, <1>4 DEF Miss, lines, TypeOK
<1>5. CASE SyncForVictim
  BY <1>1, <1>5, SyncEffect DEF SyncForVictim, FlagInv
<1>6. CASE IdleSync
  <2>1. op'.at = "none"
    BY <1>6 DEF IdleSync
  <2> QED BY <1>1, <1>6, <2>1, SyncEffect DEF IdleSync, FlagInv
<1>7. ASSUME NEW f \in Families, Load(f) PROVE FlagInv'
  <2>1. op'.at = "find" /\ dirty_cache' = dirty_cache
    BY <1>1, <1>7 DEF Load, TypeOK
  <2>2. \A h \in Families, i \in Offsets : writes'[h][i] \in {0, writes[h][i]}
    BY <1>7, LoadEffect
  <2> QED BY <1>1, <1>2, <2>1, <2>2 DEF FlagInv
<1>8. CASE WriteHit
  <2>1. dirty_cache' \/ (~dirty_cache /\ writes' = writes)
    BY <1>8, WriteEffect
  <2>2. op'.at = "none"
    BY <1>8 DEF WriteHit, NoCall
  <2> QED BY <1>1, <2>1, <2>2 DEF FlagInv
<1>9. CASE ReadHit \/ SetReady \/ UNCHANGED vars
  BY <1>3, <1>9 DEF ReadHit, NoCall, SetReady, vars, lines
<1>10. ASSUME NEW kind, NEW b, NEW v, Request(kind, b, v) PROVE FlagInv'
  BY <1>3, <1>10 DEF Request, lines
<1> QED BY <1>4, <1>5, <1>6, <1>7, <1>8, <1>9, <1>10 DEF Next, Serve

(* Together they are inductive. *)
THEOREM IInvCorrect == Spec => []IInv
<1>1. IInv /\ [Next]_vars => IInv'
  BY TypeStep, GroupsStep, MissStep, CountStep, CleanStep, FlagStep DEF IInv
<1> QED BY <1>1, InitHolds, PTL DEF Spec

-----------------------------------------------------------------------------
(* hdd.h: the fields of the cache keep their types. *)
THEOREM HddTypeCorrect == Spec => []TypeOK
<1>1. IInv => TypeOK
  BY DEF IInv
<1> QED BY <1>1, IInvCorrect, PTL

(* hdd_get_block: whatever its loop finds first is the only line of a block. *)
THEOREM OneLineCorrect == Spec => []OneLinePerBlock
<1>1. IInv => OneLinePerBlock
  <2> SUFFICES ASSUME IInv, NEW b \in Blocks, b # MasterBoot,
                      NEW l \in Hits(b), NEW k \in Hits(b)
               PROVE  l = k
    BY DEF OneLinePerBlock
  <2>1. TypeOK /\ GroupsInv
    BY DEF IInv
  <2>2. /\ l[1] \in Families /\ l = <<l[1], b[2]>> /\ Filled(l[1]) /\ GroupOf(l[1]) = b[1]
        /\ k[1] \in Families /\ k = <<k[1], b[2]>> /\ Filled(k[1]) /\ GroupOf(k[1]) = b[1]
    BY <2>1, HitIsFilled
  <2> QED BY <2>1, <2>2 DEF GroupsInv
<1> QED BY <1>1, IInvCorrect, PTL

(* hdd_cache_sync may return at once when dirty_cache is 0. *)
THEOREM NotDirtyCorrect == Spec => []NotDirtyIsOnDisk
<1>1. IInv => NotDirtyIsOnDisk
  <2> SUFFICES ASSUME IInv, ~dirty_cache, NEW f \in Synced, NEW i \in Offsets,
                      block[f][i] # MasterBoot
               PROVE  disk[block[f][i]] = data[f][i]
    BY DEF NotDirtyIsOnDisk
  <2>1. f \in Families
    BY HddAssumption DEF Synced, Families
  <2>2. Filled(f)
    BY <2>1 DEF IInv, GroupsInv
  <2>3. writes[f][i] = 0
    BY DEF IInv, FlagInv
  <2> QED BY <2>1, <2>2, <2>3 DEF IInv, CleanInv
<1> QED BY <1>1, IInvCorrect, PTL

-----------------------------------------------------------------------------
(* What a read would return: the line of the family that holds the group, or *)
(* else the disk.                                                            *)
SeenIs ==
  \A b \in Blocks \ {MasterBoot} :
    /\ \A f \in Families : Filled(f) /\ GroupOf(f) = b[1] => Seen(b) = data[f][b[2]]
    /\ (\A f \in Families : Filled(f) => GroupOf(f) # b[1]) => Seen(b) = disk[b]

LEMMA SeenHolds == TypeOK /\ GroupsInv => SeenIs
<1> SUFFICES ASSUME TypeOK, GroupsInv, NEW b \in Blocks, b # MasterBoot
             PROVE  /\ \A f \in Families :
                         Filled(f) /\ GroupOf(f) = b[1] => Seen(b) = data[f][b[2]]
                    /\ (\A f \in Families : Filled(f) => GroupOf(f) # b[1]) =>
                         Seen(b) = disk[b]
  BY DEF SeenIs
<1>1. ASSUME NEW f \in Families, Filled(f), GroupOf(f) = b[1]
      PROVE  Seen(b) = data[f][b[2]]
  <2>1. Hits(b) = {<<f, b[2]>>} /\ Line(b) = <<f, b[2]>>
    BY <1>1, LineOfFilled
  <2> QED BY <2>1 DEF Seen
<1>2. ASSUME \A f \in Families : Filled(f) => GroupOf(f) # b[1]
      PROVE  Seen(b) = disk[b]
  BY <1>2, NoHit DEF Seen
<1> QED BY <1>1, <1>2

LEMMA LossStep ==
  ASSUME IInv, [Next]_vars, TypeOK', GroupsInv', SeenIs, SeenIs'
  PROVE  LosesByEviction
<1> SUFFICES ASSUME NEW b \in Used, Seen(b) = last[b], Seen(b)' # last'[b]
             PROVE  \E f \in Families \ Synced :
                      Evicted(f) /\ Dirty(f) /\ ~WritesBack(f)
  BY DEF LosesByEviction
<1>1. TypeOK /\ GroupsInv /\ MissInv /\ CleanInv /\ FlagInv
  BY DEF IInv
<1>2. b \in Blocks \ {MasterBoot} /\ b = <<b[1], b[2]>> /\ b[2] \in Offsets
  BY HddAssumption DEF Blocks
<1>3. CASE UNCHANGED <<block, data, disk, last>>
  BY <1>1, <1>2, <1>3 DEF SeenIs, Filled, GroupOf
<1>4. ASSUME FullSync \/ PartialSync, UNCHANGED <<block, data, last>> PROVE FALSE
  <2>1. CASE \E f \in Families : Filled(f) /\ GroupOf(f) = b[1]
    BY <1>2, <1>4, <2>1 DEF SeenIs, Filled, GroupOf
  <2>2. CASE \A f \in Families : Filled(f) => GroupOf(f) # b[1]
    <3>1. disk'[b] = disk[b]
      BY <1>1, <1>2, <1>4, <2>2, SyncEffect
    <3> QED BY <1>2, <1>4, <2>2, <3>1 DEF SeenIs, Filled, GroupOf
  <2> QED BY <2>1, <2>2
<1>5. CASE WriteHit
  <2>1. PICK f \in Families, i \in Offsets :
          /\ Filled(f) /\ block[f][i] = op.block
          /\ data' = [data EXCEPT ![f][i] = op.value]
    BY <1>5, WriteEffect
  <2>2. op.block = <<GroupOf(f), i>> /\ op.block \in Blocks
    BY <1>1, <2>1 DEF GroupsInv, TypeOK
  <2>3. /\ block' = block /\ disk' = disk
        /\ last' = [last EXCEPT ![op.block] = op.value]
    BY <1>5 DEF WriteHit
  <2>4. data \in [Families -> [Offsets -> Values]] /\ last \in [Blocks -> Values]
    BY <1>1 DEF TypeOK
  <2>5. CASE b = op.block
    <3>1. Seen(b)' = data'[f][i] /\ last'[b] = op.value
      BY <1>2, <2>1, <2>2, <2>3, <2>4, <2>5 DEF SeenIs, Filled, GroupOf
    <3> QED BY <2>1, <2>4, <3>1
  <2>6. CASE b # op.block
    <3>1. last'[b] = last[b]
      BY <1>2, <2>3, <2>4, <2>6
    <3>2. CASE \E h \in Families : Filled(h) /\ GroupOf(h) = b[1]
      <4>1. PICK h \in Families : Filled(h) /\ GroupOf(h) = b[1]
        BY <3>2
      <4>2. ~(h = f /\ b[2] = i)
        BY <1>2, <2>2, <2>6, <4>1
      <4>3. data'[h][b[2]] = data[h][b[2]]
        BY <1>2, <2>1, <2>4, <4>2
      <4> QED BY <1>2, <2>3, <3>1, <4>1, <4>3 DEF SeenIs, Filled, GroupOf
    <3>3. CASE \A h \in Families : Filled(h) => GroupOf(h) # b[1]
      BY <1>2, <2>3, <3>1, <3>3 DEF SeenIs, Filled, GroupOf
    <3> QED BY <3>2, <3>3
  <2> QED BY <2>5, <2>6
<1>6. ASSUME NEW f \in Families, Load(f)
      PROVE  \E g \in Families \ Synced : Evicted(g) /\ Dirty(g) /\ ~WritesBack(g)
  <2>1. last' = last
    BY <1>6 DEF Load
  <2>2. CASE b[1] = op.block[1]
    <3>1. Seen(b) = disk[b]
      BY <1>2, <1>6, <2>2, LoadEffect DEF SeenIs
    <3>2. Seen(b)' = data'[f][b[2]]
      BY <1>2, <1>6, <2>2, LoadEffect DEF SeenIs
    <3>3. data'[f][b[2]] = op.buffer[b[2]]
      BY <1>2, <1>6, LoadEffect
    <3>4. op.buffer[b[2]] = disk[b]
      BY <1>1, <1>2, <1>6, <2>2, VictimOf DEF MissInv
    <3> QED BY <2>1, <3>1, <3>2, <3>3, <3>4
  <2>3. CASE /\ b[1] # op.block[1]
             /\ \E h \in Families \ {f} : Filled(h) /\ GroupOf(h) = b[1]
    <3>1. PICK h \in Families \ {f} : Filled(h) /\ GroupOf(h) = b[1]
      BY <2>3
    <3>2. Filled(h)' /\ GroupOf(h)' = b[1] /\ data'[h] = data[h]
      BY <1>6, <3>1, LoadEffect
    <3> QED BY <1>2, <2>1, <3>1, <3>2 DEF SeenIs
  <2>4. CASE /\ b[1] # op.block[1]
             /\ \A h \in Families \ {f} : Filled(h) => GroupOf(h) # b[1]
    <3>1. \A h \in Families : Filled(h)' => GroupOf(h)' # b[1]
      BY <1>6, <2>4, LoadEffect
    <3>2. Seen(b)' = disk'[b]
      BY <1>2, <3>1 DEF SeenIs
    <3>3. CASE ~Filled(f) \/ GroupOf(f) # b[1]
      <4>1. Seen(b) = disk[b]
        BY <1>2, <2>4, <3>3 DEF SeenIs
      <4>2. disk'[b] = disk[b]
        BY <1>2, <1>6, <3>3, EvictionDisk
      <4> QED BY <2>1, <3>2, <4>1, <4>2
    <3>4. CASE Filled(f) /\ GroupOf(f) = b[1]
      <4>1. Seen(b) = data[f][b[2]]
        BY <1>2, <3>4 DEF SeenIs
      <4>2. ~WritesBack(f)
        BY <1>2, <1>6, <2>1, <3>2, <3>4, <4>1, EvictionDisk
      <4>3. disk'[b] = disk[b]
        BY <1>2, <1>6, <4>2, EvictionDisk
      <4>4. block[f][b[2]] = b
        BY <1>1, <1>2, <3>4 DEF GroupsInv
      <4>5. writes[f][b[2]] # 0
        BY <1>1, <1>2, <2>1, <3>2, <3>4, <4>1, <4>3, <4>4 DEF CleanInv
      <4>6. Dirty(f)
        BY <1>1, <1>2, <4>5 DEF Dirty, TypeOK
      <4>7. op.at = "synced"
        BY <1>6, <4>6, VictimOf
      <4>8. f \notin Synced
        BY <1>2, <1>1, <4>5, <4>7 DEF FlagInv
      <4>9. block'[f] # block[f]
        <5>1. GroupOf(f)' = op.block[1]
          BY <1>6, LoadEffect
        <5> QED BY <2>4, <3>4, <5>1 DEF GroupOf
      <4> QED BY <4>2, <4>6, <4>7, <4>8, <4>9 DEF Evicted
    <3> QED BY <3>3, <3>4
  <2> QED BY <2>2, <2>3, <2>4
<1>7. CASE Serve
  BY <1>3, <1>4, <1>5, <1>6, <1>7 DEF Serve, Miss, SyncForVictim, ReadHit, lines
<1>8. CASE [Next]_vars /\ ~Serve
  BY <1>3, <1>4, <1>8 DEF Next, Request, SetReady, IdleSync, vars, lines
<1> QED BY <1>7, <1>8

(* hdd_cache_add and hdd_flush_family lose writes in one way only: a family *)
(* beyond those of hdd_cache_sync, evicted with few writes.                 *)
THEOREM LossesCorrect == Spec => LostOnlyByEviction
<1>1. IInv => TypeOK /\ GroupsInv
  BY DEF IInv
<1>2. IInv /\ [Next]_vars /\ IInv' /\ SeenIs /\ SeenIs' => LosesByEviction
  BY LossStep DEF IInv
<1> QED BY <1>1, <1>2, IInvCorrect, SeenHolds, PTL DEF Spec, LostOnlyByEviction
=============================================================================
