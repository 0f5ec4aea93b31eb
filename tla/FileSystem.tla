----------------------------- MODULE FileSystem -----------------------------
(***************************************************************************)
(* kernel/fs/fs.c: inodes, directories, the two bitmaps and the calls on    *)
(* names, as the call gate reaches them (a call is not interrupted).        *)
(*                                                                         *)
(* The module-wide statics of fs.c that one helper leaves for the next (the *)
(* inode n, the block b, dir_op_offset) are fields of the state a call      *)
(* works on, so a helper that overwrites what its caller still needs does   *)
(* so here too.  A directory block is the sequence of its entries, all of   *)
(* one size, Cap of them in a block; the bytes of files are FileBlocks's.   *)
(***************************************************************************)
EXTENDS Integers, Sequences, FiniteSets

CONSTANTS
  NInodes, NBlocks,   \* entries of the inode table, data blocks
  NLog,               \* logical blocks a file may have in the instance
  Cap,                \* directory entries in a block
  Names,              \* names programs use
  BootDirs,           \* the directories fs_init makes below /
  Uids, Gid,          \* users that log in; user_gid, by uid
  Perms,              \* arguments of chmod, as sets of bits
  Setups,             \* what was made before: sequences of <<kind, name, inode>>
  Calls,              \* the calls made in this instance
  MaxCalls            \* how many calls are made

ASSUME FsAssumption ==
  /\ {NInodes, NBlocks, NLog, Cap, MaxCalls} \subseteq Nat
  /\ Cap > 2 /\ NLog > 1 /\ 0 \in Uids
  /\ Names \cap {".", "..", "hole", "gone", "/"} = {}

VARIABLES
  fs,      \* the disk, the bitmaps in memory and the statics of fs.c
  pwd,     \* current_ttyc()->pwd
  uid,     \* current_ttyc()->uid
  fd,      \* the inode of an open descriptor, 0 if there is none
  last,    \* the last call and what it returned
  damage,  \* not in the code: what has gone wrong so far, by Harm below
  calls

vars == <<fs, pwd, uid, fd, last, damage, calls>>

ERR_PERMS == -2
ERR_NO_EXIST == -3
ERR_EXISTS == -4
ERR_REPEATED == -5
ERR_INVALID_TYPE == -6

Inodes == 1..NInodes
Blocks == 1..NBlocks
Modes  == {"none", "dir", "reg", "lnk", "fifo"}
Bits   == {"ur", "uw", "gr", "gw", "or", "ow"}
AllBits == Bits   \* i_file_acl = 511

NoInode == [mode |-> "none", uid |-> 0, acl |-> {}, links |-> 0, dir |-> 0,
            blocks |-> 0, tail |-> FALSE, data |-> [l \in 0..NLog-1 |-> 0]]
Entry(nm, i) == [name |-> nm, ino |-> i]
Hole == Entry("hole", 0)   \* swallowed by the rec_len of the entry before it

(***************************************************************************)
(* Blocks and inodes                                                        *)
(***************************************************************************)

FirstFree(used, size) ==      \* bitmap_first_valued(bm, size, 0) + 1
  IF used = 1..size THEN 0 ELSE CHOOSE i \in 1..size \ used :
                                  \A j \in 1..size \ used : i <= j

InodeRead(s, i)     == [s EXCEPT !.n = s.ino[i]]
InodeWrite(s, i)    == [s EXCEPT !.ino[i] = s.n]
Sync(s)             == [s EXCEPT !.dibm = s.ibm, !.dbbm = s.bbm]

\* The block of s.n at l, allocated if it has none: in the bitmap and in the
\* inode in memory only.  A full disk makes bitmap_write and the block layer
\* run outside their tables: what follows is not modelled (bad).
MakePh(s, l) ==
  IF s.bad \/ l >= NLog THEN [s EXCEPT !.bad = TRUE]
  ELSE IF s.n.data[l] # 0 THEN s
  ELSE LET ph == FirstFree(s.bbm, NBlocks) IN
       IF ph = 0 THEN [s EXCEPT !.bad = TRUE]
       ELSE [s EXCEPT !.bbm = @ \union {ph}, !.n.data[l] = ph]

Marked(t, l) == [t EXCEPT !.bbm = @ \union {t.n.data[l]}]
Loaded(t, l) == IF t.bad THEN t ELSE Marked([t EXCEPT !.b = t.blk[t.n.data[l]]], l)
Stored(t, l) == IF t.bad THEN t ELSE Marked([t EXCEPT !.blk[t.n.data[l]] = t.b], l)

ReadLog(s, l)  == Loaded(MakePh(s, l), l)
WriteLog(s, l) == Stored(MakePh(s, l), l)

HasPerms(s, u, what) ==
  \/ ~s.done
  \/ s.n.uid = u /\ (IF what = "read" THEN "ur" ELSE "uw") \in s.n.acl
  \/ Gid[s.n.uid] = Gid[u] /\ (IF what = "read" THEN "gr" ELSE "gw") \in s.n.acl
  \/ (IF what = "read" THEN "or" ELSE "ow") \in s.n.acl

(***************************************************************************)
(* Directories                                                              *)
(***************************************************************************)

\* Mutant: one entry more than a block has room for.
AddEntryOver(s, nm, i, l) ==
  [s |-> [s EXCEPT !.b = Append(@, Entry(nm, i)), !.off = Len(s.b) + 1], l |-> l]

\* Puts an entry in s.b, the block l of s.n.  A full block is written, the
\* next one is read, and its first entry is overwritten.
AddEntry(s, nm, i, l) ==
  IF Len(s.b) < Cap
  THEN [s |-> IF Len(s.b) < s.off THEN s   \* behind zeros, where no scan gets
              ELSE [s EXCEPT !.b = Append(@, Entry(nm, i)), !.off = Len(s.b) + 1],
        l |-> l]
  ELSE LET t == ReadLog(WriteLog(s, l), l + 1) IN
       [s |-> [t EXCEPT !.b = <<Entry(nm, i)>> \o
                              (IF @ = <<>> THEN <<>> ELSE Tail(@)), !.off = 1],
        l |-> l + 1]

\* Mutant: the block is never written.
AddNameUnwritten(s, dir, nm, i, saveBlocks) == InodeWrite(InodeRead(s, dir), dir)

\* The part of the calls that create: a new name in a directory.
AddName(s, dir, nm, i, saveBlocks) ==
  LET r == InodeRead(s, dir)
      o == ReadLog([r EXCEPT !.off = 0], r.n.blocks)
      a == AddEntry(o, nm, i, r.n.blocks)
      w == WriteLog(a.s, a.l)
  IN  InodeWrite(IF saveBlocks THEN [w EXCEPT !.n.blocks = a.l] ELSE w, dir)

\* Reads the blocks of a directory one after the other up to the first entry
\* that matches (at = 0: there is none).  The last block is only looked at when
\* it is also the first.
ScanTop(s) == IF s.n.blocks = 0 THEN 0 ELSE s.n.blocks - 1
Before(g, h) == g[1] < h[1] \/ (g[1] = h[1] /\ g[2] <= h[2])
FoundAt(t, h) ==
  LET b == t.blk[t.n.data[h[1]]] IN
  [s |-> [t EXCEPT !.b = b, !.off = IF h[2] = 0 THEN Len(b) ELSE h[2],
                   !.bbm = @ \union {t.n.data[l] : l \in 0..h[1]}],
   l |-> h[1], at |-> h[2]]
FirstIn(t, Match(_)) ==
  LET Entries(l) == t.blk[t.n.data[l]]
      hits == {h \in (0..ScanTop(t)) \X (1..Cap) :
                 h[2] <= Len(Entries(h[1])) /\ Match(Entries(h[1])[h[2]])}
  IN  IF t.bad THEN [s |-> t, l |-> 0, at |-> 0]
      ELSE FoundAt(t, IF hits = {} THEN <<ScanTop(t), 0>>
                      ELSE CHOOSE h \in hits : \A g \in hits : Before(h, g))
Scan(s, dir, Match(_)) ==
  FirstIn(ReadLog([InodeRead(s, dir) EXCEPT !.off = 0], 0), Match)

\* fs_indir: the inode a name stands for, 0 if there is none
InodeAt(c) == [s |-> c.s, i |-> IF c.at = 0 THEN 0 ELSE c.s.b[c.at].ino]
InDir(s, nm, dir) == InodeAt(Scan(s, dir, LAMBDA e : e.name = nm))

\* Mutant: the entry stays.
RemEntryKept(s, i, dir) == Scan(s, dir, LAMBDA e : e.ino = i).s

\* folder_rem_direntry: the first entry of a block stays, without a name
Erased(c, i) ==
  IF c.at = 0 THEN c.s
  ELSE WriteLog([c.s EXCEPT !.b[c.at] = IF c.at = 1 THEN Entry("gone", i) ELSE Hole],
                c.l)
RemEntry(s, i, dir) == Erased(Scan(s, dir, LAMBDA e : e.ino = i), i)

NewInode(s, u, i, mode, dir) ==
  [s EXCEPT !.ibm = @ \union {i},
            !.n = [NoInode EXCEPT !.mode = mode, !.uid = IF s.done THEN u ELSE 0,
                                  !.acl = AllBits, !.dir = dir]]

(***************************************************************************)
(* fs_rm.  The result is [s, r].  Frees the blocks from the last one down;  *)
(* in a directory every named entry is removed first, and dir_op_offset is  *)
(* then where the removal of the entry left it.                             *)
(***************************************************************************)
\* Directories that contain each other recurse past the end of the stack (bad).
Deeper(s) == [s EXCEPT !.deep = @ + 1, !.bad = @ \/ s.deep > NInodes]

\* Mutants: the bit after the block's; none.
FreeNext(s, ph) == [s EXCEPT !.bbm = @ \ {ph + 1}]
FreeNone(s, ph) == s

Free(s, ph)    == [s EXCEPT !.bbm = @ \ {ph}]
Fails(s, code) == [s |-> s, r |-> code]
\* What follows a step that may have failed.
Then(q, Rest(_)) == IF q.s.bad \/ q.r < 0 THEN q ELSE Rest(q)

RECURSIVE RmInode(_, _, _, _), RmBlocks(_, _, _, _), RmEntries(_, _, _, _)

RmInode(s, u, i, nested) ==
  LET t  == InodeRead(s, i)
      k  == t.n.data[0]      \* of a link, the inode it stands for
      lt == IF t.n.mode = "lnk" THEN [t EXCEPT !.ino[k].links = @ - 1] ELSE t
      p  == InodeRead(lt, t.n.dir)
      Unnamed(d) == IF nested THEN d ELSE RemEntry(d, i, d.ino[i].dir)
  IN  IF s.bad THEN Fails(s, 0)
      ELSE IF i = 1 \/ ~HasPerms(t, u, "write") \/ t.n.links > 0 THEN Fails(t, ERR_PERMS)
      ELSE IF ~nested /\ ~HasPerms(p, u, "write") THEN Fails(p, ERR_PERMS)
      ELSE Then(RmBlocks(InodeRead(lt, i), u, i, lt.ino[i].blocks), LAMBDA d :
                [s |-> Sync([Unnamed(d.s) EXCEPT !.ibm = @ \ {i}]), r |-> 1])

RmBlocks(s, u, i, l) ==
  LET Above(f)      == IF l = 0 THEN [s |-> f, r |-> 1] ELSE RmBlocks(f, u, i, l - 1)
      Emptied(q, ph) == Free([q.s EXCEPT !.blk[ph] = q.es], ph)
      OfDir(q, ph)  == IF q.s.bad \/ q.r < 0 THEN [s |-> Emptied(q, ph), r |-> q.r]
                       ELSE Above(Emptied(q, ph))
      Block(t, ph)  == IF t.bad THEN Fails(t, 0)
                       ELSE IF t.n.mode # "dir" THEN Above(Free(t, ph))
                       ELSE OfDir(RmEntries([t EXCEPT !.off = 0], u, i, t.blk[ph]), ph)
  IN  LET t == MakePh(s, l) IN Block(t, t.n.data[l])

RmEntries(s, u, i, es) ==
  LET k == s.off + 1
      e == es[k]
      After(q) ==
        IF q.s.bad \/ q.r < 0 THEN [s |-> q.s, es |-> es, r |-> q.r]
        ELSE RmEntries([InodeRead(q.s, i) EXCEPT
                          !.deep = s.deep,
                          !.off = IF s.ino[e.ino].mode = "dir" THEN q.s.off ELSE k],
                       u, i, [es EXCEPT ![k].name = "gone"])
  IN  IF k > Len(es) THEN [s |-> s, es |-> es, r |-> 1]
      ELSE IF e.name \in {"hole", "gone"} \/ e.ino \in {i, s.n.dir}
           THEN RmEntries([s EXCEPT !.off = k], u, i, es)
      ELSE After(RmInode(Deeper(s), u, e.ino, TRUE))

(***************************************************************************)
(* fs_open_file, fs_mkdir, fs_open_link                                     *)
(***************************************************************************)

\* flags \subseteq {"creat", "new", "rd", "wr"}.  Nothing here writes the
\* bitmaps to disk.
OpenFound(s, f, u, nm, dir, flags, type) ==
  LET o  == InodeRead(f.s, f.i)
      can == /\ "rd" \in flags => HasPerms(o, u, "read")
             /\ "wr" \in flags => HasPerms(o, u, "write")
      WithName(a, i) == IF a.bad THEN Fails(a, 0)
                     ELSE [s |-> InodeWrite(NewInode(a, u, i, type, dir), i), r |-> i]
      Made(t) ==
        LET i == FirstFree(t.ibm, NInodes)
            d == InodeRead(t, dir)
        IN  IF i = 0 THEN Fails([t EXCEPT !.bad = TRUE], 0)
            ELSE IF ~HasPerms(d, u, "write") THEN Fails(d, ERR_PERMS)
            ELSE WithName(AddName(t, dir, nm, i, FALSE), i)
  IN  IF f.s.bad THEN Fails(f.s, 0)
      ELSE IF f.i # 0 /\ "creat" \notin flags /\ "new" \in flags
           THEN [s |-> o, r |-> IF o.n.mode = "lnk" THEN o.n.data[0] ELSE f.i]
      ELSE IF f.i # 0 /\ flags \cap {"creat", "new"} = {}
           THEN IF s.done /\ ~can THEN Fails(o, ERR_PERMS)
                ELSE IF o.n.mode = "lnk" /\ ~s.fop THEN [s |-> o, r |-> o.n.data[0]]
                ELSE [s |-> [o EXCEPT !.fop = FALSE], r |-> f.i]
      ELSE IF flags \cap {"creat", "new"} = {} THEN Fails(f.s, ERR_NO_EXIST)
      ELSE IF f.i = 0 THEN Made(f.s)
      ELSE Then(RmInode(f.s, u, f.i, FALSE), LAMBDA q : Made(q.s))

OpenFile(s, u, nm, dir, flags, type) ==
  OpenFound(s, InDir(s, nm, dir), u, nm, dir, flags, type)

MkdirFound(f, u, nm, dir) ==
  LET i == FirstFree(f.s.ibm, NInodes)
      a == IF i = dir THEN f.s ELSE AddName(f.s, dir, nm, i, FALSE)
      t == NewInode(a, u, i, "dir", dir)
      w == WriteLog([t EXCEPT !.b = <<Entry(".", i), Entry("..", dir)>>, !.off = 2], 0)
  IN  IF f.i # 0 THEN [s |-> f.s, r |-> 0]
      ELSE IF f.s.bad \/ i = 0 THEN Fails([f.s EXCEPT !.bad = TRUE], 0)
      ELSE IF i # dir /\ ~HasPerms(InodeRead(f.s, dir), u, "write")
           THEN Fails(InodeRead(f.s, dir), ERR_PERMS)
      ELSE IF a.bad \/ w.bad THEN Fails([a EXCEPT !.bad = TRUE], 0)
      ELSE [s |-> Sync(InodeWrite([w EXCEPT !.n.tail = TRUE], i)), r |-> i]

Mkdir(s, u, nm, dir) == MkdirFound(InDir(s, nm, dir), u, nm, dir)

\* The number of the target goes where a file has its first block.
OpenLink(s, u, nm, target, dir) ==
  LET f == InDir(s, target, dir)
      Counted(g) == IF g.s.bad \/ g.r <= 0 THEN Fails([g.s EXCEPT !.bad = TRUE], 0)
                    ELSE [s |-> [g.s EXCEPT !.ino[g.r].links = @ + 1], r |-> 1]
      Linked(o)  == IF o.s.bad \/ o.r <= 0 THEN o
                    ELSE Counted(OpenFile([o.s EXCEPT !.ino[o.r].data[0] = f.i],
                                          u, target, dir, {"rd"}, "reg"))
  IN  IF f.s.bad THEN Fails(f.s, 0)
      ELSE IF f.i = 0 THEN Fails(f.s, ERR_NO_EXIST)
      ELSE Linked(OpenFile(f.s, u, nm, dir, {"new"}, "lnk"))

(***************************************************************************)
(* Contents.  tail: the last block of a file holds something.  A program    *)
(* writes less than a block, and the few writes of a run fill none; fs_cp   *)
(* writes whole blocks, whatever it has read.  What a directory holds after *)
(* bytes were written in it is not modelled (bad): the shell's > and fs_cp  *)
(* let that be.                                                             *)
(***************************************************************************)
ForBytes(s, i) == [InodeRead(s, i) EXCEPT !.bad = @ \/ s.ino[i].mode = "dir"]

WriteSome(s, i) ==
  LET r == ForBytes(s, i)
      w == WriteLog(ReadLog(r, r.n.blocks), r.n.blocks)
  IN  IF w.bad THEN w ELSE Sync(InodeWrite([w EXCEPT !.n.tail = TRUE], i))

WriteBlock(s, i) ==
  LET r == ForBytes(s, i)
      l == r.n.blocks
      w == WriteLog(ReadLog(WriteLog(ReadLog(r, l), l), l + 1), l + 1)
  IN  IF w.bad THEN w ELSE Sync(InodeWrite([w EXCEPT !.n.blocks = l + 1], i))

(***************************************************************************)
(* fs_cp.  A directory is read as a file is: its first block, then, as the  *)
(* size says there is one more, a block after it that nothing holds, whose  *)
(* first two entries replace those of the first block, then once more.      *)
(* Each of the three reads allocates that block for itself.                 *)
(***************************************************************************)
RECURSIVE Cp(_, _, _, _, _, _, _), CpFile(_, _, _, _), CpEntries(_, _, _, _, _)

ReadPast(s, i, l) == ReadLog(InodeRead(s, i), l)

\* Mutant: the directory is made, its entries are not copied.
CpDirEmpty(s, u, i1, i2) == [s |-> InodeRead(s, i1), r |-> i2]

CpDir(s, u, i1, i2) ==
  LET d1 == ReadLog(InodeRead(s, i1), 0)
      p1 == ReadLog(d1, 1)
      Last(e)  == [s |-> ReadPast(e.s, i1, 1), r |-> i2]
      Again(e) ==
        LET p == ReadPast(e.s, i1, 1)
            es == [k \in 1..Len(e.es) |-> IF k <= 2 /\ k <= Len(p.b) THEN p.b[k] ELSE e.es[k]]
        IN  IF p.bad THEN Fails(p, 0)
            ELSE Then(CpEntries([p EXCEPT !.off = 0], u, i1, i2,
                                IF p.b = <<>> THEN <<>> ELSE es), Last)
  IN  IF p1.bad THEN Fails(p1, 0)
      ELSE Then(CpEntries([p1 EXCEPT !.off = 0], u, i1, i2, d1.b), Again)

\* What is still to read: whole blocks from l on, and then the tail.
CpFile(s, i1, i2, l) ==
  IF s.bad \/ l > s.ino[i1].blocks \/ (l = s.ino[i1].blocks /\ ~s.ino[i1].tail)
  THEN [s |-> InodeRead(s, i1), r |-> i2]
  ELSE CpFile(WriteBlock(ReadPast(s, i1, l), i2), i1, i2, l + 1)

CpEntries(s, u, i1, i2, es) ==
  LET k == s.off + 1
      e == es[k]
      After(q) == CpEntries([q.s EXCEPT !.deep = s.deep], u, i1, i2,
                            [es EXCEPT ![k].name = "gone"])
  IN  IF k > Len(es) THEN [s |-> InodeRead(s, i1), es |-> es, r |-> 1]
      ELSE IF e.name \in {"hole", "gone"} \/ e.ino \in {i1, s.n.dir} \/ i2 = 0
           THEN CpEntries([s EXCEPT !.off = k], u, i1, i2, es)
      ELSE Then(Cp(Deeper(s), u, e.name, e.name, i1, i2, TRUE), After)

Cp(s, u, nm, new, from, to, nested) ==
  LET Written(c, i1) == IF c.s.bad \/ c.r < 0 THEN Fails(c.s, ERR_EXISTS)
                        ELSE CpFile(c.s, i1, c.r, 0)
      Filled(m, i1)  == IF m.s.bad \/ m.r < 0 THEN Fails(m.s, ERR_EXISTS)
                        ELSE CpDir(m.s, u, i1, m.r)
      OrNew(w, mode) == IF w.r < 0 THEN OpenFile(w.s, u, new, to, {"wr", "new"}, mode)
                        ELSE w
      Copied(n1, i1) ==
        IF n1.n.mode = "lnk" /\ nested THEN Fails(n1, 0)
        ELSE IF n1.n.mode # "dir"
             THEN Written(OrNew(OpenFile(n1, u, new, to, {"wr"}, n1.n.mode), n1.n.mode), i1)
        ELSE Filled(Mkdir(n1, u, new, to), i1)
  IN  IF s.bad THEN Fails(s, 0)
      ELSE Then(OpenFile([s EXCEPT !.fop = TRUE], u, nm, from, {"rd"}, "reg"),
                LAMBDA o : Copied(InodeRead(o.s, o.r), o.r))

(***************************************************************************)
(* fs_mv.  In place it looks the new name up in between, which leaves in n  *)
(* the directory and not the file.  Into a directory, a file is treated as  *)
(* if it had a ".." entry: writing one in the bytes of a file that has some *)
(* may never end (stuck).                                                   *)
(***************************************************************************)
MvRename(s, i1, from, new) ==
  LET t == AddName(RemEntry(s, i1, s.n.dir), from, new, i1, TRUE)
  IN  [s |-> t, r |-> IF t.bad THEN 0 ELSE 1]

\* The entry is in directory `to', at its block l: the old one is removed, and
\* the ".." of what was moved.
MvUnlink(s, i1, to, l, stuck) ==
  LET r == RemEntry(s, i1, s.ino[i1].dir)
      p == RemEntry(r, r.ino[i1].dir, i1)
      b == AddEntry(ReadLog(p, l), "..", to, l)
      z == WriteLog(b.s, b.l)
  IN  IF s.bad \/ p.bad \/ (stuck /\ p.n.mode # "dir" /\ p.n.tail)
           THEN Fails([p EXCEPT !.bad = TRUE], 0)
      ELSE IF z.bad THEN Fails(z, 0)
      ELSE [s |-> InodeWrite([z EXCEPT !.n.dir = to], i1), r |-> i1]

MvInto(s, i1, nm, to, stuck) ==
  LET a == AddEntry(ReadLog([s EXCEPT !.off = 0], s.n.blocks), nm, i1, s.n.blocks)
      w == WriteLog(a.s, a.l)
  IN  MvUnlink(InodeWrite([w EXCEPT !.n.blocks = a.l], to), i1, to, a.l, stuck)

\* f: what the new name stands for
MvFound(f, u, i1, nm, new, from, stuck) ==
  LET d == InodeRead(f.s, f.i)
      g == InDir(d, nm, f.i)
  IN  IF f.i = 0 THEN MvRename(f.s, i1, from, new)
      ELSE IF ~HasPerms(d, u, "read") THEN Fails(d, ERR_PERMS)
      ELSE IF d.n.mode # "dir" THEN Fails(d, ERR_INVALID_TYPE)
      ELSE IF g.i # 0 THEN Fails(g.s, ERR_REPEATED)
      ELSE MvInto(g.s, i1, nm, f.i, stuck)

Mv(s, u, nm, new, from, stuck) ==
  Then(OpenFile([s EXCEPT !.fop = TRUE], u, nm, from, {"rd", "wr"}, "reg"),
       LAMBDA o : MvFound(InDir(o.s, new, from), u, o.r, nm, new, from, stuck))

(***************************************************************************)
(* The calls                                                                *)
(***************************************************************************)

\* fs_init on an empty disk; it fills a block for "/" before "/" exists.
Empty == [ino |-> [i \in Inodes |-> NoInode], blk |-> [k \in Blocks |-> <<>>],
          ibm |-> {}, bbm |-> {}, dibm |-> {}, dbbm |-> {},
          n |-> NoInode, b |-> <<>>, off |-> 0, deep |-> 0, fop |-> FALSE,
          done |-> FALSE, bad |-> FALSE]

Rest(s) == [s EXCEPT !.n = NoInode, !.b = <<>>, !.off = 0, !.deep = 0]

FsInit ==
  LET slash == Mkdir(Empty, 0, "/", 1).s
      made[d \in SUBSET BootDirs] ==
        IF d = {} THEN slash
        ELSE LET x == CHOOSE y \in d : TRUE IN Mkdir(made[d \ {x}], 0, x, 1).s
  IN  Rest([Sync(made[BootDirs]) EXCEPT !.done = TRUE])

\* A disk some programs have already worked on, as root.
Build(plan) ==
  LET made[k \in 0..Len(plan)] ==
        IF k = 0 THEN FsInit
        ELSE LET p == plan[k] IN
             Rest(IF p[1] = "dir" THEN Mkdir(made[k - 1], 0, p[2], p[3]).s
                  ELSE OpenFile(made[k - 1], 0, p[2], p[3], {"new"}, p[1]).s)
  IN  made[Len(plan)]

Init ==
  /\ fs \in {Build(plan) : plan \in Setups}
  /\ pwd = 1 /\ uid = 0 /\ fd = 0
  /\ last = [op |-> "boot", ino |-> 0, name |-> "/", r |-> 1]
  /\ damage = {}
  /\ calls = 0

(***************************************************************************)
(* The tree as lookups see it                                               *)
(***************************************************************************)
Live == fs.ibm
DirsOf(s) == {i \in s.ibm : s.ino[i].mode = "dir"}
Places(s, d) == {p \in (0..ScanTop([n |-> s.ino[d]])) \X (1..Cap) :
                   /\ s.ino[d].data[p[1]] # 0
                   /\ p[2] <= Len(s.blk[s.ino[d].data[p[1]]])}
At(s, d, p) == s.blk[s.ino[d].data[p[1]]][p[2]]
Named(s, d) == {p \in Places(s, d) : At(s, d, p).name \in Names \union BootDirs}
BlocksOf(s, i) == IF s.ino[i].mode = "lnk" THEN {}
                  ELSE {s.ino[i].data[l] : l \in 0..NLog-1} \ {0}

\* A directory below another with more entries than come before its own name.
Crowded(s, d) ==
  \E p \in Named(s, d) : LET c == At(s, d, p).ino IN
    c \in DirsOf(s) /\ Cardinality(Places(s, c)) > p[2]

\* fs_cd takes every mode that shares a bit with a link's for a link: a regular
\* file leads to the inode with the number of its first block.
IsLink(i) == fs.ino[i].mode \in {"lnk", "reg"}
CdTo(i)   == IF IsLink(i) THEN fs.ino[i].data[0] ELSE i

\* What a call did that its caller is not told.  Everything the properties
\* except is here.
Harm(op, nm, q) ==
  LET gone == {i \in fs.ibm : i \notin q.s.ibm \/ q.s.ino[i].mode # fs.ino[i].mode}
      Is(kind, holds) == IF holds THEN {kind} ELSE {}
  IN  Is("half removed", q.r < 0 /\ ~(fs.bbm \subseteq q.s.bbm))
      \union Is("link removed", \E i \in gone : fs.ino[i].mode = "lnk")
      \union Is("link over a file", op = "link" /\ q.r = 1 /\ InDir(fs, nm, pwd).i # 0)
      \union Is("renamed below root", op = "mv" /\ q.r = 1 /\ fs.ino[pwd].dir # pwd)
      \union Is("moved into itself", op = "mv" /\ q.r > 1 /\ q.s.ino[q.r].dir = q.r)
      \union Is("entries skipped", \E i \in gone : i \in DirsOf(fs) /\ Crowded(fs, i))
      \union Is("full directory removed", \E i \in gone : fs.ino[i].data[1] # 0)
      \union Is("in a file", op = "cd" /\ q.r = 1 /\
                              fs.ino[CdTo(InDir(fs, nm, pwd).i)].mode # "dir")
      \union Is("written after removal", op = "write" /\ fd \notin fs.ibm)

Call(op) == op \in Calls /\ calls < MaxCalls /\ ~fs.bad /\ calls' = calls + 1

Returns(op, nm, i, result) ==
  \E q \in {result} :
    /\ fs' = Rest(q.s)
    /\ last' = [op |-> op, ino |-> i, name |-> nm, r |-> q.r]
    /\ damage' = damage \union Harm(op, nm, q)

Open(nm, flags, type) ==
  /\ Call("open")
  /\ Returns("open", nm, 0, OpenFile(fs, uid, nm, pwd, flags, type))
  /\ fd' = IF ~fs'.bad /\ last'.r > 0 THEN last'.r ELSE fd
  /\ UNCHANGED <<pwd, uid>>

Close == /\ fd # 0 /\ fd' = 0
         /\ UNCHANGED <<fs, pwd, uid, last, damage, calls>>

\* A descriptor keeps the number of its inode and nothing else.
Write ==
  /\ Call("write") /\ fd # 0
  /\ Returns("write", "", fd, [s |-> WriteSome(fs, fd), r |-> 1])
  /\ UNCHANGED <<pwd, uid, fd>>

MakeDir(nm) ==
  /\ Call("mkdir")
  /\ Returns("mkdir", nm, 0, Mkdir(fs, uid, nm, pwd))
  /\ UNCHANGED <<pwd, uid, fd>>

Rm(nm) ==
  LET f == InDir(fs, nm, pwd) IN
  /\ Call("rm")
  /\ Returns("rm", nm, f.i, IF f.s.bad THEN Fails(f.s, 0)
                            ELSE IF f.i = 0 THEN Fails(f.s, ERR_NO_EXIST)
                            ELSE RmInode(f.s, uid, f.i, FALSE))
  /\ UNCHANGED <<pwd, uid, fd>>

Cd(nm) ==
  LET f == InDir(fs, nm, pwd)
      ok == f.i # 0 /\ (IsLink(f.i) => CdTo(f.i) \in f.s.ibm)
  IN
  /\ Call("cd")
  /\ pwd' = IF ok THEN CdTo(f.i) ELSE pwd
  /\ Returns("cd", nm, f.i, [s |-> f.s, r |-> IF ok THEN 1 ELSE ERR_NO_EXIST])
  /\ UNCHANGED <<uid, fd>>

Link(nm, target) ==
  /\ Call("link")
  /\ Returns("link", nm, 0, OpenLink(fs, uid, nm, target, pwd))
  /\ UNCHANGED <<pwd, uid, fd>>

Copy(nm, new) ==
  /\ Call("cp")
  /\ Returns("cp", nm, 0, Cp(fs, uid, nm, new, pwd, pwd, FALSE))
  /\ UNCHANGED <<pwd, uid, fd>>

Move(nm, new) ==
  /\ Call("mv")
  /\ \E stuck \in BOOLEAN : Returns("mv", nm, 0, Mv(fs, uid, nm, new, pwd, stuck))
  /\ UNCHANGED <<pwd, uid, fd>>

\* fs_chmod, fs_chown: the owner and root
Change(op, nm, with) ==
  LET f == InDir(fs, nm, pwd)
      n == fs.ino[f.i]
  IN
  /\ Call(op)
  /\ IF f.i = 0 THEN Returns(op, nm, 0, Fails(f.s, ERR_NO_EXIST))
     ELSE IF n.uid # uid /\ uid # 0 THEN Returns(op, nm, f.i, Fails(f.s, ERR_PERMS))
     ELSE Returns(op, nm, f.i,
                  [s |-> IF op = "chmod" THEN [f.s EXCEPT !.ino[f.i].acl = with]
                         ELSE [f.s EXCEPT !.ino[f.i].uid = with], r |-> 1])
  /\ UNCHANGED <<pwd, uid, fd>>

Login(u) == /\ Call("login") /\ u # uid /\ uid' = u
            /\ Returns("login", "", 0, [s |-> fs, r |-> u])
            /\ UNCHANGED <<pwd, fd>>

\* The machine is reset with everything in the cache on disk: the bitmaps in
\* memory are read back.
Restart ==
  /\ Call("restart")
  /\ fs' = [fs EXCEPT !.ibm = fs.dibm, !.bbm = fs.dbbm, !.fop = FALSE]
  /\ pwd' = 1 /\ uid' = 0 /\ fd' = 0
  /\ last' = [op |-> "boot", ino |-> 0, name |-> "/", r |-> 1]
  /\ damage' = damage \union (IF fs.ibm = fs.dibm /\ fs.bbm = fs.dbbm
                              THEN {} ELSE {"reset"})

OpenFlags == {{"new"}, {"creat"}, {"rd"}, {"wr", "new"}}

Next ==
  \/ \E nm \in Names : \/ \E f \in OpenFlags : Open(nm, f, "reg")
                       \/ Open(nm, {"new"}, "fifo")
                       \/ MakeDir(nm) \/ Rm(nm)
                       \/ \E other \in Names : \/ Link(nm, other)
                                               \/ Copy(nm, other)
                                               \/ Move(nm, other)
                       \/ \E p \in Perms : Change("chmod", nm, p)
                       \/ \E u \in Uids : Change("chown", nm, u)
  \/ \E nm \in Names \union {".."} : Cd(nm)
  \/ Close \/ Write \/ Restart
  \/ \E u \in Uids : Login(u)

Spec == Init /\ [][Next]_vars

(***************************************************************************)
(* Properties                                                               *)
(***************************************************************************)

\* The fields keep their types; no block of a directory holds more entries
\* than it has room for.
TypeOK ==
  /\ fs.ibm \subseteq Inodes /\ fs.dibm \subseteq Inodes
  /\ fs.bbm \subseteq Nat /\ fs.dbbm \subseteq Nat
  /\ \A i \in Inodes :
       /\ fs.ino[i].mode \in Modes /\ fs.ino[i].acl \subseteq Bits
       /\ fs.ino[i].links \in Int /\ fs.ino[i].dir \in 0..NInodes
       /\ fs.ino[i].blocks \in 0..NLog-1
  /\ \A k \in Blocks : Len(fs.blk[k]) <= Cap
  /\ pwd \in Inodes /\ fd \in 0..NInodes /\ uid \in Uids

Overfull(s, d) == s.ino[d].data[1] # 0
NoHarm(kinds) == damage \cap kinds = {} /\ ~fs.bad

\* What can leave a block without its mark, or with two files.
BlockHarm == {"half removed", "link removed", "link over a file",
              "written after removal", "in a file", "reset"}
\* What can leave a name without its inode, or an inode without its name.
NameHarm == BlockHarm \union {"renamed below root", "moved into itself",
                              "entries skipped", "full directory removed"}

\* A name a lookup can see leads to an inode that is taken, that inode remembers
\* the directory as its own (_dir_inode, which fs_rm, fs_pwd and fs_mv go by),
\* and no other place of the directory has that name or that inode: after any
\* calls, whatever was made, removed, copied and moved over what, but for the
\* harm excepted.
EntriesLive ==
  NoHarm(NameHarm) => \A d \in DirsOf(fs) : \A p \in Named(fs, d) :
    LET e == At(fs, d, p) IN
    /\ e.ino \in Live /\ fs.ino[e.ino].dir = d
    /\ \A q \in Named(fs, d) \ {p} : At(fs, d, q).ino # e.ino /\ At(fs, d, q).name # e.name

\* fs_pwd: from an inode up to /, by the directories the inodes remember, each
\* with its name in the one above (fs_iname).
NameIn(i, d) == LET c == Scan(fs, d, LAMBDA e : e.ino = i) IN
                IF c.at = 0 THEN "gone" ELSE c.s.b[c.at].name
Pwd(i) ==
  LET up[k \in 0..NInodes] ==
        IF k = 0 THEN [at |-> i, path |-> <<>>, through |-> {}]
        ELSE LET u == up[k - 1]
                 d == fs.ino[u.at].dir
             IN  IF d = u.at THEN u
                 ELSE [at |-> d, path |-> <<NameIn(u.at, d)>> \o u.path,
                       through |-> u.through \union {d}]
  IN  up[NInodes]
Follow(path) ==
  LET go[k \in 0..Len(path)] ==
        IF k = 0 THEN 1
        ELSE LET d == go[k - 1] IN IF d = 0 THEN 0 ELSE InDir(fs, path[k], d).i
  IN  go[Len(path)]

\* The path that fs_pwd shows of an inode leads back to it, one lookup after the
\* other, but through a directory that has overflowed its first block, of which
\* lookups know nothing.
PathLeadsBack ==
  NoHarm(NameHarm) => \A i \in Live : LET p == Pwd(i) IN
    \/ p.at = 1 /\ Follow(p.path) = i
    \/ \E d \in p.through : Overfull(fs, d)

\* The blocks of a file that exists are marked as taken and are not those of
\* another: what is written in one is never seen in, or freed with, the other.
BlocksOwned ==
  NoHarm(BlockHarm) => \A i \in Live :
    /\ BlocksOf(fs, i) \subseteq fs.bbm
    /\ \A j \in Live \ {i} : BlocksOf(fs, i) \cap BlocksOf(fs, j) = {}

\* The inodes whose chain of directories, as they remember it, goes through d.
Below(s, d) ==
  LET up[k \in 0..NInodes] ==
        IF k = 0 THEN {d}
        ELSE LET u == up[k - 1] IN u \union {i \in s.ibm : s.ino[i].dir \in u}
  IN  up[NInodes]

\* fs.h:267, "Removes a file or folder (recursively)": an fs_rm that succeeds
\* leaves no inode of the tree taken and frees its blocks, and touches nothing
\* else; but for a directory that overflowed or that skips entries.
RmRemovesTree ==
  [][/\ calls' # calls /\ last'.op = "rm" /\ last'.r = 1 /\ damage' = {}
     /\ \A i \in Below(fs, last'.ino) : ~Overfull(fs, i)
     => LET tree == Below(fs, last'.ino) IN
        /\ fs'.ibm = fs.ibm \ tree
        /\ fs'.bbm = fs.bbm \ UNION {BlocksOf(fs, i) : i \in tree}]_vars

\* What a copy has in common with its original.
Alike(s, i, j) ==
  /\ s.ino[i].mode = s.ino[j].mode
  /\ s.ino[i].mode = "dir" => \A p \in Named(s, i) : LET c == At(s, i, p) IN
       \/ s.ino[c.ino].mode = "lnk"
       \/ \E q \in Named(s, j) : /\ At(s, j, q).name = c.name
                                 /\ s.ino[At(s, j, q).ino].mode = s.ino[c.ino].mode

\* fs.h:289, "Copies (even recursively) a folder or file": every name a lookup sees
\* in the original is in the copy, and stands for something of the same mode.
CpCopies ==
  [][calls' # calls /\ last'.op = "cp" /\ last'.r > 0 /\ ~fs'.bad /\ damage' = {}
     /\ last'.r \notin fs.ibm =>
     LET src == InDir(fs, last'.name, pwd).i IN
     Crowded(fs, src) \/ Overfull(fs', last'.r) \/ Alike(fs', src, last'.r)]_vars
=============================================================================
