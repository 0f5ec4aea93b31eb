-------------------------------- MODULE Users --------------------------------
(***************************************************************************)
(* kernel/users.c: the table of users in memory, the file ".users" it is    *)
(* kept in, the uid of each terminal, and the machine stopped at any time   *)
(* and started again.                                                       *)
(*                                                                         *)
(* A call runs with interrupts off and writes to the cache of the disk      *)
(* alone; a stop loses what was not written back since.  The idle process   *)
(* writes the cache back, which is one step here: a stop in the middle of   *)
(* it, or an eviction before it, is for HddCache and not for this module.   *)
(***************************************************************************)
EXTENDS Integers, Sequences, FiniteSets, SequencesExt

CONSTANTS
  Root, Guest,     \* the two names made on an empty file
  Names,           \* other names
  Short,           \* ... those of one letter
  Gids, Ttys,
  Inodes,          \* inodes that ".users" may be given
  MaxCreates, MaxCalls, MaxBoots   \* bounds

ASSUME UsersAssumption ==
  /\ Short \subseteq Names /\ Root \notin Names /\ Guest \notin Names /\ Root # Guest
  /\ Inodes \subseteq Nat \ {0, 1} /\ Inodes # {} /\ {0, 1} \subseteq Gids
  /\ MaxCreates \in Nat /\ MaxCalls \in Nat /\ MaxBoots \in Nat

VARIABLES
  users,        \* the list
  max_uid,
  users_inode,
  at, file,     \* the inode of ".users", and the users in it
  disk,         \* both as they were when the cache was last written back
  uid,          \* of each terminal; -1: nobody
  creates, calls, boots, \* what the bounds count
  \* not in the code:
  given,        \* every uid given since the machine was first started
  again         \* a start left max_uid at a uid that is, or was, somebody's

vars == <<users, max_uid, users_inode, at, file, disk, uid, creates, calls, boots,
          given, again>>

User == [name : Names \union {Root, Guest}, uid : Nat, gid : Gids \union {-1}]
ERR_PERMS == -2   \* of fs_rm, kept as an inode by user_table_reload
TheRoot  == [name |-> Root,  uid |-> 0, gid |-> 0]
TheGuest == [name |-> Guest, uid |-> 1, gid |-> 1]

\* list_indexOf with user_comparer, and -1
IndexOf(name) ==
  IF \E i \in DOMAIN users : users[i].name = name
  THEN CHOOSE i \in DOMAIN users :
         users[i].name = name /\ \A j \in 1 .. i - 1 : users[j].name # name
  ELSE -1

Gid(id) ==      \* user_gid
  IF \E i \in DOMAIN users : users[i].uid = id
  THEN users[CHOOSE i \in DOMAIN users :
               users[i].uid = id /\ \A j \in 1 .. i - 1 : users[j].uid # id].gid
  ELSE -1

-----------------------------------------------------------------------------
(* users_init *)

\* Reading the file, max_uid is raised above a uid only when it is above it.
MaxUid(f, max) ==
  LET read[k \in 0 .. Len(f)] ==
        IF k = 0 THEN max
        ELSE IF f[k].uid > read[k - 1] THEN f[k].uid + 1 ELSE read[k - 1]
  IN read[Len(f)]

\* A name of one letter is read and not listed.
IsLong(u) == u.name \notin Short
Listed(f) ==
  LET read[k \in 0 .. Len(f)] ==
        IF k = 0 THEN <<>>
        ELSE IF IsLong(f[k]) THEN Append(read[k - 1], f[k]) ELSE read[k - 1]
  IN read[Len(f)]

Boot(f, inode) ==
  LET max == MaxUid(f, inode)
      new == Listed(f) = <<>>
      f2  == IF new THEN f \o <<TheRoot, TheGuest>> ELSE f
  IN /\ users' = Listed(f2) /\ file' = f2
     /\ users_inode' = inode /\ at' = inode /\ max_uid' = max
     /\ uid' = [t \in Ttys |-> -1]
     /\ again' = (again \/ \E id \in given : id >= max)

Restart ==
  /\ boots < MaxBoots /\ boots' = boots + 1
  /\ Boot(disk.file, disk.at)
  /\ UNCHANGED <<disk, creates, calls, given>>

Sync ==       \* hdd_cache_sync, until nothing is dirty
  /\ disk' = [file |-> file, at |-> at]
  /\ UNCHANGED <<users, max_uid, users_inode, at, file, uid, creates, calls, boots,
                 given, again>>

-----------------------------------------------------------------------------
(* The calls *)

Calls == calls < MaxCalls /\ calls' = calls + 1

\* fs_write_file(users_inode, u): nothing of it reaches ".users" when the inode
\* is the error that a refused removal left there.
Write(f, u) == IF users_inode = at THEN Append(f, u) ELSE f

\* user_create
\* Mutants: the next uid is not counted; the user is not written.
CreatedUncounted(u) == users' = Append(users, u) /\ file' = Write(file, u) /\ UNCHANGED max_uid
CreatedUnwritten(u) == users' = Append(users, u) /\ UNCHANGED file /\ max_uid' = max_uid + 1

Created(u) == users' = Append(users, u) /\ file' = Write(file, u) /\ max_uid' = max_uid + 1

\* MAKEUSER: the gid is that of who is logged in on the terminal on screen, or
\* -1 when nobody is or it was removed.
Makeuser(t, name) ==
  /\ Calls /\ creates < MaxCreates /\ creates' = creates + 1
  /\ IndexOf(name) = -1
  /\ Created([name |-> name, uid |-> max_uid, gid |-> Gid(uid[t])])
  /\ given' = given \union {max_uid}
  /\ UNCHANGED <<users_inode, at, disk, uid, boots, again>>

\* user_table_reload: the file is removed and made again, in the first inode
\* that is free, and the list is written to it.  The removal is refused when
\* the caller may not write to the file or to its directory, or a link names
\* the file; the result is not looked at, and the writes go to inode -2.
\* Mutant: the users are written behind those of the old file.
Refused == users_inode' = ERR_PERMS /\ UNCHANGED <<at, file>>

ReloadOver(list) ==
  /\ users' = list
  /\ \/ Refused
     \/ users_inode' = at /\ file' = file \o list /\ UNCHANGED at

Reload(list) ==
  /\ users' = list
  /\ \/ Refused
     \/ /\ \E i \in Inodes : i <= at /\ at' = i /\ users_inode' = i
        /\ file' = list

SetGid(name, gid) ==
  /\ Calls /\ IndexOf(name) # -1
  /\ Reload([users EXCEPT ![IndexOf(name)].gid = gid])
  /\ UNCHANGED <<max_uid, disk, uid, creates, boots, given, again>>

\* user_delete
MayDelete(name) == name # Root /\ IndexOf(name) # -1

Delete(name) ==
  /\ Calls /\ MayDelete(name)
  /\ Reload(RemoveAt(users, IndexOf(name)))
  /\ UNCHANGED <<max_uid, disk, uid, creates, boots, given, again>>

\* user_login, with the user's password, and user_logout
Login(t, name) ==
  /\ Calls /\ uid[t] = -1 /\ IndexOf(name) # -1
  /\ uid' = [uid EXCEPT ![t] = users[IndexOf(name)].uid]
  /\ UNCHANGED <<users, max_uid, users_inode, at, file, disk, creates, boots, given, again>>

Logout(t) ==
  /\ Calls /\ uid[t] # -1
  /\ uid' = [uid EXCEPT ![t] = -1]
  /\ UNCHANGED <<users, max_uid, users_inode, at, file, disk, creates, boots, given, again>>

Init ==
  /\ users = <<TheRoot, TheGuest>> /\ file = users
  /\ users_inode \in Inodes /\ max_uid = users_inode
  /\ at = users_inode /\ disk = [file |-> file, at |-> at]
  /\ uid = [t \in Ttys |-> -1]
  /\ creates = 0 /\ calls = 0 /\ boots = 0
  /\ given = {0, 1} /\ again = FALSE

Next ==
  \/ Restart \/ Sync
  \/ \E t \in Ttys, name \in Names \union {Guest} : Makeuser(t, name)
  \/ \E t \in Ttys, name \in Names \union {Root, Guest} : Login(t, name)
  \/ \E t \in Ttys : Logout(t)
  \/ \E name \in Names \union {Root, Guest}, gid \in Gids : SetGid(name, gid)
  \/ \E name \in Names \union {Root, Guest} : Delete(name)

Spec == Init /\ [][Next]_vars

-----------------------------------------------------------------------------
\* The list holds users, each name once; the inode written to is that of the
\* file or the error of a refused removal; who is logged in has a uid given.
TypeOK ==
  /\ users \in Seq(User) /\ file \in Seq(User) /\ disk \in [file : Seq(User), at : Inodes]
  /\ \A i, j \in DOMAIN users : users[i].name = users[j].name => i = j
  /\ at \in Inodes /\ users_inode \in {at, ERR_PERMS} /\ max_uid \in Nat
  /\ \A t \in Ttys : uid[t] = -1 \/ uid[t] \in given

\* A uid is not given again, to be the owner of another user's files, unless a
\* start read the table and left max_uid at a uid given before.
UidsFresh ==
  /\ ~again => \A i, j \in DOMAIN users : users[i].uid = users[j].uid => i = j
  /\ ~again => \A id \in given : id < max_uid \/ id \in {0, 1}

\* Unless the last save was refused, the file and the list have the same users
\* in the same order, also after a refused save, a stop and a start, but for
\* those whose name has one letter: they are in the file when they are in the
\* list, and a start reads them and does not list them.
FileIsTable ==
  users_inode = at =>
    Listed(file) = Listed(users) /\ ToSet(users) \subseteq ToSet(file)
=============================================================================
