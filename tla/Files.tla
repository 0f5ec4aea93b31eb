------------------------------- MODULE Files -------------------------------
(***************************************************************************)
(* What fs_write_file, fs_read_file and fs_rm promise of the contents of    *)
(* regular files: a file is a sequence of bytes that only grows, a write    *)
(* adds at its end, and a read returns what is there.  FileBlocks, with its *)
(* blocks, indirect blocks and bitmap, implements this.                     *)
(*                                                                         *)
(* Two weaknesses of fs_read_file are part of the promise: the last byte of *)
(* a file is not counted, and a file that ends where a block does is read   *)
(* past its end.                                                            *)
(***************************************************************************)
EXTENDS Integers, Sequences

CONSTANTS Inodes, Cells   \* files; bytes in a block

VARIABLES
  files,    \* the contents, <<>> for a file that does not exist
  result    \* the last call that returned: what it was, the file, its bytes

NoResult == [op |-> "none", ino |-> 0, from |-> 0, size |-> 0, got |-> <<>>]

Prefix(s, t) == Len(s) <= Len(t) /\ \A k \in 1..Len(s) : s[k] = t[k]

AddTo(i) ==
  /\ result'.op = "write" /\ result'.ino = i
  /\ files' = [files EXCEPT ![i] = @ \o result'.got]

Read(i) ==
  LET from == result'.from
      got  == result'.got
      rest == SubSeq(files[i], from + 1, Len(files[i])) IN
  /\ result'.op = "read" /\ result'.ino = i
  /\ \/ /\ Prefix(got, rest)
        /\ Len(got) = result'.size \/ Len(got) >= Len(rest) - 1
     \/ /\ Len(files[i]) % Cells = 0
        /\ Prefix(rest, got) /\ Len(got) = result'.size
  /\ UNCHANGED files

Remove(i) ==
  /\ result'.op = "rm" /\ result'.ino = i
  /\ files' = [files EXCEPT ![i] = <<>>]

Init == files = [i \in Inodes |-> <<>>] /\ result = NoResult
Next == \E i \in Inodes : AddTo(i) \/ Read(i) \/ Remove(i)
Spec == Init /\ [][Next]_<<files, result>>
=============================================================================
