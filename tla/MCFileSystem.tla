---------------------------- MODULE MCFileSystem ----------------------------
EXTENDS FileSystem

OneGroup == [u \in Uids |-> 0]

\* An empty disk, and a/{a/{a, b}, b}: a directory with more entries than come
\* before its own.
EmptyAndDeep ==
  {<<>>, <<<<"dir", "a", 1>>, <<"dir", "a", 3>>, <<"reg", "a", 4>>,
           <<"reg", "b", 4>>, <<"reg", "b", 3>>>>}
=============================================================================
