----------------------------- MODULE UsersProofs -----------------------------
(***************************************************************************)
(* The invariants of Users, for all names, groups, terminals and bounds.    *)
(*                                                                         *)
(* The file as it is, and as it was when the cache was last written back,   *)
(* are each as good a table as the list in memory: a start may read either. *)
(***************************************************************************)
EXTENDS Users, WellFoundedInduction, SequenceTheorems, TLAPS

-----------------------------------------------------------------------------
(* Induction, along the numbers below one and along a sequence *)

LEMMA FirstOf ==
  ASSUME NEW n \in Nat, NEW B \in SUBSET (1 .. n), B # {}
  PROVE  \E i \in B : \A j \in 1 .. i - 1 : j \notin B
<1>1. IsWellFoundedOn(OpToRel(<, Nat), Nat)
  BY NatLessThanWellFounded
<1>2. B \subseteq Nat
  OBVIOUS
<1>3. PICK i \in B : \A j \in B : ~ (<<j, i>> \in OpToRel(<, Nat))
  BY <1>1, <1>2, WFMin
<1>4. \A j \in B : j < i => <<j, i>> \in OpToRel(<, Nat)
  BY <1>2 DEF OpToRel
<1>5. \A j \in 1 .. i - 1 : j < i
  BY <1>2
<1> QED
  BY <1>3, <1>4, <1>5

LEMMA StepsReach ==
  ASSUME NEW n \in Nat, NEW T, 0 \in T,
         \A k \in 0 .. n : k # n /\ k \in T => k + 1 \in T
  PROVE  0 .. n \subseteq T
<1> SUFFICES ASSUME NEW m \in 0 .. n, m \notin T PROVE FALSE
  OBVIOUS
<1> DEFINE Out == {k \in 0 .. n : k \notin T}
<1>1. PICK k \in Out : \A j \in Out : ~ j < k
  <2>1. Out \subseteq Nat /\ Out # {}
    OBVIOUS
  <2>2. IsWellFoundedOn(OpToRel(<, Nat), Nat)
    BY NatLessThanWellFounded
  <2> HIDE DEF Out
  <2>3. PICK k \in Out : \A j \in Out : ~ (<<j, k>> \in OpToRel(<, Nat))
    BY <2>1, <2>2, WFMin
  <2>4. \A j \in Out : j < k => <<j, k>> \in OpToRel(<, Nat)
    BY <2>1 DEF OpToRel
  <2> QED
    BY <2>3, <2>4
<1>2. k # 0 /\ k \in 1 .. n /\ k \notin T
  BY <1>1
<1>3. k - 1 \in 0 .. n /\ k - 1 # n /\ k - 1 < k /\ (k - 1) + 1 = k
  BY <1>2
<1>4. k - 1 \in T
  BY <1>1, <1>3
<1> QED
  BY <1>2, <1>3, <1>4

LEMMA AppendReaches ==
  ASSUME NEW S, NEW T, <<>> \in T,
         \A f \in Seq(S), u \in S : f \in T => Append(f, u) \in T
  PROVE  Seq(S) \subseteq T
<1> SUFFICES ASSUME NEW f \in Seq(S) PROVE f \in T
  OBVIOUS
<1> DEFINE N == {k \in 0 .. Len(f) : SubSeq(f, 1, k) \in T}
<1>0. Len(f) \in Nat
  OBVIOUS
<1>1. 0 \in N
  <2>1. SubSeq(f, 1, 0) = <<>>
    BY SubSeqEmpty
  <2>2. SubSeq(f, 1, 0) \in T
    BY <2>1
  <2>3. 0 \in 0 .. Len(f)
    BY <1>0
  <2> QED
    BY <2>2, <2>3, Zenon
<1>2. ASSUME NEW k \in 0 .. Len(f), k # Len(f), k \in N PROVE k + 1 \in N
  <2>1. k + 1 \in 1 .. Len(f) /\ (k + 1) - 1 = k
    BY <1>0, <1>2
  <2>2. SubSeq(f, 1, k + 1) = Append(SubSeq(f, 1, k), f[k + 1])
    BY <2>1
  <2>3. SubSeq(f, 1, k) \in Seq(S) /\ f[k + 1] \in S
    BY <2>1
  <2>4. SubSeq(f, 1, k) \in T
    BY <1>2
  <2>5. SubSeq(f, 1, k + 1) \in T
    <3> HIDE DEF N
    <3> QED
      BY <2>2, <2>3, <2>4
  <2> QED
    BY <1>0, <2>1, <2>5
<1> HIDE DEF N
<1>3. 0 .. Len(f) \subseteq N
  BY <1>0, <1>1, <1>2, StepsReach
<1>4. Len(f) \in N
  BY <1>0, <1>3
<1> QED
  BY <1>4, SubSeqFull, ZenonT(30) DEF N

-----------------------------------------------------------------------------
(* A recursion along a sequence has a value *)

\* h gives the next value from the last, for each place.
Recursive(V, n, v0, h) ==
  \E r \in [0 .. n -> V] :
    r[0] = v0 /\ \A k \in 1 .. n : r[k] = h[k][r[k - 1]]

LEMMA Recursion ==
  ASSUME NEW V, NEW n \in Nat, NEW v0 \in V, NEW h \in [1 .. n -> [V -> V]]
  PROVE  Recursive(V, n, v0, h)
<1> DEFINE Upto(m, r) == r[0] = v0 /\ \A k \in 1 .. m : r[k] = h[k][r[k - 1]]
           T == {m \in 0 .. n : \E r \in [0 .. n -> V] : Upto(m, r)}
<1>1. 0 \in T
  <2> DEFINE c == [k \in 0 .. n |-> v0]
  <2>1. c \in [0 .. n -> V] /\ c[0] = v0
    OBVIOUS
  <2>2. Upto(0, c)
    BY <2>1
  <2>3. 0 \in 0 .. n
    OBVIOUS
  <2> HIDE DEF c, Upto
  <2> QED
    BY <2>1, <2>2, <2>3, Zenon
<1>2. ASSUME NEW m \in 0 .. n, m # n, m \in T PROVE m + 1 \in T
  <2>1. PICK r \in [0 .. n -> V] : Upto(m, r)
    BY <1>2
  <2> DEFINE q == [r EXCEPT ![m + 1] = h[m + 1][r[m]]]
  <2>2. m + 1 \in 1 .. n /\ m \in 0 .. n /\ m + 1 \in 0 .. n
    BY <1>2
  <2>3. h[m + 1][r[m]] \in V
    BY <2>2
  <2>4. q \in [0 .. n -> V]
    BY <2>2, <2>3
  <2>5. q[0] = v0
    BY <2>1
  <2>6. ASSUME NEW k \in 1 .. m + 1 PROVE q[k] = h[k][q[k - 1]]
    <3>1. CASE k = m + 1
      BY <3>1, <2>2
    <3>2. CASE k # m + 1
      <4>1. k \in 1 .. m /\ k - 1 # m + 1 /\ k \in 0 .. n /\ k - 1 \in 0 .. n
        BY <3>2
      <4> QED
        BY <4>1, <3>2, <2>1
    <3> QED
      BY <3>1, <3>2
  <2> QED
    BY <2>2, <2>4, <2>5, <2>6
<1> HIDE DEF T
<1>3. n \in T
  <2>1. 0 .. n \subseteq T
    BY <1>1, <1>2, StepsReach
  <2> QED
    BY <2>1
<1> QED
  BY <1>3 DEF T, Recursive

-----------------------------------------------------------------------------
(* Reading the file: MaxUid and Listed *)

LEMMA UserHasUid == \A u \in User : u.uid \in Nat
BY DEF User

LEMMA MaxUidAbove ==
  ASSUME NEW f \in Seq(User), NEW max \in Nat
  PROVE  MaxUid(f, max) \in Nat /\ MaxUid(f, max) >= max
<1> DEFINE n == Len(f)
           h == [k \in 1 .. n |-> [v \in Nat |-> IF f[k].uid > v THEN f[k].uid + 1 ELSE v]]
           Rec(r) == r = [k \in 0 .. n |->
                           IF k = 0 THEN max
                           ELSE IF f[k].uid > r[k - 1] THEN f[k].uid + 1 ELSE r[k - 1]]
           r == CHOOSE r : Rec(r)
<1>0. n \in Nat /\ \A k \in 1 .. n : f[k].uid \in Nat
  BY UserHasUid
<1>1. h \in [1 .. n -> [Nat -> Nat]]
  BY <1>0
<1>2. \E g : Rec(g)
  <2>1. PICK g \in [0 .. n -> Nat] : g[0] = max /\ \A k \in 1 .. n : g[k] = h[k][g[k - 1]]
    <3> HIDE DEF h, n
    <3>1. Recursive(Nat, n, max, h)
      BY <1>0, <1>1, Recursion
    <3> QED
      BY <3>1 DEF Recursive
  <2>2. ASSUME NEW k \in 0 .. n
        PROVE  g[k] = IF k = 0 THEN max
                      ELSE IF f[k].uid > g[k - 1] THEN f[k].uid + 1 ELSE g[k - 1]
    <3>1. CASE k = 0
      BY <3>1, <2>1
    <3>2. CASE k # 0
      <4>1. k \in 1 .. n /\ k - 1 \in 0 .. n
        BY <3>2
      <4> QED
        BY <4>1, <3>2, <2>1
    <3> QED
      BY <3>1, <3>2
  <2> HIDE DEF n, h
  <2>3. g = [k \in 0 .. n |->
              IF k = 0 THEN max
              ELSE IF f[k].uid > g[k - 1] THEN f[k].uid + 1 ELSE g[k - 1]]
    BY <2>1, <2>2
  <2> QED
    BY <2>3
<1>3. Rec(r)
  <2> HIDE DEF Rec
  <2> QED
    BY <1>2
<1> DEFINE T == {k \in 0 .. n : r[k] \in Nat /\ r[k] >= max}
<1>4. MaxUid(f, max) = r[n]
  BY DEF MaxUid
<1> HIDE DEF r, h, n
<1>5. 0 \in T
  BY <1>0, <1>3
<1>6. ASSUME NEW k \in 0 .. n, k # n, k \in T PROVE k + 1 \in T
  <2>1. k + 1 \in 1 .. n /\ (k + 1) - 1 = k /\ k + 1 # 0 /\ k + 1 \in 0 .. n
    BY <1>0, <1>6
  <2>2. r[k + 1] = IF f[k + 1].uid > r[k] THEN f[k + 1].uid + 1 ELSE r[k]
    BY <1>3, <2>1
  <2> QED
    BY <1>0, <1>6, <2>1, <2>2
<1>7. n \in T
  <2> HIDE DEF T
  <2>1. 0 .. n \subseteq T
    BY <1>0, <1>5, <1>6, StepsReach
  <2> QED
    BY <1>0, <2>1
<1> QED
  BY <1>4, <1>7

\* What Listed is the last value of.
Reading(f, r) ==
  r = [k \in 0 .. Len(f) |->
        IF k = 0 THEN <<>>
        ELSE IF IsLong(f[k]) THEN Append(r[k - 1], f[k]) ELSE r[k - 1]]

LEMMA ReadingExists ==
  ASSUME NEW f \in Seq(User)
  PROVE  \E r : Reading(f, r)
<1> DEFINE n == Len(f)
           h == [k \in 1 .. n |-> [v \in Seq(User) |-> IF IsLong(f[k]) THEN Append(v, f[k]) ELSE v]]
<1>0. n \in Nat /\ \A k \in 1 .. n : f[k] \in User
  OBVIOUS
<1>1. h \in [1 .. n -> [Seq(User) -> Seq(User)]]
  BY <1>0
<1>2. PICK g \in [0 .. n -> Seq(User)] : g[0] = <<>> /\ \A k \in 1 .. n : g[k] = h[k][g[k - 1]]
  <2>1. <<>> \in Seq(User)
    OBVIOUS
  <2> HIDE DEF h, n
  <2>2. Recursive(Seq(User), n, <<>>, h)
    BY <1>0, <1>1, <2>1, Recursion
  <2> QED
    BY <2>2 DEF Recursive
<1>3. ASSUME NEW k \in 0 .. n
      PROVE  g[k] = IF k = 0 THEN <<>>
                    ELSE IF IsLong(f[k]) THEN Append(g[k - 1], f[k]) ELSE g[k - 1]
  <2>1. CASE k = 0
    BY <2>1, <1>2
  <2>2. CASE k # 0
    <3>1. k \in 1 .. n /\ k - 1 \in 0 .. n
      BY <2>2
    <3> QED
      BY <3>1, <2>2, <1>2
  <2> QED
    BY <2>1, <2>2
<1> HIDE DEF h
<1>4. Reading(f, g)
  BY <1>2, <1>3 DEF Reading
<1> QED
  BY <1>4

\* Two readings agree as far as their sequences do.
LEMMA ReadingsAgree ==
  ASSUME NEW f \in Seq(User), NEW g \in Seq(User), NEW n \in 0 .. Len(f),
         n <= Len(g), \A k \in 1 .. n : f[k] = g[k],
         NEW r, NEW q, Reading(f, r), Reading(g, q)
  PROVE  r[n] = q[n]
<1> DEFINE T == {k \in 0 .. n : r[k] = q[k]}
<1>0. Len(f) \in Nat /\ Len(g) \in Nat /\ n \in Nat
  OBVIOUS
<1>1. 0 \in T
  BY <1>0 DEF Reading
<1>2. ASSUME NEW k \in 0 .. n, k # n, k \in T PROVE k + 1 \in T
  <2>1. k + 1 \in 0 .. Len(f) /\ k + 1 \in 0 .. Len(g) /\ k + 1 \in 1 .. n /\ k + 1 # 0 /\ (k + 1) - 1 = k
    BY <1>0, <1>2
  <2>2. r[k + 1] = IF IsLong(f[k + 1]) THEN Append(r[k], f[k + 1]) ELSE r[k]
    BY <2>1 DEF Reading
  <2>3. q[k + 1] = IF IsLong(g[k + 1]) THEN Append(q[k], g[k + 1]) ELSE q[k]
    BY <2>1 DEF Reading
  <2> QED
    BY <1>0, <1>2, <2>1, <2>2, <2>3
<1> HIDE DEF T
<1>3. 0 .. n \subseteq T
  BY <1>0, <1>1, <1>2, StepsReach
<1> QED
  BY <1>0, <1>3 DEF T

LEMMA ListedReading ==
  ASSUME NEW f \in Seq(User)
  PROVE  \E r : Reading(f, r) /\ Listed(f) = r[Len(f)]
<1>1. Listed(f) = (CHOOSE r : Reading(f, r))[Len(f)]
  BY DEF Listed, Reading
<1>2. Reading(f, CHOOSE r : Reading(f, r))
  BY ReadingExists
<1> QED
  BY <1>1, <1>2

LEMMA ListedEmpty == Listed(<<>>) = <<>>
<1>1. <<>> \in Seq(User) /\ Len(<<>>) = 0
  OBVIOUS
<1>2. PICK r : Reading(<<>>, r) /\ Listed(<<>>) = r[0]
  BY <1>1, ListedReading
<1> QED
  BY <1>1, <1>2 DEF Reading

LEMMA ListedAppend ==
  ASSUME NEW f \in Seq(User), NEW u \in User
  PROVE  Listed(Append(f, u)) = IF IsLong(u) THEN Append(Listed(f), u) ELSE Listed(f)
<1> DEFINE g == Append(f, u)
           n == Len(f)
<1>1. g \in Seq(User) /\ n \in Nat /\ Len(g) = n + 1 /\ g[n + 1] = u /\ \A k \in 1 .. n : g[k] = f[k]
  OBVIOUS
<1>2. PICK r : Reading(f, r) /\ Listed(f) = r[n]
  BY ListedReading
<1> HIDE DEF g, n
<1>3. PICK q : Reading(g, q) /\ Listed(g) = q[n + 1]
  BY <1>1, ListedReading
<1>4. r[n] = q[n]
  <2>1. n \in 0 .. Len(f) /\ n <= Len(g)
    BY <1>1 DEF n
  <2> QED
    BY <1>1, <1>2, <1>3, <2>1, ReadingsAgree
<1>5. q[n + 1] = IF IsLong(g[n + 1]) THEN Append(q[n], g[n + 1]) ELSE q[n]
  <2>1. n + 1 \in 0 .. Len(g) /\ n + 1 # 0 /\ (n + 1) - 1 = n
    BY <1>1
  <2> QED
    BY <1>3, <2>1 DEF Reading
<1> QED
  BY <1>1, <1>2, <1>3, <1>4, <1>5 DEF g

LEMMA ListedSeq == \A f \in Seq(User) : Listed(f) \in Seq(User)
<1> DEFINE T == {f \in Seq(User) : Listed(f) \in Seq(User)}
<1>1. <<>> \in T
  <2>1. <<>> \in Seq(User)
    OBVIOUS
  <2> QED
    BY <2>1, ListedEmpty, Zenon
<1>2. ASSUME NEW f \in Seq(User), NEW u \in User, f \in T PROVE Append(f, u) \in T
  <2>1. Listed(f) \in Seq(User)
    BY <1>2
  <2>2. Append(Listed(f), u) \in Seq(User) /\ Append(f, u) \in Seq(User)
    BY <2>1
  <2> QED
    BY <2>1, <2>2, ListedAppend
<1> HIDE DEF T
<1>3. Seq(User) \subseteq T
  BY <1>1, <1>2, AppendReaches
<1> QED
  BY <1>3 DEF T

LEMMA ConcatAppend ==
  ASSUME NEW S, NEW f \in Seq(S), NEW g \in Seq(S), NEW u \in S
  PROVE  f \o Append(g, u) = Append(f \o g, u)
OBVIOUS

LEMMA ListedConcat ==
  ASSUME NEW f \in Seq(User), NEW g \in Seq(User)
  PROVE  Listed(f \o g) = Listed(f) \o Listed(g)
<1> DEFINE T == {k \in Seq(User) : Listed(f \o k) = Listed(f) \o Listed(k)}
<1>0. Listed(f) \in Seq(User)
  BY ListedSeq
<1>1. <<>> \in T
  <2>1. f \o <<>> = f /\ Listed(f) \o <<>> = Listed(f)
    BY <1>0, ConcatEmptySeq
  <2>2. Listed(f \o <<>>) = Listed(f) \o Listed(<<>>)
    BY <2>1, ListedEmpty
  <2>3. <<>> \in Seq(User)
    OBVIOUS
  <2> QED
    BY <2>2, <2>3, Zenon
<1>2. ASSUME NEW k \in Seq(User), NEW u \in User, k \in T PROVE Append(k, u) \in T
  <2>1. Listed(f \o k) = Listed(f) \o Listed(k)
    BY <1>2
  <2>2. f \o k \in Seq(User) /\ Listed(k) \in Seq(User) /\ Append(k, u) \in Seq(User)
    BY ListedSeq, ConcatProperties
  <2>3. f \o Append(k, u) = Append(f \o k, u)
    BY ConcatAppend
  <2>4. Listed(Append(f \o k, u)) = IF IsLong(u) THEN Append(Listed(f \o k), u) ELSE Listed(f \o k)
    BY <2>2, ListedAppend
  <2>5. Listed(Append(k, u)) = IF IsLong(u) THEN Append(Listed(k), u) ELSE Listed(k)
    BY ListedAppend
  <2>6. Listed(f) \o Append(Listed(k), u) = Append(Listed(f) \o Listed(k), u)
    BY <1>0, <2>2, ConcatAppend
  <2>7. Listed(f \o Append(k, u)) = Listed(f) \o Listed(Append(k, u))
    <3>1. CASE IsLong(u)
      BY <3>1, <2>1, <2>3, <2>4, <2>5, <2>6, Zenon
    <3>2. CASE ~ IsLong(u)
      BY <3>2, <2>1, <2>3, <2>4, <2>5, Zenon
    <3> QED
      BY <3>1, <3>2
  <2> QED
    BY <2>2, <2>7, Zenon
<1> HIDE DEF T
<1>3. Seq(User) \subseteq T
  BY <1>1, <1>2, AppendReaches
<1>4. g \in T
  BY <1>3
<1> QED
  BY <1>4 DEF T

LEMMA ListedLong ==
  ASSUME NEW f \in Seq(User), \A i \in 1 .. Len(f) : IsLong(f[i])
  PROVE  Listed(f) = f
<1> DEFINE Long(k) == \A i \in 1 .. Len(k) : IsLong(k[i])
           T == {k \in Seq(User) : Long(k) => Listed(k) = k}
<1>1. <<>> \in T
  BY ListedEmpty
<1>2. ASSUME NEW k \in Seq(User), NEW u \in User, k \in T PROVE Append(k, u) \in T
  <2>1. SUFFICES ASSUME Long(Append(k, u)) PROVE Listed(Append(k, u)) = Append(k, u)
    <3>1. Append(k, u) \in Seq(User)
      OBVIOUS
    <3> HIDE DEF Long
    <3> QED
      BY <3>1
  <2>2. Len(k) \in Nat /\ Len(Append(k, u)) = Len(k) + 1 /\ Append(k, u)[Len(k) + 1] = u
        /\ \A i \in 1 .. Len(k) : Append(k, u)[i] = k[i]
    OBVIOUS
  <2>3. IsLong(u)
    BY <2>1, <2>2
  <2>4. Long(k)
    BY <2>1, <2>2
  <2>5. Listed(k) = k
    BY <1>2, <2>4
  <2> QED
    BY <2>3, <2>5, ListedAppend
<1>3. f \in T
  <2> HIDE DEF T
  <2> QED
    BY <1>1, <1>2, AppendReaches
<1> QED
  BY <1>3

\* The users listed are those of the file at the places p gives, which rise.
Picks(f, p) ==
  /\ p \in [1 .. Len(Listed(f)) -> 1 .. Len(f)]
  /\ \A i \in 1 .. Len(Listed(f)) : Listed(f)[i] = f[p[i]] /\ IsLong(f[p[i]])
  /\ \A i, j \in 1 .. Len(Listed(f)) : i < j => p[i] < p[j]

LEMMA ListedPicks ==
  ASSUME NEW f \in Seq(User)
  PROVE  \E p : Picks(f, p)
<1> DEFINE T == {k \in Seq(User) : \E p : Picks(k, p)}
<1>1. <<>> \in T
  <2>1. Picks(<<>>, [i \in 1 .. 0 |-> 0])
    BY ListedEmpty DEF Picks
  <2>2. <<>> \in Seq(User)
    OBVIOUS
  <2> QED
    BY <2>1, <2>2, Zenon
<1>2. ASSUME NEW k \in Seq(User), NEW u \in User, k \in T PROVE Append(k, u) \in T
  <2> DEFINE g == Append(k, u)
             n == Len(Listed(k))
  <2>1. PICK p : Picks(k, p)
    BY <1>2
  <2>2. Listed(k) \in Seq(User) /\ n \in Nat /\ Len(k) \in Nat
    BY ListedSeq
  <2>3. g \in Seq(User) /\ Len(g) = Len(k) + 1 /\ g[Len(k) + 1] = u /\ \A i \in 1 .. Len(k) : g[i] = k[i]
    OBVIOUS
  <2>4. CASE ~ IsLong(u)
    <3>1. Listed(g) = Listed(k)
      BY <2>4, ListedAppend
    <3>2. Picks(g, p)
      BY <2>1, <2>2, <2>3, <3>1 DEF Picks
    <3> QED
      BY <2>3, <3>2
  <2>5. CASE IsLong(u)
    <3> DEFINE q == [i \in 1 .. n + 1 |-> IF i = n + 1 THEN Len(k) + 1 ELSE p[i]]
    <3>1. Listed(g) = Append(Listed(k), u)
      BY <2>5, ListedAppend
    <3>2. Len(Listed(g)) = n + 1 /\ Listed(g)[n + 1] = u /\ \A i \in 1 .. n : Listed(g)[i] = Listed(k)[i]
      BY <2>2, <3>1
    <3>3. \A i \in 1 .. n + 1 : i = n + 1 \/ i \in 1 .. n
      BY <2>2
    <3>4. \A i \in 1 .. n : p[i] \in 1 .. Len(k) /\ Listed(k)[i] = k[p[i]] /\ IsLong(k[p[i]])
      BY <2>1 DEF Picks
    <3>5. q \in [1 .. n + 1 -> 1 .. Len(g)]
      BY <2>2, <2>3, <3>3, <3>4
    <3>6. \A i \in 1 .. n + 1 : Listed(g)[i] = g[q[i]] /\ IsLong(g[q[i]])
      BY <2>2, <2>3, <2>5, <3>2, <3>3, <3>4
    <3>7. \A i, j \in 1 .. n + 1 : i < j => q[i] < q[j]
      <4>1. \A i, j \in 1 .. n : i < j => p[i] < p[j]
        BY <2>1 DEF Picks
      <4>2. \A i, j \in 1 .. n + 1 : i < j => i \in 1 .. n
        BY <2>2
      <4> QED
        BY <2>2, <3>3, <3>4, <4>1, <4>2
    <3>8. Picks(g, q)
      <4> HIDE DEF q, g, n
      <4> QED
        BY <3>2, <3>5, <3>6, <3>7 DEF Picks
    <3> HIDE DEF q
    <3> QED
      BY <2>3, <3>8
  <2> QED
    BY <2>4, <2>5
<1>3. f \in T
  <2> HIDE DEF T
  <2> QED
    BY <1>1, <1>2, AppendReaches
<1> QED
  BY <1>3

\* A list of users has nobody else, and its users are as different as before.
LEMMA ListedFrom ==
  ASSUME NEW f \in Seq(User)
  PROVE  /\ ToSet(Listed(f)) \subseteq ToSet(f)
         /\ Listed(Listed(f)) = Listed(f)
<1>1. PICK p : Picks(f, p)
  BY ListedPicks
<1>2. Listed(f) \in Seq(User)
  BY ListedSeq
<1>3. Listed(Listed(f)) = Listed(f)
  BY <1>1, <1>2, ListedLong DEF Picks
<1>4. ToSet(Listed(f)) \subseteq ToSet(f)
  BY <1>1, <1>2 DEF Picks, ToSet
<1> QED
  BY <1>3, <1>4

-----------------------------------------------------------------------------
(* The invariant *)

Typed ==
  /\ users \in Seq(User) /\ file \in Seq(User)
  /\ disk \in [file : Seq(User), at : Inodes]
  /\ at \in Inodes /\ users_inode \in {at, ERR_PERMS} /\ max_uid \in Nat /\ max_uid >= 2
  /\ uid \in [Ttys -> given \union {-1}]
  /\ again \in BOOLEAN /\ given \subseteq Nat /\ {0, 1} \subseteq given

NamesOnce(list) == \A i, j \in DOMAIN list : list[i].name = list[j].name => i = j
UidsOnce(list) == \A i, j \in DOMAIN list : list[i].uid = list[j].uid => i = j
UidsGiven(list, ids) == \A i \in DOMAIN list : list[i].uid \in ids
RootFirst(list) == list # <<>> /\ list[1].name = Root

\* A table: each name once, root first, uids that were given, and each once
\* unless one was given again.
Good(list, ids, more) ==
  /\ NamesOnce(list) /\ UidsGiven(list, ids) /\ RootFirst(list)
  /\ ~more => UidsOnce(list)

\* The file lists what the list does, and lacks nobody of it.
FileKept ==
  users_inode = at =>
    Listed(file) = Listed(users) /\ ToSet(users) \subseteq ToSet(file)

UidsBelow == ~again => \A id \in given : id < max_uid \/ id \in {0, 1}

UsersInv ==
  /\ Typed /\ UidsBelow /\ FileKept
  /\ Good(users, given, again)
  /\ Good(Listed(file), given, again)
  /\ Good(Listed(disk.file), given, again)

\* A table stays good when more uids are given.
LEMMA GoodStays ==
  ASSUME NEW list, NEW ids, NEW ids2, ids \subseteq ids2, NEW more, NEW more2,
         ~more2 => ~more, Good(list, ids, more)
  PROVE  Good(list, ids2, more2)
BY DEF Good, UidsGiven

LEMMA TheTwo ==
  /\ TheRoot \in User /\ TheGuest \in User
  /\ TheRoot.name = Root /\ TheGuest.name = Guest /\ Root # Guest
  /\ TheRoot.uid = 0 /\ TheGuest.uid = 1
  /\ IsLong(TheRoot) /\ IsLong(TheGuest)
BY UsersAssumption DEF TheRoot, TheGuest, User, IsLong

LEMMA TheTwoListed ==
  ASSUME NEW f \in Seq(User), Listed(f) = <<>>
  PROVE  Listed(f \o <<TheRoot, TheGuest>>) = <<TheRoot, TheGuest>>
<1> DEFINE two == <<TheRoot, TheGuest>>
<1>1. two \in Seq(User) /\ Len(two) = 2 /\ two[1] = TheRoot /\ two[2] = TheGuest
  BY TheTwo
<1>2. \A i \in 1 .. 2 : IsLong(two[i])
  <2>1. \A i \in 1 .. 2 : i = 1 \/ i = 2
    OBVIOUS
  <2> QED
    BY <1>1, <2>1, TheTwo
<1>3. Listed(two) = two
  BY <1>1, <1>2, ListedLong
<1> HIDE DEF two
<1>4. Listed(f \o two) = <<>> \o two
  BY <1>1, <1>3, ListedConcat
<1>5. <<>> \o two = two
  BY <1>1, ConcatEmptySeq
<1> QED
  BY <1>4, <1>5 DEF two

LEMMA TheTwoGood ==
  ASSUME NEW ids, {0, 1} \subseteq ids, NEW more
  PROVE  /\ Good(<<TheRoot, TheGuest>>, ids, more)
         /\ <<TheRoot, TheGuest>> \in Seq(User)
         /\ Listed(<<TheRoot, TheGuest>>) = <<TheRoot, TheGuest>>
<1> DEFINE two == <<TheRoot, TheGuest>>
<1>1. two \in Seq(User) /\ Len(two) = 2 /\ two[1] = TheRoot /\ two[2] = TheGuest /\ two # <<>>
  BY TheTwo
<1>2. DOMAIN two = {1, 2}
  BY <1>1
<1>3. Listed(<<>> \o two) = two
  <2>1. <<>> \in Seq(User)
    OBVIOUS
  <2> HIDE DEF two
  <2> QED
    BY <2>1, ListedEmpty, TheTwoListed DEF two
<1> HIDE DEF two
<1>4. <<>> \o two = two
  BY <1>1, ConcatEmptySeq
<1>5. Good(two, ids, more)
  BY <1>1, <1>2, TheTwo DEF Good, NamesOnce, UidsOnce, UidsGiven, RootFirst
<1> QED
  BY <1>1, <1>3, <1>4, <1>5 DEF two

LEMMA UsersStart == Init => UsersInv
<1> SUFFICES ASSUME Init PROVE UsersInv
  OBVIOUS
<1> DEFINE two == <<TheRoot, TheGuest>>
<1>1. /\ users = two /\ file = two /\ disk = [file |-> two, at |-> at]
      /\ at \in Inodes /\ users_inode = at /\ max_uid = at /\ given = {0, 1} /\ again = FALSE
      /\ uid = [t \in Ttys |-> -1]
  BY DEF Init
<1>2. Good(two, given, again) /\ two \in Seq(User) /\ Listed(two) = two
  BY <1>1, TheTwoGood
<1> HIDE DEF two
<1>3. Typed
  <2>1. at \in Nat /\ at >= 2
    BY <1>1, UsersAssumption
  <2>2. uid \in [Ttys -> given \union {-1}]
    BY <1>1
  <2>3. disk \in [file : Seq(User), at : Inodes]
    BY <1>1, <1>2
  <2>4. max_uid \in Nat /\ max_uid >= 2 /\ users_inode \in {at, ERR_PERMS}
    BY <1>1, <2>1
  <2>5. given \subseteq Nat /\ {0, 1} \subseteq given /\ again \in BOOLEAN
    <3>1. given = {0, 1}
      BY <1>1
    <3>2. given \subseteq Nat /\ {0, 1} \subseteq given
      BY <3>1
    <3>3. again \in BOOLEAN
      BY <1>1, Zenon
    <3> QED
      BY <3>2, <3>3
  <2>6. users \in Seq(User) /\ file \in Seq(User) /\ at \in Inodes
    BY <1>1, <1>2
  <2> QED
    BY <2>2, <2>3, <2>4, <2>5, <2>6, Zenon DEF Typed
<1>4. FileKept /\ UidsBelow
  BY <1>1, <1>2 DEF FileKept, UidsBelow
<1>5. disk.file = two
  BY <1>1
<1> QED
  BY <1>1, <1>2, <1>3, <1>4, <1>5 DEF UsersInv

\* The users listed of a list are as good as the list, root among them.
LEMMA ListedGood ==
  ASSUME NEW list \in Seq(User),
         NEW ids, NEW more, Good(list, ids, more)
  PROVE  Good(Listed(list), ids, more)
<1> DEFINE sub == Listed(list)
<1>1. sub \in Seq(User) /\ Len(sub) \in Nat /\ DOMAIN sub = 1 .. Len(sub) /\ DOMAIN list = 1 .. Len(list)
  BY ListedSeq, LenProperties
<1>2. PICK p : Picks(list, p)
  BY ListedPicks
<1>3. \A i \in DOMAIN sub : p[i] \in DOMAIN list /\ sub[i] = list[p[i]]
  BY <1>1, <1>2 DEF Picks
<1>4. \A i, j \in DOMAIN sub : p[i] = p[j] => i = j
  <2> SUFFICES ASSUME NEW i \in DOMAIN sub, NEW j \in DOMAIN sub, p[i] = p[j] PROVE i = j
    OBVIOUS
  <2>1. p[i] \in Nat
    BY <1>1, <1>2 DEF Picks
  <2>2. ~ i < j /\ ~ j < i
    BY <1>1, <1>2, <2>1 DEF Picks
  <2> QED
    BY <1>1, <2>2
<1> HIDE DEF sub
<1>5. NamesOnce(list) => NamesOnce(sub)
  BY <1>3, <1>4 DEF NamesOnce
<1>6. UidsOnce(list) => UidsOnce(sub)
  BY <1>3, <1>4 DEF UidsOnce
<1>7. UidsGiven(list, ids) => UidsGiven(sub, ids)
  BY <1>3 DEF UidsGiven
<1>8. RootFirst(list) => RootFirst(sub)
  <2> SUFFICES ASSUME RootFirst(list) PROVE RootFirst(sub)
    OBVIOUS
  <2> DEFINE one == <<list[1]>>
             rest == Tail(list)
  <2>1. list[1] \in User /\ list[1].name = Root /\ rest \in Seq(User) /\ one \in Seq(User) /\ list = one \o rest
    BY DEF RootFirst
  <2>2. Listed(one) = one
    <3>1. IsLong(list[1])
      BY <2>1, UsersAssumption DEF IsLong
    <3>2. Len(one) = 1 /\ \A i \in 1 .. 1 : one[i] = list[1]
      OBVIOUS
    <3> QED
      BY <2>1, <3>1, <3>2, ListedLong
  <2>3. sub = one \o Listed(rest)
    <3> HIDE DEF one, rest
    <3> QED
      BY <2>1, <2>2, ListedConcat DEF sub
  <2>4. Listed(rest) \in Seq(User)
    BY <2>1, ListedSeq
  <2>5. sub # <<>> /\ sub[1] = list[1]
    BY <2>1, <2>3, <2>4
  <2> QED
    BY <2>1, <2>5 DEF RootFirst
<1> QED
  BY <1>5, <1>6, <1>7, <1>8 DEF sub, Good

-----------------------------------------------------------------------------
(* One lemma for each action *)

\* A start lists what it reads, which is never empty.
LEMMA RestartStep == UsersInv /\ Restart => UsersInv'
<1> SUFFICES ASSUME UsersInv, Restart PROVE UsersInv'
  OBVIOUS
<1> DEFINE f == disk.file
           max == MaxUid(f, disk.at)
<1>1. /\ f \in Seq(User) /\ disk.at \in Inodes /\ Good(Listed(f), given, again)
      /\ given \subseteq Nat /\ {0, 1} \subseteq given /\ again \in BOOLEAN
  BY DEF UsersInv, Typed
<1>2. Boot(f, disk.at) /\ UNCHANGED <<disk, given>>
  BY DEF Restart
<1>3. Listed(f) # <<>>
  BY <1>1 DEF Good, RootFirst
<1>4. /\ users' = Listed(f) /\ file' = f /\ users_inode' = disk.at /\ at' = disk.at
      /\ max_uid' = max /\ uid' = [t \in Ttys |-> -1]
      /\ again' = (again \/ \E id \in given : id >= max)
  BY <1>2, <1>3 DEF Boot
<1>5. max \in Nat /\ max >= 2
  <2>1. disk.at \in Nat /\ disk.at >= 2
    <3>1. \A i \in Inodes : i \in Nat /\ i # 0 /\ i # 1
      BY UsersAssumption
    <3>2. \A i \in Nat : i # 0 /\ i # 1 => i >= 2
      OBVIOUS
    <3> QED
      BY <1>1, <3>1, <3>2
  <2>2. max \in Nat /\ max >= disk.at
    BY <1>1, <2>1, MaxUidAbove
  <2> HIDE DEF max
  <2> QED
    BY <2>1, <2>2
<1> HIDE DEF max, f
<1>6. Listed(f) \in Seq(User) /\ Listed(Listed(f)) = Listed(f)
      /\ ToSet(Listed(f)) \subseteq ToSet(f)
  BY <1>1, ListedSeq, ListedFrom
<1>7. Typed'
  <2>1. uid' \in [Ttys -> given' \union {-1}]
    BY <1>2, <1>4
  <2>2. again' \in BOOLEAN
    BY <1>1, <1>4
  <2>3. disk' \in [file : Seq(User), at : Inodes]
    BY <1>2 DEF UsersInv, Typed
  <2> QED
    BY <1>1, <1>2, <1>4, <1>5, <1>6, <2>1, <2>2, <2>3 DEF Typed
<1>8. FileKept'
  BY <1>4, <1>6 DEF FileKept
<1>9. UidsBelow'
  <2>1. \A id \in given : ~ id >= max => id < max
    BY <1>1, <1>5
  <2> QED
    BY <1>2, <1>4, <2>1, Zenon DEF UidsBelow
<1>10. ~again' => ~again
  BY <1>4
<1>11. Good(Listed(f), given, again')
  BY <1>1, <1>10, GoodStays
<1>12. f = disk.file /\ disk'.file = disk.file
  BY <1>2 DEF f
<1> QED
  BY <1>2, <1>4, <1>7, <1>8, <1>9, <1>11, <1>12 DEF UsersInv

LEMMA SyncStep == UsersInv /\ Sync => UsersInv'
<1> SUFFICES ASSUME UsersInv, Sync PROVE UsersInv'
  OBVIOUS
<1>1. disk' = [file |-> file, at |-> at]
      /\ UNCHANGED <<users, max_uid, users_inode, at, file, uid, given, again>>
  BY DEF Sync
<1>2. disk' \in [file : Seq(User), at : Inodes] /\ disk'.file = file
  BY <1>1 DEF UsersInv, Typed
<1>3. Typed' /\ FileKept' /\ UidsBelow'
  BY <1>1, <1>2 DEF UsersInv, Typed, FileKept, UidsBelow
<1> QED
  BY <1>1, <1>2, <1>3 DEF UsersInv

\* IndexOf finds the place of a name, or nothing.
LEMMA IndexOfPlace ==
  ASSUME users \in Seq(User), NEW name
  PROVE  IF IndexOf(name) = -1
         THEN \A i \in DOMAIN users : users[i].name # name
         ELSE IndexOf(name) \in DOMAIN users /\ users[IndexOf(name)].name = name
<1>1. CASE \E i \in DOMAIN users : users[i].name = name
  <2> DEFINE B == {i \in DOMAIN users : users[i].name = name}
  <2>1. DOMAIN users = 1 .. Len(users) /\ Len(users) \in Nat
    BY LenProperties
  <2>2. PICK i \in B : \A j \in 1 .. i - 1 : j \notin B
    BY <1>1, <2>1, FirstOf
  <2>3. \A j \in 1 .. i - 1 : j \in DOMAIN users
    BY <2>1
  <2>4. IndexOf(name) = CHOOSE k \in DOMAIN users :
         users[k].name = name /\ \A j \in 1 .. k - 1 : users[j].name # name
    BY <1>1 DEF IndexOf
  <2>5. IndexOf(name) \in DOMAIN users /\ users[IndexOf(name)].name = name
    BY <2>2, <2>3, <2>4
  <2> QED
    BY <2>1, <2>5
<1>2. CASE ~ \E i \in DOMAIN users : users[i].name = name
  <2>1. IndexOf(name) = -1
    BY <1>2 DEF IndexOf
  <2> QED
    BY <1>2, <2>1
<1> QED
  BY <1>1, <1>2

LEMMA GidKnown ==
  ASSUME users \in Seq(User), NEW id
  PROVE  Gid(id) \in Gids \union {-1}
<1>1. CASE \E i \in DOMAIN users : users[i].uid = id
  <2> DEFINE B == {i \in DOMAIN users : users[i].uid = id}
  <2>1. DOMAIN users = 1 .. Len(users) /\ Len(users) \in Nat
    BY LenProperties
  <2>2. PICK i \in B : \A j \in 1 .. i - 1 : j \notin B
    BY <1>1, <2>1, FirstOf
  <2>3. \A j \in 1 .. i - 1 : j \in DOMAIN users
    BY <2>1
  <2> DEFINE place == CHOOSE k \in DOMAIN users :
               users[k].uid = id /\ \A j \in 1 .. k - 1 : users[j].uid # id
  <2>4. place \in DOMAIN users
    BY <2>2, <2>3
  <2>5. Gid(id) = users[place].gid
    BY <1>1 DEF Gid
  <2> HIDE DEF place
  <2>6. users[place] \in User
    BY <2>1, <2>4
  <2> QED
    BY <2>5, <2>6 DEF User
<1>2. CASE ~ \E i \in DOMAIN users : users[i].uid = id
  BY <1>2 DEF Gid
<1> QED
  BY <1>1, <1>2

LEMMA MakeuserStep ==
  ASSUME UsersInv, NEW t \in Ttys, NEW name \in Names \union {Guest}, Makeuser(t, name)
  PROVE  UsersInv'
<1> DEFINE u == [name |-> name, uid |-> max_uid, gid |-> Gid(uid[t])]
           n == Len(users)
<1>1. /\ users \in Seq(User) /\ file \in Seq(User)
      /\ max_uid \in Nat /\ max_uid >= 2 /\ IndexOf(name) = -1
      /\ users' = Append(users, u) /\ file' = Write(file, u) /\ max_uid' = max_uid + 1
      /\ given' = given \union {max_uid}
      /\ UNCHANGED <<users_inode, at, disk, uid, again>>
  BY DEF UsersInv, Typed, Makeuser, Calls, Created
<1>2. u \in User /\ u.name = name /\ u.uid = max_uid
  <2>1. Gid(uid[t]) \in Gids \union {-1}
    BY <1>1, GidKnown
  <2> QED
    BY <1>1, <2>1 DEF User
<1> HIDE DEF u
<1>3. users' \in Seq(User) /\ file' \in Seq(User)
  BY <1>1, <1>2 DEF Write
<1>4. Typed'
  <2>1. uid' \in [Ttys -> given' \union {-1}]
    BY <1>1 DEF UsersInv, Typed
  <2>2. /\ given' \subseteq Nat /\ {0, 1} \subseteq given' /\ again' \in BOOLEAN
        /\ at' \in Inodes /\ users_inode' \in {at', ERR_PERMS}
        /\ disk' \in [file : Seq(User), at : Inodes]
    BY <1>1 DEF UsersInv, Typed
  <2>3. max_uid' \in Nat /\ max_uid' >= 2
    BY <1>1
  <2> QED
    BY <1>3, <2>1, <2>2, <2>3 DEF Typed
<1>5. /\ n \in Nat /\ DOMAIN users = 1 .. n /\ DOMAIN users' = 1 .. n + 1
      /\ users'[n + 1] = u /\ \A i \in 1 .. n : users'[i] = users[i]
  BY <1>1
<1>6. \A i \in 1 .. n + 1 : i \in 1 .. n \/ i = n + 1
  BY <1>5
<1> HIDE DEF n
<1>7. NamesOnce(users')
  <2>1. \A i \in 1 .. n : users[i].name # name
    BY <1>1, <1>5, IndexOfPlace
  <2>2. NamesOnce(users)
    BY DEF UsersInv, Good
  <2> QED
    BY <1>2, <1>5, <1>6, <2>1, <2>2 DEF NamesOnce
<1>8. UidsGiven(users', given')
  BY <1>1, <1>2, <1>5, <1>6 DEF UsersInv, Good, UidsGiven
<1>9. RootFirst(users')
  <2>1. users # <<>> /\ users[1].name = Root
    BY DEF UsersInv, Good, RootFirst
  <2>2. 1 \in 1 .. n
    BY <1>1, <2>1 DEF n
  <2>3. users' # <<>>
    BY <1>1, <1>2
  <2> QED
    BY <1>5, <2>1, <2>2, <2>3 DEF RootFirst
<1>10. ASSUME ~again'
       PROVE  UidsOnce(users') /\ \A id \in given' : id < max_uid' \/ id \in {0, 1}
  <2>1. ~again /\ UidsOnce(users) /\ UidsGiven(users, given)
        /\ \A id \in given : id < max_uid \/ id \in {0, 1}
    BY <1>1, <1>10 DEF UsersInv, Good, UidsBelow
  <2>2. given \subseteq Nat
    BY DEF UsersInv, Typed
  <2>3. \A id \in given : id # max_uid
    BY <1>1, <2>1, <2>2
  <2>4. \A i \in 1 .. n : users[i].uid # max_uid
    BY <1>5, <2>1, <2>3 DEF UidsGiven
  <2>5. UidsOnce(users')
    BY <1>2, <1>5, <1>6, <2>1, <2>4 DEF UidsOnce
  <2>6. \A id \in given' : id < max_uid' \/ id \in {0, 1}
    <3> SUFFICES ASSUME NEW id \in given' PROVE id < max_uid' \/ id \in {0, 1}
      OBVIOUS
    <3>1. CASE id = max_uid
      BY <1>1, <3>1
    <3>2. CASE id \in given
      BY <1>1, <2>1, <2>2, <3>2
    <3> QED
      BY <1>1, <3>1, <3>2
  <2> QED
    BY <2>5, <2>6
<1>11. Good(users', given', again')
  BY <1>7, <1>8, <1>9, <1>10 DEF Good
<1>12. \A list : Good(list, given, again) => Good(list, given', again')
  BY <1>1, GoodStays
<1>13. CASE users_inode = at
  <2>1. Listed(file) = Listed(users) /\ ToSet(users) \subseteq ToSet(file) /\ file' = Append(file, u)
    BY <1>1, <1>13 DEF UsersInv, FileKept, Write
  <2>2. Listed(file') = Listed(users')
    BY <1>1, <1>2, <2>1, ListedAppend
  <2>3. \A f \in Seq(User) : ToSet(Append(f, u)) = ToSet(f) \union {u}
    BY <1>2, SMTT(20) DEF ToSet
  <2>4. ToSet(users') \subseteq ToSet(file')
    BY <1>1, <2>1, <2>3
  <2>5. Good(Listed(users'), given', again')
    BY <1>3, <1>11, ListedGood
  <2> QED
    BY <1>1, <1>4, <1>10, <1>11, <1>12, <2>2, <2>4, <2>5 DEF UsersInv, FileKept, UidsBelow
<1>14. CASE users_inode # at
  <2>1. file' = file /\ FileKept'
    BY <1>1, <1>14 DEF Write, FileKept
  <2> QED
    BY <1>1, <1>4, <1>10, <1>11, <1>12, <2>1 DEF UsersInv, UidsBelow
<1> QED
  BY <1>13, <1>14

\* A reload makes the file the list, or leaves it as it was and says so.
LEMMA ReloadKeeps ==
  ASSUME UsersInv, NEW list \in Seq(User), Reload(list),
         UNCHANGED <<max_uid, disk, uid, given, again>>,
         Good(list, given, again)
  PROVE  UsersInv'
<1>1. users' = list /\ ERR_PERMS \notin Inodes
  BY UsersAssumption DEF Reload, ERR_PERMS
<1>2. UidsBelow' /\ Good(users', given', again') /\ Good(Listed(disk'.file), given', again')
  BY <1>1 DEF UsersInv, UidsBelow
<1>3. CASE Refused
  <2>1. users_inode' = ERR_PERMS /\ at' = at /\ file' = file
    BY <1>3 DEF Refused
  <2>2. Typed'
    BY <1>1, <2>1 DEF UsersInv, Typed
  <2>3. FileKept'
    BY <1>1, <2>1, <2>2 DEF FileKept, Typed
  <2> QED
    BY <1>2, <2>1, <2>2, <2>3 DEF UsersInv
<1>4. CASE ~Refused
  <2>1. users_inode' = at' /\ at' \in Inodes /\ file' = list
    BY <1>4 DEF Reload
  <2>2. Typed'
    BY <1>1, <2>1 DEF UsersInv, Typed
  <2>3. FileKept'
    BY <1>1, <2>1 DEF FileKept
  <2>4. Good(Listed(list), given, again)
    BY ListedGood
  <2> QED
    BY <1>2, <2>1, <2>2, <2>3, <2>4 DEF UsersInv
<1> QED
  BY <1>3, <1>4

LEMMA NotEmpty ==
  ASSUME NEW f \in Seq(User), 1 \in DOMAIN f
  PROVE  f # <<>>
<1>1. DOMAIN f = 1 .. Len(f) /\ Len(f) # 0
  BY LenProperties
<1> QED
  BY <1>1, EmptySeq

LEMMA SetGidStep ==
  ASSUME UsersInv, NEW name \in Names \union {Root, Guest}, NEW gid \in Gids, SetGid(name, gid)
  PROVE  UsersInv'
<1> DEFINE i == IndexOf(name)
           list == [users EXCEPT ![i].gid = gid]
           n == Len(users)
<1>1. users \in Seq(User) /\ n \in Nat /\ DOMAIN users = 1 .. n /\ i \in 1 .. n
  <2>1. users \in Seq(User)
    BY DEF UsersInv, Typed
  <2>2. i # -1
    BY DEF SetGid
  <2> QED
    BY <2>1, <2>2, IndexOfPlace
<1>2. Reload(list) /\ UNCHANGED <<max_uid, disk, uid, given, again>>
  BY DEF SetGid
<1> HIDE DEF i
<1>3. [users[i] EXCEPT !.gid = gid] \in User /\ [users[i] EXCEPT !.gid = gid].name = users[i].name
      /\ [users[i] EXCEPT !.gid = gid].uid = users[i].uid
  <2>1. users[i] \in User
    BY <1>1
  <2> QED
    BY <2>1 DEF User
<1>4. list = [users EXCEPT ![i] = [users[i] EXCEPT !.gid = gid]]
  OBVIOUS
<1>5. /\ list \in Seq(User) /\ DOMAIN list = 1 .. n
      /\ \A j \in 1 .. n : list[j].name = users[j].name /\ list[j].uid = users[j].uid
  <2> HIDE DEF list
  <2>1. list \in Seq(User) /\ Len(list) = n
        /\ \A j \in 1 .. n : list[j] = IF j = i THEN [users[i] EXCEPT !.gid = gid] ELSE users[j]
    BY <1>1, <1>3, <1>4, ExceptSeq
  <2>2. DOMAIN list = 1 .. n
    BY <2>1, LenProperties
  <2> QED
    BY <1>3, <2>1, <2>2
<1> HIDE DEF list, n
<1>6. NamesOnce(list)
  BY <1>1, <1>5 DEF UsersInv, Good, NamesOnce
<1>7. UidsGiven(list, given)
  BY <1>1, <1>5 DEF UsersInv, Good, UidsGiven
<1>8. ~again => UidsOnce(list)
  BY <1>1, <1>5 DEF UsersInv, Good, UidsOnce
<1>9. RootFirst(list)
  <2>1. 1 \in 1 .. n /\ users[1].name = Root
    BY <1>1 DEF UsersInv, Good, RootFirst
  <2>2. list # <<>>
    BY <1>5, <2>1, NotEmpty
  <2> QED
    BY <1>5, <2>1, <2>2 DEF RootFirst
<1> QED
  BY <1>2, <1>5, <1>6, <1>7, <1>8, <1>9, ReloadKeeps DEF Good

LEMMA DeleteStep ==
  ASSUME UsersInv, NEW name \in Names \union {Root, Guest}, Delete(name)
  PROVE  UsersInv'
<1> DEFINE i == IndexOf(name)
           list == RemoveAt(users, i)
           n == Len(users)
<1>1. users \in Seq(User) /\ n \in Nat /\ DOMAIN users = 1 .. n /\ i \in 1 .. n /\ users[i].name # Root
  <2>1. users \in Seq(User)
    BY DEF UsersInv, Typed
  <2>2. i # -1 /\ name # Root
    BY DEF Delete, MayDelete
  <2> QED
    BY <2>1, <2>2, IndexOfPlace
<1>2. Reload(list) /\ UNCHANGED <<max_uid, disk, uid, given, again>>
  BY DEF Delete
<1> HIDE DEF i
<1>3. list = SubSeq(users, 1, i - 1) \o SubSeq(users, i + 1, n)
  BY DEF RemoveAt
<1> DEFINE before == SubSeq(users, 1, i - 1)
           behind == SubSeq(users, i + 1, n)
<1> HIDE DEF n, list
<1>4. /\ before \in Seq(User) /\ Len(before) = i - 1
      /\ \A j \in 1 .. i - 1 : before[j] = users[j]
  <2>1. \A j \in 1 .. i - 1 : users[j] \in User
    BY <1>1
  <2>2. /\ SubSeq(users, 1, i - 1) \in Seq(User)
        /\ Len(SubSeq(users, 1, i - 1)) = IF 1 <= i - 1 THEN (i - 1) - 1 + 1 ELSE 0
        /\ \A j \in 1 .. (i - 1) - 1 + 1 : SubSeq(users, 1, i - 1)[j] = users[1 + j - 1]
    BY <1>1, <2>1, SubSeqProperties
  <2> QED
    BY <1>1, <2>2
<1>5. /\ behind \in Seq(User) /\ Len(behind) = n - i
      /\ \A j \in 1 .. n - i : behind[j] = users[j + i]
  <2>1. \A j \in i + 1 .. n : users[j] \in User
    BY <1>1
  <2>2. /\ SubSeq(users, i + 1, n) \in Seq(User)
        /\ Len(SubSeq(users, i + 1, n)) = IF i + 1 <= n THEN n - (i + 1) + 1 ELSE 0
        /\ \A j \in 1 .. n - (i + 1) + 1 : SubSeq(users, i + 1, n)[j] = users[(i + 1) + j - 1]
    BY <1>1, <2>1, SubSeqProperties
  <2>3. n - (i + 1) + 1 = n - i /\ \A j \in 1 .. n - i : (i + 1) + j - 1 = j + i
    BY <1>1
  <2> QED
    BY <1>1, <2>2, <2>3
<1> HIDE DEF before, behind
<1> DEFINE p == [j \in 1 .. n - 1 |-> IF j < i THEN j ELSE j + 1]
<1>6. /\ list \in Seq(User) /\ DOMAIN list = 1 .. n - 1
      /\ \A j \in 1 .. n - 1 : list[j] = users[p[j]] /\ p[j] \in 1 .. n
      /\ \A j, k \in 1 .. n - 1 : p[j] = p[k] => j = k
      /\ 1 \in 1 .. n /\ i # 1 => 1 \in 1 .. n - 1 /\ p[1] = 1
  <2>0. list = before \o behind
    BY <1>3 DEF before, behind
  <2>1. /\ list \in Seq(User) /\ Len(list) = n - 1
        /\ \A j \in 1 .. n - 1 : list[j] = IF j <= i - 1 THEN before[j] ELSE behind[j - (i - 1)]
    <3>1. /\ before \o behind \in Seq(User) /\ Len(before \o behind) = Len(before) + Len(behind)
          /\ \A j \in 1 .. Len(before) + Len(behind) : (before \o behind)[j] =
               IF j <= Len(before) THEN before[j] ELSE behind[j - Len(before)]
      BY <1>4, <1>5, ConcatProperties
    <3>2. Len(before) + Len(behind) = n - 1
      BY <1>1, <1>4, <1>5
    <3> QED
      BY <1>4, <2>0, <3>1, <3>2
  <2>2. DOMAIN list = 1 .. n - 1
    BY <2>1, LenProperties
  <2>3. ASSUME NEW j \in 1 .. n - 1 PROVE list[j] = users[p[j]] /\ p[j] \in 1 .. n
    <3>1. CASE j < i
      BY <1>1, <1>4, <2>1, <3>1
    <3>2. CASE ~ j < i
      <4>1. j - (i - 1) \in 1 .. n - i /\ (j - (i - 1)) + i = j + 1 /\ j + 1 \in 1 .. n
        BY <1>1, <3>2
      <4>2. list[j] = behind[j - (i - 1)]
        BY <1>1, <2>1, <3>2
      <4> QED
        BY <1>5, <3>2, <4>1, <4>2
    <3> QED
      BY <3>1, <3>2
  <2>4. \A j, k \in 1 .. n - 1 : p[j] = p[k] => j = k
    BY <1>1
  <2>5. 1 \in 1 .. n /\ i # 1 => 1 \in 1 .. n - 1 /\ p[1] = 1
    BY <1>1
  <2> QED
    BY <2>1, <2>2, <2>3, <2>4, <2>5
<1> HIDE DEF p
<1>7. NamesOnce(list)
  <2>1. NamesOnce(users)
    BY DEF UsersInv, Good
  <2> QED
    BY <1>1, <1>6, <2>1 DEF NamesOnce
<1>8. UidsGiven(list, given)
  BY <1>1, <1>6 DEF UsersInv, Good, UidsGiven
<1>9. ~again => UidsOnce(list)
  BY <1>1, <1>6 DEF UsersInv, Good, UidsOnce
<1>10. RootFirst(list)
  <2>1. 1 \in 1 .. n /\ users[1].name = Root
    BY <1>1 DEF UsersInv, Good, RootFirst
  <2>2. i # 1
    BY <1>1, <2>1
  <2>3. 1 \in 1 .. n - 1 /\ list[1] = users[1]
    BY <1>6, <2>1, <2>2
  <2>4. list # <<>>
    BY <1>6, <2>3, NotEmpty
  <2> QED
    BY <2>1, <2>3, <2>4 DEF RootFirst
<1> QED
  BY <1>2, <1>6, <1>7, <1>8, <1>9, <1>10, ReloadKeeps DEF Good

LEMMA LoginStep ==
  ASSUME UsersInv, NEW t \in Ttys, NEW v \in given \union {-1},
         uid' = [uid EXCEPT ![t] = v],
         UNCHANGED <<users, max_uid, users_inode, at, file, disk, given, again>>
  PROVE  UsersInv'
<1>1. Typed' /\ FileKept' /\ UidsBelow'
  BY DEF UsersInv, Typed, FileKept, UidsBelow
<1> QED
  BY <1>1 DEF UsersInv

LEMMA UsersStep == UsersInv /\ [Next]_vars => UsersInv'
<1> SUFFICES ASSUME UsersInv, [Next]_vars PROVE UsersInv'
  OBVIOUS
<1>1. CASE Restart
  BY <1>1, RestartStep
<1>2. CASE Sync
  BY <1>2, SyncStep
<1>3. CASE \E t \in Ttys, name \in Names \union {Guest} : Makeuser(t, name)
  BY <1>3, MakeuserStep
<1>4. ASSUME NEW t \in Ttys, NEW name \in Names \union {Root, Guest}, Login(t, name)
      PROVE  UsersInv'
  <2>1. users[IndexOf(name)].uid \in given
    <3>1. users \in Seq(User) /\ IndexOf(name) # -1
      BY <1>4 DEF UsersInv, Typed, Login
    <3> QED
      BY <3>1, IndexOfPlace DEF UsersInv, Good, UidsGiven
  <2> QED
    BY <1>4, <2>1, LoginStep DEF Login
<1>5. ASSUME NEW t \in Ttys, Logout(t) PROVE UsersInv'
  BY <1>5, LoginStep DEF Logout
<1>6. CASE \E name \in Names \union {Root, Guest}, gid \in Gids : SetGid(name, gid)
  BY <1>6, SetGidStep
<1>7. CASE \E name \in Names \union {Root, Guest} : Delete(name)
  BY <1>7, DeleteStep
<1>8. CASE UNCHANGED vars
  BY <1>8 DEF vars, UsersInv, Typed, UidsBelow, FileKept
<1> QED
  BY <1>1, <1>2, <1>3, <1>4, <1>5, <1>6, <1>7, <1>8 DEF Next

LEMMA UsersAlways == Spec => []UsersInv
BY UsersStart, UsersStep, PTL DEF Spec

-----------------------------------------------------------------------------
(* The theorems *)

\* The list holds users, each name once; the inode written to is that of the
\* file or the error of a refused removal; who is logged in on a terminal has a
\* uid that was given: users.c:102-126, 144-155, 168-204.
THEOREM UsersTypeOK == Spec => []TypeOK
<1>1. UsersInv => TypeOK
  <2> SUFFICES ASSUME UsersInv PROVE TypeOK
    OBVIOUS
  <2>1. \A t \in Ttys : uid[t] = -1 \/ uid[t] \in given
    BY DEF UsersInv, Typed
  <2> QED
    BY <2>1 DEF UsersInv, Typed, Good, NamesOnce, TypeOK
<1> QED
  BY <1>1, UsersAlways, PTL

\* No two users have one uid, and the next uid is above every uid ever given
\* but root's and guest's, unless a start left max_uid too low: users.c:46-67.
THEOREM UsersUidsFresh == Spec => []UidsFresh
<1>1. UsersInv => UidsFresh
  BY DEF UsersInv, Good, UidsBelow, UidsOnce, UidsFresh
<1> QED
  BY <1>1, UsersAlways, PTL

\* The file lists what the list does and lacks nobody of it, unless the last save
\* was refused; also after a stop and a start: users.c:47-60, 117-126.
THEOREM UsersFileIsTable == Spec => []FileIsTable
<1>1. UsersInv => FileIsTable
  BY DEF UsersInv, FileKept, FileIsTable
<1> QED
  BY <1>1, UsersAlways, PTL

\* Root is the first of the list, and never removed: users.c:144-155.
RootStays == users # <<>> /\ users[1].name = Root

THEOREM UsersRootStays == Spec => []RootStays
<1>1. UsersInv => RootStays
  BY DEF UsersInv, Good, RootFirst, RootStays
<1> QED
  BY <1>1, UsersAlways, PTL
=============================================================================
