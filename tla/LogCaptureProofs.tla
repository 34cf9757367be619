--------------------------- MODULE LogCaptureProofs ----------------------------
(***************************************************************************)
(* Proofs about LogCapture, for every value of the limits and any number of *)
(* archives.  The invariant IInv has two parts: Sane holds of the files at every *)
(* moment, whoever was killed in between; Live holds while the service runs and *)
(* counts against the time of the next check: the active file is opened, and no *)
(* archive is kept, for longer than until then.  LimitsKept is not inductive: it *)
(* says nothing of the age of the newest byte of an archive, and of a file that *)
(* a killed process has left.                                              *)
(*                                                                         *)
(* The loop of maintain is followed archive by archive.  Its invariant is the *)
(* conjunction of Counted, Fits, Taken and Spared.                         *)
(***************************************************************************)
EXTENDS LogCapture, WellFoundedInduction, TLAPS

--------------------------------------------------------------------------------
(* Sums over the files of a log.                                             *)

LEMMA LeastNumber ==
  ASSUME NEW T \in SUBSET Nat, T # {}
  PROVE  \E x \in T : \A y \in T : x <= y
<1>1. PICK x \in T : \A y \in T : ~(<<y, x>> \in OpToRel(<, Nat))
  <2>1. IsWellFoundedOn(OpToRel(<, Nat), Nat)
    BY NatLessThanWellFounded
  <2> QED
    BY <2>1, WFMin
<1>2. \A y \in T : ~(y < x)
  BY <1>1 DEF OpToRel
<1> QED
  BY <1>2

\* Induction up to N, for a set.
LEMMA UpTo ==
  ASSUME NEW N \in Nat, NEW T, 0 \in T, \A n \in 1..N : n - 1 \in T => n \in T
  PROVE  \A n \in 0..N : n \in T
<1> DEFINE X == {n \in 0..N : n \notin T}
<1>1. SUFFICES ASSUME X # {} PROVE FALSE
  OBVIOUS
<1>2. X \in SUBSET Nat
  OBVIOUS
<1>3. PICK m \in X : \A y \in X : m <= y
  BY <1>1, <1>2, LeastNumber
<1>4. m \in 1..N /\ m - 1 \in 0..N
  BY <1>3
<1>5. m - 1 \in T
  BY <1>3, <1>4
<1> QED
  BY <1>3, <1>4, <1>5

\* f starts at v and takes the steps of G
Iterates(f, N, v, G) == f = [n \in 0..N |-> IF n = 0 THEN v ELSE G[<<n, f[n - 1]>>]]

\* Such a function keeps the range of its steps, and it exists: Total and Pruned are
\* defined by one.
LEMMA IteratesTyped ==
  ASSUME NEW N \in Nat, NEW V, NEW v \in V, NEW G \in [(1..N) \X V -> V], NEW f, Iterates(f, N, v, G)
  PROVE  f \in [0..N -> V]
<1> DEFINE T == {n \in 0..N : f[n] \in V}
<1>1. 0 \in T
  BY DEF Iterates
<1>2. ASSUME NEW n \in 1..N, n - 1 \in T PROVE n \in T
  <2>1. n \in 0..N /\ n # 0
    OBVIOUS
  <2>2. f[n] = G[<<n, f[n - 1]>>]
    BY <2>1 DEF Iterates
  <2>3. f[n - 1] \in V
    BY <1>2
  <2> QED
    BY <2>1, <2>2, <2>3
<1>3. \A n \in 0..N : n \in T
  BY <1>1, <1>2, UpTo
<1> QED
  BY <1>3 DEF Iterates

LEMMA IteratesExist ==
  ASSUME NEW N \in Nat, NEW V, NEW v \in V, NEW G \in [(1..N) \X V -> V]
  PROVE  \E f : Iterates(f, N, v, G)
<1> DEFINE T == {n \in 0..N : \E f : Iterates(f, n, v, G)}
<1>1. 0 \in T
  <2>1. PICK f : f = [n \in 0..0 |-> v]
    OBVIOUS
  <2>2. f = [n \in 0..0 |-> IF n = 0 THEN v ELSE G[<<n, f[n - 1]>>]]
    BY <2>1
  <2> QED
    BY <2>2 DEF Iterates
<1>2. ASSUME NEW n \in 1..N, n - 1 \in T PROVE n \in T
  <2>1. PICK f : Iterates(f, n - 1, v, G)
    BY <1>2
  <2>2. PICK w : w = G[<<n, f[n - 1]>>]
    OBVIOUS
  <2>3. PICK g : g = [k \in 0..n |-> IF k = n THEN w ELSE f[k]]
    OBVIOUS
  <2>4. ASSUME NEW k \in 0..n PROVE g[k] = IF k = 0 THEN v ELSE G[<<k, g[k - 1]>>]
    <3>1. CASE k = n
      <4>1. g[k] = w /\ g[k - 1] = f[k - 1]
        BY <2>3, <3>1
      <4> QED
        BY <2>2, <3>1, <4>1
    <3>2. CASE k # n
      <4>1. k \in 0..(n - 1)
        BY <3>2
      <4>2. f[k] = IF k = 0 THEN v ELSE G[<<k, f[k - 1]>>]
        BY <2>1, <4>1 DEF Iterates
      <4>3. g[k] = f[k]
        BY <2>3, <3>2
      <4>4. CASE k = 0
        BY <4>2, <4>3, <4>4
      <4>5. CASE k # 0
        <5>1. k - 1 \in 0..n /\ k - 1 # n
          BY <4>1, <4>5
        <5>2. g[k - 1] = f[k - 1]
          BY <2>3, <5>1
        <5> QED
          BY <4>2, <4>3, <4>5, <5>2
      <4> QED
        BY <4>4, <4>5
    <3> QED
      BY <3>1, <3>2
  <2>5. Iterates(g, n, v, G)
    BY <2>3, <2>4 DEF Iterates
  <2> QED
    BY <2>5
<1>3. N \in 0..N
  OBVIOUS
<1>4. \A n \in 0..N : n \in T
  BY <1>1, <1>2, UpTo
<1> QED
  BY <1>3, <1>4

FileRecord == [size : Nat, first : Nat, last : Nat]

\* the sizes of the first i files together
Sums(seq) == CHOOSE f : f = [i \in 0..Len(seq) |-> IF i = 0 THEN 0 ELSE f[i - 1] + seq[i].size]

\* The total is the last of the sums, each of which adds one size.
LEMMA SumsAre ==
  ASSUME NEW seq \in Seq(FileRecord)
  PROVE  /\ Total(seq) = Sums(seq)[Len(seq)]
         /\ Sums(seq)[0] = 0
         /\ \A i \in 1..Len(seq) : Sums(seq)[i] = Sums(seq)[i - 1] + seq[i].size
         /\ \A i \in 0..Len(seq) : Sums(seq)[i] \in Nat
<1> DEFINE N == Len(seq)
           G == [y \in (1..N) \X Nat |-> y[2] + seq[y[1]].size]
           Summing(f) == f = [i \in 0..N |-> IF i = 0 THEN 0 ELSE f[i - 1] + seq[i].size]
<1>1. N \in Nat /\ \A i \in 1..N : seq[i].size \in Nat
  <2>1. \A i \in 1..Len(seq) : seq[i] \in FileRecord
    OBVIOUS
  <2> QED
    BY <2>1, SMTT(30) DEF FileRecord
<1>2. Total(seq) = Sums(seq)[N]
  BY DEF Total, Sums
<1>3. \A i \in 1..N, x \in Nat : G[<<i, x>>] = x + seq[i].size
  OBVIOUS
<1>4. G \in [(1..N) \X Nat -> Nat]
  <2>1. \A y \in (1..N) \X Nat : y[2] + seq[y[1]].size \in Nat
    BY <1>1
  <2> QED
    BY <2>1
<1>5. Sums(seq) = CHOOSE f : Summing(f)
  BY DEF Sums
<1> HIDE DEF G, N
<1>6. ASSUME NEW f, f \in [0..N -> Nat]
      PROVE  [i \in 0..N |-> IF i = 0 THEN 0 ELSE f[i - 1] + seq[i].size]
             = [i \in 0..N |-> IF i = 0 THEN 0 ELSE G[<<i, f[i - 1]>>]]
  <2>1. ASSUME NEW i \in 0..N, i # 0 PROVE f[i - 1] + seq[i].size = G[<<i, f[i - 1]>>]
    <3>1. i \in 1..N /\ i - 1 \in 0..N
      BY <1>1, <2>1
    <3> QED
      BY <1>3, <1>6, <3>1
  <2> QED
    BY <2>1
<1>7. \E f : Summing(f)
  <2>1. PICK f : Iterates(f, N, 0, G)
    BY <1>1, <1>4, IteratesExist
  <2>2. f \in [0..N -> Nat]
    BY <1>1, <1>4, <2>1, IteratesTyped
  <2>3. f = [i \in 0..N |-> IF i = 0 THEN 0 ELSE G[<<i, f[i - 1]>>]]
    BY <2>1 DEF Iterates
  <2>4. Summing(f)
    BY <1>6, <2>2, <2>3, Zenon
  <2> HIDE DEF Summing
  <2> QED
    BY <2>4
<1> DEFINE g == Sums(seq)
<1>8. Summing(g)
  BY <1>5, <1>7
<1> HIDE DEF g
<1>9. g[0] = 0 /\ \A i \in 1..N : g[i] = g[i - 1] + seq[i].size
  BY <1>1, <1>8
<1>10. \A i \in 0..N : g[i] \in Nat
  <2> DEFINE T == {i \in 0..N : g[i] \in Nat}
  <2>1. 0 \in T
    BY <1>1, <1>9
  <2>2. ASSUME NEW i \in 1..N, i - 1 \in T PROVE i \in T
    BY <1>1, <1>9, <2>2
  <2> HIDE DEF T
  <2>3. \A i \in 0..N : i \in T
    BY <1>1, <2>1, <2>2, UpTo
  <2> QED
    BY <2>3 DEF T
<1> QED
  BY <1>2, <1>9, <1>10 DEF g, N

LEMMA TotalTyped ==
  ASSUME NEW seq \in Seq(FileRecord)
  PROVE  Total(seq) \in Nat
<1>1. Len(seq) \in 0..Len(seq)
  OBVIOUS
<1> QED
  BY <1>1, SumsAre

LEMMA SeqEqual ==
  ASSUME NEW S, NEW s \in Seq(S), NEW t \in Seq(S), Len(s) = Len(t), \A i \in 1..Len(s) : s[i] = t[i]
  PROVE  s = t
OBVIOUS

\* Logs that begin with the same k files begin with the same sums ...
LEMMA SumsAgree ==
  ASSUME NEW s \in Seq(FileRecord), NEW t \in Seq(FileRecord), NEW k \in Nat, k <= Len(s), k <= Len(t),
         \A i \in 1..k : s[i] = t[i]
  PROVE  \A i \in 0..k : Sums(s)[i] = Sums(t)[i]
<1> DEFINE T == {i \in 0..k : Sums(s)[i] = Sums(t)[i]}
<1>1. 0 \in T
  BY SumsAre
<1>2. ASSUME NEW i \in 1..k, i - 1 \in T PROVE i \in T
  <2>1. i \in 1..Len(s) /\ i \in 1..Len(t)
    OBVIOUS
  <2>2. Sums(s)[i] = Sums(s)[i - 1] + s[i].size /\ Sums(t)[i] = Sums(t)[i - 1] + t[i].size
    BY <2>1, SumsAre
  <2> QED
    BY <1>2, <2>2
<1> HIDE DEF T
<1>3. \A i \in 0..k : i \in T
  BY <1>1, <1>2, UpTo
<1> QED
  BY <1>3 DEF T

\* ... and what follows adds its total.
LEMMA SumsFollow ==
  ASSUME NEW s \in Seq(FileRecord), NEW t \in Seq(FileRecord)
  PROVE  /\ s \o t \in Seq(FileRecord)
         /\ Total(s \o t) = Total(s) + Total(t)
         /\ \A i \in 0..Len(t) : Sums(s \o t)[Len(s) + i] = Total(s) + Sums(t)[i]
<1> DEFINE u == s \o t
           n == Len(s)
           T == {i \in 0..Len(t) : Sums(u)[n + i] = Total(s) + Sums(t)[i]}
<1>1. /\ u \in Seq(FileRecord) /\ Len(u) = n + Len(t) /\ n \in Nat /\ Len(t) \in Nat
      /\ \A i \in 1..n : u[i] = s[i]
      /\ \A i \in 1..Len(t) : u[n + i] = t[i]
  OBVIOUS
<1> HIDE DEF u
<1>2. Sums(u)[n] = Total(s)
  <2>1. n <= Len(u) /\ n <= Len(s)
    BY <1>1
  <2>2. \A i \in 0..n : Sums(u)[i] = Sums(s)[i]
    BY <1>1, <2>1, SumsAgree
  <2>3. Total(s) = Sums(s)[n]
    BY SumsAre
  <2> QED
    BY <1>1, <2>2, <2>3
<1>3. Total(s) \in Nat /\ \A i \in 0..Len(t) : Sums(t)[i] \in Nat
  <2>1. \A i \in 0..n : Sums(s)[i] \in Nat
    BY SumsAre
  <2>2. Total(s) = Sums(s)[n]
    BY SumsAre
  <2>3. \A i \in 0..Len(t) : Sums(t)[i] \in Nat
    BY SumsAre
  <2> QED
    BY <1>1, <2>1, <2>2, <2>3
<1>4. 0 \in T
  <2>1. Sums(t)[0] = 0
    BY SumsAre
  <2> QED
    BY <1>1, <1>2, <1>3, <2>1
<1>5. ASSUME NEW i \in 1..Len(t), i - 1 \in T PROVE i \in T
  <2>1. n + i \in 1..Len(u) /\ n + i - 1 = n + (i - 1)
    BY <1>1
  <2>2. Sums(u)[n + i] = Sums(u)[n + i - 1] + u[n + i].size
    <3>1. \A j \in 1..Len(u) : Sums(u)[j] = Sums(u)[j - 1] + u[j].size
      BY <1>1, SumsAre
    <3> QED
      BY <2>1, <3>1
  <2>6. Sums(t)[i] = Sums(t)[i - 1] + t[i].size
    BY SumsAre
  <2>3. Sums(u)[n + (i - 1)] = Total(s) + Sums(t)[i - 1] /\ Sums(t)[i - 1] \in Nat /\ t[i].size \in Nat
    <3>1. t[i] \in FileRecord
      OBVIOUS
    <3>2. i - 1 \in 0..Len(t)
      OBVIOUS
    <3> QED
      BY <1>3, <1>5, <3>1, <3>2 DEF FileRecord
  <2>4. u[n + i] = t[i]
    BY <1>1
  <2>5. Sums(u)[n + i] = Total(s) + Sums(t)[i]
    BY <1>3, <2>1, <2>2, <2>3, <2>4, <2>6
  <2> QED
    BY <2>5
<1> HIDE DEF T
<1>6. \A i \in 0..Len(t) : i \in T
  BY <1>1, <1>4, <1>5, UpTo
<1>7. \A i \in 0..Len(t) : Sums(u)[n + i] = Total(s) + Sums(t)[i]
  BY <1>6 DEF T
<1>8. Total(u) = Total(s) + Total(t)
  <2>1. Total(u) = Sums(u)[Len(u)]
    BY <1>1, SumsAre
  <2>2. Total(t) = Sums(t)[Len(t)]
    BY SumsAre
  <2>3. Len(t) \in 0..Len(t)
    BY <1>1
  <2> QED
    BY <1>1, <1>7, <2>1, <2>2, <2>3
<1> QED
  BY <1>1, <1>7, <1>8 DEF u

LEMMA TotalOfNone == Total(<<>>) = 0
<1>1. <<>> \in Seq(FileRecord) /\ Len(<<>>) = 0
  OBVIOUS
<1> QED
  BY <1>1, SumsAre

\* One more file adds its size.
LEMMA TotalAppend ==
  ASSUME NEW s \in Seq(FileRecord), NEW a \in FileRecord
  PROVE  /\ Append(s, a) \in Seq(FileRecord) /\ Total(Append(s, a)) = Total(s) + a.size
         /\ Total(s) \in Nat
         /\ \A i \in 0..Len(s) : Sums(Append(s, a))[i] = Sums(s)[i]
<1> DEFINE u == Append(s, a)
<1>1. /\ u \in Seq(FileRecord) /\ Len(s) \in Nat /\ Len(u) = Len(s) + 1 /\ u[Len(s) + 1] = a
      /\ \A i \in 1..Len(s) : u[i] = s[i]
  OBVIOUS
<1> HIDE DEF u
<1>2. \A i \in 0..Len(s) : Sums(u)[i] = Sums(s)[i]
  <2>1. Len(s) <= Len(u) /\ Len(s) <= Len(s)
    BY <1>1
  <2> QED
    BY <1>1, <2>1, SumsAgree
<1>3. Sums(u)[Len(u)] = Sums(u)[Len(u) - 1] + u[Len(u)].size
  <2>1. Len(u) \in 1..Len(u)
    BY <1>1
  <2> QED
    BY <1>1, <2>1, SumsAre
<1>4. Len(u) - 1 = Len(s) /\ Len(s) \in 0..Len(s)
  BY <1>1
<1>5. Total(u) = Sums(s)[Len(s)] + a.size
  <2>1. Total(u) = Sums(u)[Len(u)]
    BY <1>1, SumsAre
  <2> QED
    BY <1>1, <1>2, <1>3, <1>4, <2>1
<1>6. Total(s) = Sums(s)[Len(s)] /\ Sums(s)[Len(s)] \in Nat
  BY <1>4, SumsAre
<1> QED
  BY <1>1, <1>2, <1>5, <1>6 DEF u

\* What is left of a log after its first n files.
LEMMA TotalOfRest ==
  ASSUME NEW s \in Seq(FileRecord), NEW n \in 0..Len(s)
  PROVE  /\ SubSeq(s, n + 1, Len(s)) \in Seq(FileRecord)
         /\ Total(SubSeq(s, n + 1, Len(s))) = Total(s) - Sums(s)[n]
<1> DEFINE u == SubSeq(s, 1, n)
           v == SubSeq(s, n + 1, Len(s))
<1>1. /\ u \in Seq(FileRecord) /\ v \in Seq(FileRecord) /\ Len(u) = n /\ Len(s) \in Nat /\ n \in Nat
      /\ s = u \o v /\ \A i \in 1..n : u[i] = s[i]
  <2>1. Len(s) \in Nat /\ n \in Nat /\ n <= Len(s)
    OBVIOUS
  <2>2. u \in Seq(FileRecord) /\ Len(u) = n /\ \A i \in 1..n : u[i] = s[i]
    BY <2>1
  <2>3. v \in Seq(FileRecord) /\ Len(v) = Len(s) - n /\ \A i \in 1..(Len(s) - n) : v[i] = s[n + i]
    BY <2>1
  <2> HIDE DEF u, v
  <2>4. u \o v \in Seq(FileRecord) /\ Len(u \o v) = Len(s)
    BY <2>1, <2>2, <2>3
  <2>7. \A i \in 1..Len(u) : (u \o v)[i] = u[i]
    BY <2>2, <2>3
  <2>8. \A i \in 1..Len(v) : (u \o v)[Len(u) + i] = v[i]
    BY <2>2, <2>3
  <2>5. ASSUME NEW i \in 1..Len(s) PROVE (u \o v)[i] = s[i]
    <3>1. CASE i <= n
      BY <2>1, <2>2, <2>7, <3>1
    <3>2. CASE i > n
      <4>1. PICK k \in 1..(Len(s) - n) : i = n + k
        <5>1. i - n \in 1..(Len(s) - n) /\ i = n + (i - n)
          BY <2>1, <3>2
        <5> QED
          BY <5>1
      <4>2. k \in 1..Len(v)
        BY <2>3
      <4>3. (u \o v)[n + k] = v[k] /\ v[k] = s[n + k]
        BY <2>2, <2>3, <2>8, <4>2
      <4> QED
        BY <4>1, <4>3
    <3>3. i <= n \/ i > n
      BY <2>1
    <3> QED
      BY <3>1, <3>2, <3>3, Zenon
  <2>6. u \o v = s
    BY <2>4, <2>5, SeqEqual
  <2> QED
    BY <2>1, <2>2, <2>3, <2>6
<1> HIDE DEF u, v
<1>2. Total(s) = Total(u) + Total(v)
  BY <1>1, SumsFollow
<1>3. \A i \in 0..n : Sums(u)[i] = Sums(s)[i]
  <2>1. n <= Len(u) /\ n <= Len(s)
    BY <1>1
  <2> QED
    BY <1>1, <2>1, SumsAgree
<1>4. Total(u) = Sums(s)[n] /\ Total(u) \in Nat /\ Total(v) \in Nat
  <2>1. Total(u) = Sums(u)[n] /\ n \in 0..n
    BY <1>1, SumsAre
  <2>2. Total(u) \in Nat /\ Total(v) \in Nat
    BY <1>1, TotalTyped
  <2> QED
    BY <1>3, <2>1, <2>2
<1> QED
  BY <1>1, <1>2, <1>4 DEF v

--------------------------------------------------------------------------------
(* The loop of maintain.                                                     *)

\* what maintain has counted up while it looks at the archives
Account == [kept : Seq(FileRecord), remaining : Int, left : Int]

\* The two outcomes of looking at one archive.
LEMMA PruneStepIs ==
  ASSUME NEW acc \in Account, NEW a \in FileRecord
  PROVE  /\ PruneStep(acc, a) =
              IF Expendable(a, acc.remaining, acc.left)
              THEN [kept |-> acc.kept, remaining |-> acc.remaining - a.size, left |-> acc.left - 1]
              ELSE [kept |-> Append(acc.kept, a), remaining |-> acc.remaining, left |-> acc.left - 1]
         /\ PruneStep(acc, a) \in Account
<1>1. acc.kept \in Seq(FileRecord) /\ acc.remaining \in Int /\ acc.left \in Int /\ a.size \in Nat
  BY DEF Account, FileRecord
<1> DEFINE K == Seq(FileRecord)
           k == Append(acc.kept, a)
           r == acc.remaining - a.size
           l == acc.left - 1
<1>2. acc \in [kept : K, remaining : Int, left : Int]
  BY DEF Account
<1>3. k \in K /\ r \in Int /\ l \in Int
  BY <1>1
<1> HIDE DEF K, k, r, l
<1> DEFINE e == [acc EXCEPT !.left = l, !.remaining = r]
           f == [acc EXCEPT !.left = l, !.kept = k]
<1>4. /\ e = [kept |-> acc.kept, remaining |-> r, left |-> l]
      /\ f = [kept |-> k, remaining |-> acc.remaining, left |-> l]
  <2>1. e \in [kept : K, remaining : Int, left : Int] /\ e.kept = acc.kept /\ e.remaining = r /\ e.left = l
    BY <1>2, <1>3
  <2>2. f \in [kept : K, remaining : Int, left : Int] /\ f.kept = k /\ f.remaining = acc.remaining /\ f.left = l
    BY <1>2, <1>3
  <2> HIDE DEF e, f
  <2> QED
    BY <2>1, <2>2
<1>5. PruneStep(acc, a) =
              IF Expendable(a, acc.remaining, acc.left)
              THEN [kept |-> acc.kept, remaining |-> r, left |-> l]
              ELSE [kept |-> k, remaining |-> acc.remaining, left |-> l]
  BY <1>4, Zenon DEF PruneStep, e, f, k, r, l
<1>6. PruneStep(acc, a) \in Account
  BY <1>1, <1>3, <1>5 DEF Account, K
<1> QED
  BY <1>5, <1>6, Zenon DEF k, r, l

AtFirst(seq) == [kept |-> <<>>, remaining |-> Total(seq), left |-> Len(seq)]

\* the accounts of maintain's loop over the first n archives
Looks(seq, n) == CHOOSE f : f = [i \in 0..n |-> IF i = 0
                                                THEN [kept |-> <<>>, remaining |-> Total(seq), left |-> Len(seq)]
                                                ELSE PruneStep(f[i - 1], seq[i])]

\* Pruned follows the accounts from one archive to the next.
LEMMA LooksAre ==
  ASSUME NEW seq \in Seq(FileRecord), NEW n \in 0..Len(seq)
  PROVE  /\ Pruned(seq, n) = Looks(seq, n)[n].kept \o SubSeq(seq, n + 1, Len(seq))
         /\ Looks(seq, n)[0] = AtFirst(seq)
         /\ \A i \in 1..n : Looks(seq, n)[i] = PruneStep(Looks(seq, n)[i - 1], seq[i])
         /\ \A i \in 0..n : Looks(seq, n)[i] \in Account
<1> DEFINE G == [y \in (1..n) \X Account |-> PruneStep(y[2], seq[y[1]])]
           v == AtFirst(seq)
           Looking(f) == f = [i \in 0..n |-> IF i = 0 THEN v ELSE PruneStep(f[i - 1], seq[i])]
<1>1. n \in Nat /\ \A i \in 1..n : seq[i] \in FileRecord
  OBVIOUS
<1>2. Pruned(seq, n) = Looks(seq, n)[n].kept \o SubSeq(seq, n + 1, Len(seq))
  BY DEF Pruned, Looks
<1>3. v \in Account
  <2>1. Total(seq) \in Nat /\ Len(seq) \in Nat
    BY TotalTyped
  <2> QED
    BY <2>1 DEF Account, AtFirst
<1>4. \A i \in 1..n, x \in Account : G[<<i, x>>] = PruneStep(x, seq[i])
  OBVIOUS
<1>5. G \in [(1..n) \X Account -> Account]
  <2>1. \A y \in (1..n) \X Account : PruneStep(y[2], seq[y[1]]) \in Account
    BY <1>1, PruneStepIs
  <2> QED
    BY <2>1
<1>6. Looks(seq, n) = CHOOSE f : Looking(f)
  BY DEF Looks, AtFirst
<1> HIDE DEF G, v
<1>7. ASSUME NEW f, f \in [0..n -> Account]
      PROVE  [i \in 0..n |-> IF i = 0 THEN v ELSE PruneStep(f[i - 1], seq[i])]
             = [i \in 0..n |-> IF i = 0 THEN v ELSE G[<<i, f[i - 1]>>]]
  <2>1. ASSUME NEW i \in 0..n, i # 0 PROVE PruneStep(f[i - 1], seq[i]) = G[<<i, f[i - 1]>>]
    <3>1. i \in 1..n /\ i - 1 \in 0..n
      BY <1>1, <2>1
    <3> QED
      BY <1>4, <1>7, <3>1
  <2> QED
    BY <2>1, Zenon
<1>8. \E f : Looking(f) /\ f \in [0..n -> Account]
  <2>1. PICK f : Iterates(f, n, v, G)
    BY <1>1, <1>3, <1>5, IteratesExist
  <2>2. f \in [0..n -> Account]
    BY <1>1, <1>3, <1>5, <2>1, IteratesTyped
  <2>3. f = [i \in 0..n |-> IF i = 0 THEN v ELSE G[<<i, f[i - 1]>>]]
    BY <2>1 DEF Iterates
  <2>4. Looking(f)
    BY <1>7, <2>2, <2>3, Zenon
  <2> HIDE DEF Looking
  <2> QED
    BY <2>2, <2>4
<1> DEFINE g == Looks(seq, n)
<1>9. Looking(g)
  BY <1>6, <1>8
<1> HIDE DEF g
<1>10. g[0] = v /\ \A i \in 1..n : g[i] = PruneStep(g[i - 1], seq[i])
  <2>1. 0 \in 0..n /\ \A i \in 1..n : i \in 0..n /\ i # 0
    BY <1>1
  <2> QED
    BY <1>9, <2>1
<1>11. \A i \in 0..n : g[i] \in Account
  <2> DEFINE T == {i \in 0..n : g[i] \in Account}
  <2>1. 0 \in T
    BY <1>1, <1>3, <1>10
  <2>2. ASSUME NEW i \in 1..n, i - 1 \in T PROVE i \in T
    <3>1. PruneStep(g[i - 1], seq[i]) \in Account
      BY <1>1, <2>2, PruneStepIs
    <3> QED
      BY <1>10, <3>1
  <2> HIDE DEF T
  <2>3. \A i \in 0..n : i \in T
    BY <1>1, <2>1, <2>2, UpTo
  <2> QED
    BY <2>3 DEF T
<1> QED
  BY <1>2, <1>10, <1>11 DEF g, v

Ordered(seq) == \A i, j \in 1..Len(seq) : i < j => seq[i].last >= seq[j].first

\* an archive that maintain has no reason to remove
Keepable(seq, m) ==
    /\ seq[m].last < Retention /\ seq[m].size \in 1..MaxFile
    /\ Total(seq) - Sums(seq)[m - 1] <= Budget
    /\ Len(seq) - m + 1 <= MaxSegments

\* The loop invariant of maintain, after i archives: what it counts, ...
Counted(seq, acc, i) ==
    /\ acc.left = Len(seq) - i
    /\ acc.remaining = Total(acc.kept) + Total(seq) - Sums(seq)[i]
    /\ acc.remaining <= Total(seq)
    /\ Len(acc.kept) <= i
\* ... that what it keeps fits, ...
Fits(acc) ==
    acc.kept # <<>> => acc.remaining <= Budget /\ Len(acc.kept) + acc.left <= MaxSegments
\* ... that it is some of the archives, young and in their order, ...
Taken(seq, acc, i) ==
    /\ \A x \in 1..Len(acc.kept) :
          /\ acc.kept[x].last < Retention /\ acc.kept[x].size \in 1..MaxFile
          /\ \E m \in 1..i : acc.kept[x] = seq[m]
          /\ \A j \in (i + 1)..Len(seq) : acc.kept[x].last >= seq[j].first
    /\ Ordered(acc.kept)
\* ... and all that could be kept.
Spared(seq, acc, i) ==
    \A m \in 1..i : Keepable(seq, m) => \E x \in 1..Len(acc.kept) : acc.kept[x] = seq[m]

LEMMA AppendIs ==
  ASSUME NEW S, NEW s \in Seq(S), NEW a \in S
  PROVE  /\ Append(s, a) \in Seq(S) /\ Len(Append(s, a)) = Len(s) + 1 /\ Len(s) \in Nat
         /\ Append(s, a)[Len(s) + 1] = a
         /\ \A i \in 1..Len(s) : Append(s, a)[i] = s[i]
         /\ Append(s, a) # <<>>
OBVIOUS

\* One archive keeps the loop invariant.
LEMMA Looked ==
  ASSUME NEW seq \in Seq(FileRecord), Ordered(seq), NEW i \in 1..Len(seq), NEW acc \in Account,
         Counted(seq, acc, i - 1), Fits(acc), Taken(seq, acc, i - 1), Spared(seq, acc, i - 1),
         NEW new, new = PruneStep(acc, seq[i])
  PROVE  Counted(seq, new, i) /\ Fits(new) /\ Taken(seq, new, i) /\ Spared(seq, new, i)
<1> DEFINE a == seq[i]
           k == acc.kept
           N == Len(seq)
           rem == acc.remaining
           left == acc.left
           size == a.size
<1>1. N \in Nat /\ i \in Nat /\ i - 1 \in Nat /\ a \in FileRecord /\ \A j \in 1..N : seq[j] \in FileRecord
  OBVIOUS
<1>2. k \in Seq(FileRecord) /\ rem \in Int /\ left \in Int
  BY DEF Account
<1>3. size \in Nat /\ a.first \in Nat /\ a.last \in Nat
  BY <1>1 DEF FileRecord
<1>4. Sums(seq)[i] = Sums(seq)[i - 1] + size /\ Sums(seq)[i - 1] \in Nat /\ Sums(seq)[i] \in Nat
  <2>1. i - 1 \in 0..Len(seq) /\ i \in 0..Len(seq)
    BY <1>1
  <2> QED
    BY <2>1, SumsAre
<1>5. Total(seq) \in Nat /\ Total(k) \in Nat /\ Len(k) \in Nat
  BY <1>2, TotalTyped
<1>6. Budget \in Nat /\ MaxSegments \in Nat \ {0} /\ Retention \in Nat /\ MaxFile \in Nat
  BY LimitAssumption DEF Budget
<1>9. /\ left = N - (i - 1) /\ rem = Total(k) + Total(seq) - Sums(seq)[i - 1]
      /\ rem <= Total(seq) /\ Len(k) <= i - 1
  BY DEF Counted
<1>7. CASE Expendable(a, rem, left)
  <2>1. new = [kept |-> k, remaining |-> rem - size, left |-> left - 1]
    BY <1>1, <1>7, PruneStepIs
  <2>2. new.kept = k /\ new.remaining = rem - size /\ new.left = left - 1
    BY <2>1
  <2> HIDE DEF k, a, N, rem, left, size
  <2>3. Counted(seq, new, i)
    <3>1. left - 1 = N - i
      BY <1>1, <1>2, <1>9
    <3>4. rem - size = Total(k) + Total(seq) - Sums(seq)[i]
      <4> DEFINE before == Sums(seq)[i - 1]
                 after == Sums(seq)[i]
                 had == Total(seq)
                 keeps == Total(k)
      <4>1. rem = keeps + had - before /\ after = before + size
        BY <1>4, <1>9
      <4>2. before \in Nat /\ after \in Nat /\ had \in Nat /\ keeps \in Nat
        BY <1>4, <1>5
      <4> HIDE DEF before, after, had, keeps
      <4>3. rem - size = keeps + had - after
        BY <1>2, <1>3, <4>1, <4>2
      <4> QED
        BY <4>3 DEF after, had, keeps
    <3>2. rem - size <= Total(seq)
      BY <1>2, <1>3, <1>5, <1>9
    <3>3. Len(k) <= i
      BY <1>1, <1>5, <1>9
    <3> QED
      BY <2>2, <3>1, <3>2, <3>3, <3>4, Zenon DEF Counted, N, rem, left
  <2>4. Fits(new)
    <3>1. SUFFICES ASSUME k # <<>> PROVE rem - size <= Budget /\ Len(k) + (left - 1) <= MaxSegments
      BY <2>2, Zenon DEF Fits, rem, left
    <3>2. rem <= Budget /\ Len(k) + left <= MaxSegments
      BY <3>1 DEF Fits, k, rem, left
    <3> QED
      BY <1>2, <1>3, <1>5, <1>6, <3>2
  <2>5. Taken(seq, new, i)
    BY <1>1, <2>2 DEF Taken, k
  <2>6. Spared(seq, new, i)
    <3>1. ASSUME NEW m \in 1..i, Keepable(seq, m) PROVE m # i
      <4>1. SUFFICES ASSUME m = i PROVE FALSE
        OBVIOUS
      <4>2. a.last < Retention /\ size \in 1..MaxFile
        BY <3>1, <4>1 DEF Keepable, a, size
      <4>3. Total(seq) - Sums(seq)[i - 1] <= Budget /\ N - i + 1 <= MaxSegments
        BY <3>1, <4>1 DEF Keepable, N
      <4>4. left <= MaxSegments
        BY <1>1, <4>3 DEF Counted, N, rem, left
      <4>5. rem <= Budget
        <5>1. CASE k = <<>>
          BY <1>4, <1>5, <1>6, <4>3, <5>1, TotalOfNone DEF Counted, k, rem, left
        <5>2. CASE k # <<>>
          BY <5>2 DEF Fits, k, rem, left
        <5> QED
          BY <5>1, <5>2
      <4> QED
        BY <1>2, <1>3, <1>6, <1>7, <4>2, <4>4, <4>5, SMTT(30) DEF Expendable, rem, left, size
    <3>2. ASSUME NEW m \in 1..i, Keepable(seq, m)
          PROVE  \E x \in 1..Len(new.kept) : new.kept[x] = seq[m]
      <4>1. m \in 1..(i - 1)
        BY <1>1, <3>1, <3>2
      <4> QED
        BY <2>2, <3>2, <4>1 DEF Spared, k
    <3> QED
      BY <3>2 DEF Spared
  <2> QED
    BY <2>3, <2>4, <2>5, <2>6
<1>8. CASE ~Expendable(a, rem, left)
  <2> DEFINE q == Append(k, a)
  <2>1. new = [kept |-> q, remaining |-> rem, left |-> left - 1]
    BY <1>1, <1>8, PruneStepIs
  <2>2. new.kept = q /\ new.remaining = rem /\ new.left = left - 1
    BY <2>1
  <2>3. /\ q \in Seq(FileRecord) /\ Len(q) = Len(k) + 1 /\ q[Len(k) + 1] = a /\ \A x \in 1..Len(k) : q[x] = k[x]
        /\ q # <<>>
    BY <1>1, <1>2, AppendIs
  <2>4. Total(q) = Total(k) + size
    BY <1>1, <1>2, TotalAppend
  <2> HIDE DEF k, a, N, rem, left, size, q
  <2>5. /\ a.last < Retention /\ size \in 1..MaxFile
        /\ rem <= Budget /\ left <= MaxSegments
    <3>1. /\ ~(a.last >= Retention) /\ ~(rem > Budget) /\ size # 0 /\ ~(size > MaxFile)
          /\ ~(left > MaxSegments)
      BY <1>8, Zenon DEF Expendable, rem, left, size
    <3> QED
      BY <1>2, <1>3, <1>6, <3>1
  <2>6. Counted(seq, new, i)
    <3>1. left - 1 = N - i
      BY <1>1, <1>2, <1>9
    <3>2. rem = Total(q) + Total(seq) - Sums(seq)[i]
      BY <1>2, <1>3, <1>4, <1>5, <1>9, <2>4, SMTT(60)
    <3>3. Len(q) <= i
      BY <1>1, <1>5, <1>9, <2>3
    <3> QED
      BY <1>9, <2>2, <3>1, <3>2, <3>3, Zenon DEF Counted, N, rem, left
  <2>7. Fits(new)
    <3>1. Len(q) + new.left <= MaxSegments
      <4>1. CASE k = <<>>
        <5>1. Len(k) = 0
          BY <4>1
        <5> QED
          BY <1>2, <1>6, <2>2, <2>3, <2>5, <5>1
      <4>2. CASE k # <<>>
        BY <1>2, <1>5, <1>6, <2>2, <2>3, <4>2 DEF Fits, k, rem, left
      <4> QED
        BY <4>1, <4>2
    <3> QED
      BY <2>2, <2>5, <3>1 DEF Fits, rem, left
  <2>8. Taken(seq, new, i)
    <3>1. ASSUME NEW x \in 1..Len(q)
          PROVE  /\ q[x].last < Retention /\ q[x].size \in 1..MaxFile
                 /\ \E m \in 1..i : q[x] = seq[m]
                 /\ \A j \in (i + 1)..Len(seq) : q[x].last >= seq[j].first
      <4>1. CASE x = Len(k) + 1
        <5>1. q[x] = seq[i]
          BY <2>3, <4>1 DEF a
        <5>2. i \in 1..i
          BY <1>1
        <5>3. \A j \in (i + 1)..Len(seq) : seq[i].last >= seq[j].first
          BY <1>1 DEF Ordered
        <5> QED
          BY <2>5, <5>1, <5>2, <5>3 DEF a, size
      <4>2. CASE x # Len(k) + 1
        <5>1. x \in 1..Len(k) /\ q[x] = k[x]
          BY <1>5, <2>3, <4>2
        <5>2. \A j \in (i + 1)..Len(seq) : j \in (i - 1 + 1)..Len(seq)
          BY <1>1
        <5>3. \A m \in 1..(i - 1) : m \in 1..i
          BY <1>1
        <5> QED
          BY <5>1, <5>2, <5>3 DEF Taken, k
      <4> QED
        BY <4>1, <4>2
    <3>2. ASSUME NEW x \in 1..Len(q), NEW y \in 1..Len(q), x < y PROVE q[x].last >= q[y].first
      <4>1. x \in 1..Len(k) /\ q[x] = k[x]
        BY <1>5, <2>3, <3>2
      <4>2. CASE y = Len(k) + 1
        <5>1. q[y] = seq[i] /\ i \in (i - 1 + 1)..Len(seq)
          BY <1>1, <2>3, <4>2 DEF a
        <5> QED
          BY <4>1, <5>1 DEF Taken, k
      <4>3. CASE y # Len(k) + 1
        <5>1. y \in 1..Len(k) /\ q[y] = k[y]
          BY <1>5, <2>3, <4>3
        <5> QED
          BY <3>2, <4>1, <5>1 DEF Taken, Ordered, k
      <4> QED
        BY <4>2, <4>3
    <3> QED
      BY <2>2, <3>1, <3>2 DEF Taken, Ordered
  <2>9. Spared(seq, new, i)
    <3>1. ASSUME NEW m \in 1..i, Keepable(seq, m)
          PROVE  \E x \in 1..Len(q) : q[x] = seq[m]
      <4>1. CASE m = i
        <5>1. Len(k) + 1 \in 1..Len(q) /\ q[Len(k) + 1] = seq[m]
          BY <1>5, <2>3, <4>1 DEF a
        <5> QED
          BY <5>1
      <4>2. CASE m # i
        <5>1. m \in 1..(i - 1)
          BY <1>1, <4>2
        <5>2. PICK x \in 1..Len(k) : k[x] = seq[m]
          BY <3>1, <5>1 DEF Spared, k
        <5>3. x \in 1..Len(q) /\ q[x] = k[x]
          BY <1>5, <2>3
        <5> QED
          BY <5>2, <5>3
      <4> QED
        BY <4>1, <4>2
    <3> QED
      BY <2>2, <3>1 DEF Spared
  <2> QED
    BY <2>6, <2>7, <2>8, <2>9
<1> QED
  BY <1>7, <1>8

\* So do any number of them.
LEMMA LoopKeeps ==
  ASSUME NEW seq \in Seq(FileRecord), Ordered(seq), NEW n \in 0..Len(seq)
  PROVE  LET acc == Looks(seq, n)[n] IN
           acc \in Account /\ Counted(seq, acc, n) /\ Fits(acc) /\ Taken(seq, acc, n) /\ Spared(seq, acc, n)
<1> DEFINE L == Looks(seq, n)
           T == {i \in 0..n : Counted(seq, L[i], i) /\ Fits(L[i]) /\ Taken(seq, L[i], i) /\ Spared(seq, L[i], i)}
<1>1. L[0] = AtFirst(seq) /\ \A i \in 1..n : L[i] = PruneStep(L[i - 1], seq[i])
  BY LooksAre
<1>2. \A i \in 0..n : L[i] \in Account
  BY LooksAre
<1>3. n \in Nat /\ Len(seq) \in Nat /\ n <= Len(seq)
  OBVIOUS
<1> HIDE DEF L
<1>4. 0 \in T
  <2>1. L[0].kept = <<>> /\ L[0].remaining = Total(seq) /\ L[0].left = Len(seq)
    BY <1>1 DEF AtFirst
  <2>2. Sums(seq)[0] = 0 /\ Total(seq) \in Nat
    BY SumsAre, TotalTyped
  <2>3. Counted(seq, L[0], 0)
    BY <1>3, <2>1, <2>2, TotalOfNone DEF Counted
  <2>4. Fits(L[0])
    BY <2>1 DEF Fits
  <2>5. Taken(seq, L[0], 0) /\ Spared(seq, L[0], 0)
    BY <2>1 DEF Taken, Spared, Ordered
  <2> QED
    BY <1>3, <2>3, <2>4, <2>5
<1>5. ASSUME NEW i \in 1..n, i - 1 \in T PROVE i \in T
  <2>1. i \in 1..Len(seq) /\ i \in 0..n /\ i - 1 \in 0..n
    BY <1>3
  <2>2. L[i - 1] \in Account /\ L[i] = PruneStep(L[i - 1], seq[i])
    BY <1>1, <1>2, <2>1
  <2>3. /\ Counted(seq, L[i - 1], i - 1) /\ Fits(L[i - 1]) /\ Taken(seq, L[i - 1], i - 1)
        /\ Spared(seq, L[i - 1], i - 1)
    BY <1>5
  <2>4. Counted(seq, L[i], i) /\ Fits(L[i]) /\ Taken(seq, L[i], i) /\ Spared(seq, L[i], i)
    BY <2>1, <2>2, <2>3, Looked
  <2> QED
    BY <2>1, <2>4
<1> HIDE DEF T
<1>6. n \in T
  BY <1>3, <1>4, <1>5, UpTo
<1>7. n \in 0..n
  BY <1>3
<1> QED
  BY <1>2, <1>6, <1>7 DEF L, T

LEMMA ConcatIs ==
  ASSUME NEW S, NEW s \in Seq(S), NEW t \in Seq(S)
  PROVE  /\ s \o t \in Seq(S) /\ Len(s \o t) = Len(s) + Len(t)
         /\ Len(s) \in Nat /\ Len(t) \in Nat
         /\ \A x \in 1..Len(s) : (s \o t)[x] = s[x]
         /\ \A x \in 1..Len(t) : (s \o t)[Len(s) + x] = t[x]
OBVIOUS

\* an index of s \o t is one of s or one of t
LEMMA Halves ==
  ASSUME NEW S, NEW s \in Seq(S), NEW t \in Seq(S), NEW x \in 1..Len(s \o t)
  PROVE  x \in 1..Len(s) \/ \E y \in 1..Len(t) : x = Len(s) + y
<1>1. Len(s \o t) = Len(s) + Len(t) /\ Len(s) \in Nat /\ Len(t) \in Nat
  BY ConcatIs
<1>2. CASE x > Len(s)
  <2>1. x - Len(s) \in 1..Len(t) /\ x = Len(s) + (x - Len(s))
    BY <1>1, <1>2
  <2> QED
    BY <2>1
<1>3. CASE ~(x > Len(s))
  BY <1>1, <1>3
<1> QED
  BY <1>2, <1>3

\* What pruning leaves: archives that were there, in their order and no more of them, and all
\* that there was no reason to remove.
LEMMA PrunedIs ==
  ASSUME NEW seq \in Seq(FileRecord), Ordered(seq), NEW n \in 0..Len(seq), NEW new, new = Pruned(seq, n)
  PROVE  /\ new \in Seq(FileRecord) /\ Ordered(new)
         /\ \A x \in 1..Len(new) : \E m \in 1..Len(seq) : new[x] = seq[m]
         /\ Total(new) <= Total(seq) /\ Len(new) <= Len(seq)
         /\ \A m \in 1..Len(seq) : Keepable(seq, m) => \E x \in 1..Len(new) : new[x] = seq[m]
<1> DEFINE acc == Looks(seq, n)[n]
           k == acc.kept
           v == SubSeq(seq, n + 1, Len(seq))
           N == Len(seq)
<1>1. acc \in Account /\ Counted(seq, acc, n) /\ Taken(seq, acc, n) /\ Spared(seq, acc, n)
  BY LoopKeeps
<1>2. k \in Seq(FileRecord)
  BY <1>1 DEF Account
<1>3. n \in Nat /\ N \in Nat /\ n <= N
  OBVIOUS
<1>4. v \in Seq(FileRecord) /\ Len(v) = N - n /\ \A x \in 1..(N - n) : v[x] = seq[n + x]
  BY <1>3
<1>5. Total(v) = Total(seq) - Sums(seq)[n]
  BY TotalOfRest
<1>6. new = k \o v
  BY LooksAre
<1> HIDE DEF acc, k, v, N
<1>7. new \in Seq(FileRecord) /\ Len(new) = Len(k) + Len(v) /\ Len(k) \in Nat
  BY <1>2, <1>4, <1>6, ConcatIs
<1>8. \A x \in 1..Len(k) : new[x] = k[x]
  BY <1>2, <1>4, <1>6, ConcatIs
<1>9. \A x \in 1..Len(v) : new[Len(k) + x] = v[x]
  BY <1>2, <1>4, <1>6, ConcatIs
<1>10. \A x \in 1..Len(new) : x \in 1..Len(k) \/ \E y \in 1..Len(v) : x = Len(k) + y
  BY <1>2, <1>4, <1>6, Halves
<1>11. \A y \in 1..Len(v) : n + y \in (n + 1)..N /\ n + y \in 1..N /\ v[y] = seq[n + y]
  BY <1>3, <1>4
<1>12. /\ \A x \in 1..Len(k) : /\ \E m \in 1..n : k[x] = seq[m]
                               /\ \A j \in (n + 1)..N : k[x].last >= seq[j].first
       /\ Ordered(k)
  BY <1>1, Zenon DEF Taken, k, N
<1>13. Ordered(new)
  <2>1. SUFFICES ASSUME NEW x \in 1..Len(new), NEW y \in 1..Len(new), x < y PROVE new[x].last >= new[y].first
    BY DEF Ordered
  <2>2. CASE x \in 1..Len(k) /\ y \in 1..Len(k)
    BY <1>8, <1>12, <2>1, <2>2 DEF Ordered
  <2>3. ASSUME NEW z \in 1..Len(v), y = Len(k) + z, x \in 1..Len(k) PROVE new[x].last >= new[y].first
    <3>1. new[y] = seq[n + z] /\ n + z \in (n + 1)..N
      BY <1>9, <1>11, <2>3
    <3>2. new[x] = k[x]
      BY <1>8, <2>3
    <3> QED
      BY <1>12, <2>3, <3>1, <3>2
  <2>4. ASSUME NEW z \in 1..Len(v), y = Len(k) + z, NEW w \in 1..Len(v), x = Len(k) + w
        PROVE  new[x].last >= new[y].first
    <3>1. new[y] = seq[n + z] /\ new[x] = seq[n + w]
      BY <1>9, <1>11, <2>4
    <3>2. n + w \in 1..N /\ n + z \in 1..N /\ n + w < n + z
      BY <1>3, <1>7, <1>11, <2>1, <2>4
    <3>3. seq[n + w].last >= seq[n + z].first
      BY <3>2 DEF Ordered, N
    <3> QED
      BY <3>1, <3>3, Zenon
  <2>5. ASSUME NEW w \in 1..Len(v), x = Len(k) + w, y \in 1..Len(k) PROVE FALSE
    BY <1>7, <2>1, <2>5
  <2> QED
    BY <1>10, <2>2, <2>3, <2>4, <2>5, Zenon
<1>14. ASSUME NEW x \in 1..Len(new) PROVE \E m \in 1..N : new[x] = seq[m]
  <2>1. CASE x \in 1..Len(k)
    <3>1. PICK m \in 1..n : k[x] = seq[m]
      BY <1>12, <2>1
    <3>2. m \in 1..N
      BY <1>3
    <3> QED
      BY <1>8, <2>1, <3>1, <3>2
  <2>2. ASSUME NEW y \in 1..Len(v), x = Len(k) + y PROVE \E m \in 1..N : new[x] = seq[m]
    BY <1>9, <1>11, <2>2
  <2> QED
    BY <1>10, <2>1, <2>2, Zenon
<1>15. Total(new) = acc.remaining /\ acc.remaining <= Total(seq) /\ Len(k) <= n
  <2>1. Total(new) = Total(k) + Total(v)
    BY <1>2, <1>4, <1>6, SumsFollow
  <2>2. acc.remaining = Total(k) + Total(seq) - Sums(seq)[n] /\ acc.remaining <= Total(seq) /\ Len(k) <= n
    BY <1>1 DEF Counted, k
  <2>3. Total(seq) \in Nat /\ Total(k) \in Nat /\ Total(v) \in Nat
    BY <1>2, <1>4, TotalTyped
  <2>4. Sums(seq)[n] \in Nat
    BY SumsAre
  <2> QED
    BY <1>5, <2>1, <2>2, <2>3, <2>4
<1>16. Len(new) <= N
  BY <1>3, <1>4, <1>7, <1>15
<1>17. ASSUME NEW m \in 1..N, Keepable(seq, m) PROVE \E x \in 1..Len(new) : new[x] = seq[m]
  <2>1. CASE m \in 1..n
    <3>1. PICK x \in 1..Len(k) : k[x] = seq[m]
      BY <1>1, <1>17, <2>1 DEF Spared, k
    <3>2. x \in 1..Len(new) /\ new[x] = k[x]
      BY <1>4, <1>3, <1>7, <1>8
    <3> QED
      BY <3>1, <3>2
  <2>2. CASE m \notin 1..n
    <3>1. PICK y \in 1..(N - n) : m = n + y
      <4>1. m - n \in 1..(N - n) /\ m = n + (m - n)
        BY <1>3, <2>2
      <4> QED
        BY <4>1
    <3>2. y \in 1..Len(v) /\ v[y] = seq[m]
      BY <1>4, <3>1
    <3>3. Len(k) + y \in 1..Len(new)
      BY <1>3, <1>4, <1>7
    <3>4. new[Len(k) + y] = seq[m]
      BY <1>9, <3>2
    <3> QED
      BY <3>3, <3>4
  <2> QED
    BY <2>1, <2>2
<1> QED
  BY <1>7, <1>13, <1>14, <1>15, <1>16, <1>17 DEF N

\* When all archives have been looked at, what is left fits and is young.
LEMMA PrunedFits ==
  ASSUME NEW seq \in Seq(FileRecord), Ordered(seq), NEW new, new = Pruned(seq, Len(seq))
  PROVE  /\ Total(new) <= Budget /\ Len(new) <= MaxSegments
         /\ \A x \in 1..Len(new) : new[x].last < Retention
<1> DEFINE n == Len(seq)
           acc == Looks(seq, n)[n]
           k == acc.kept
<1>1. n \in Nat /\ n \in 0..Len(seq)
  OBVIOUS
<1>2. acc \in Account /\ Counted(seq, acc, n) /\ Fits(acc) /\ Taken(seq, acc, n)
  BY <1>1, LoopKeeps
<1>3. k \in Seq(FileRecord)
  BY <1>2 DEF Account
<1>4. new = k \o SubSeq(seq, n + 1, Len(seq))
  BY <1>1, LooksAre
<1> HIDE DEF acc, k
<1>5. new = k
  <2>1. SubSeq(seq, n + 1, Len(seq)) = <<>>
    BY <1>1
  <2> QED
    BY <1>3, <1>4, <2>1
<1>6. Budget \in Nat /\ MaxSegments \in Nat
  BY LimitAssumption DEF Budget
<1>7. CASE k = <<>>
  <2>1. Len(new) = 0 /\ Total(new) = 0
    BY <1>5, <1>7, TotalOfNone
  <2> QED
    BY <1>6, <2>1
<1>8. CASE k # <<>>
  <2>1. acc.remaining <= Budget /\ Len(k) + acc.left <= MaxSegments
    BY <1>8, <1>2 DEF Fits, k
  <2>2. acc.left = Len(seq) - n /\ acc.remaining = Total(k) + Total(seq) - Sums(seq)[n]
    BY <1>2 DEF Counted, k
  <2>3. Total(seq) = Sums(seq)[n] /\ Total(seq) \in Nat /\ Total(k) \in Nat
    BY <1>3, SumsAre, TotalTyped
  <2>4. acc.left = 0 /\ acc.remaining = Total(k)
    BY <1>1, <2>2, <2>3
  <2>5. \A x \in 1..Len(k) : k[x].last < Retention
    BY <1>2, Zenon DEF Taken, k
  <2>6. Len(k) \in Nat
    BY <1>3
  <2> QED
    BY <1>5, <1>6, <2>1, <2>4, <2>5, <2>6
<1> QED
  BY <1>7, <1>8

--------------------------------------------------------------------------------
(* The invariant.                                                            *)

\* the files of a log directory
Dir == [active : FileRecord \cup {NoFile}, archives : Seq(FileRecord), opened : Nat]

\* how long a segment is written to at most
Span == RotateAfter - 1 + Interval + Late

Sound(a) == a.size <= MaxFile /\ (a.size > 0 => a.first <= a.last + Span)

\* what holds of the files at every moment, ...
Sane(f) ==
    /\ f \in Dir
    /\ Sound(f.active) /\ \A i \in 1..Len(f.archives) : Sound(f.archives[i])
    /\ Ordered(f.archives)
    /\ f.active # NoFile => \A i \in 1..Len(f.archives) : f.archives[i].last >= f.active.first
    /\ Total(f.archives) + f.active.size <= MaxTotal

\* ... and what the capture process relies on when the next check is due in d
Live(f, d) ==
    /\ f.active # NoFile
    /\ Total(f.archives) <= Budget /\ Len(f.archives) <= MaxSegments
    /\ f.active.first <= f.opened
    /\ f.opened + d <= RotateAfter - 1 + Interval
    /\ \A i \in 1..Len(f.archives) : f.archives[i].last + d <= Retention - 1 + Interval

IInv ==
    /\ Sane(files)
    /\ running \in BOOLEAN
    /\ due \in Int /\ -Late <= due /\ due <= Interval
    /\ running => Live(files, due)

--------------------------------------------------------------------------------
(* Rotation and pruning.                                                     *)

LEMMA DirIs ==
  ASSUME NEW f \in Dir
  PROVE  f.active \in FileRecord \cup {NoFile} /\ f.archives \in Seq(FileRecord) /\ f.opened \in Nat
BY DEF Dir

\* What _open, _archive and pruning do to the directory.
LEMMA OpenIs ==
  ASSUME NEW f \in Dir
  PROVE  /\ Open(f) \in Dir /\ Open(f).active = Fresh /\ Open(f).archives = f.archives /\ Open(f).opened = 0
<1> DEFINE g == [f EXCEPT !.active = Fresh, !.opened = 0]
<1>1. Fresh \in FileRecord \cup {NoFile}
  BY DEF Fresh, FileRecord
<1> HIDE DEF FileRecord
<1>2. g \in [active : FileRecord \cup {NoFile}, archives : Seq(FileRecord), opened : Nat]
  BY <1>1 DEF Dir
<1>3. g.active = Fresh /\ g.archives = f.archives /\ g.opened = 0
  BY DEF Dir
<1> QED
  BY <1>2, <1>3, Zenon DEF Open, Dir

LEMMA ArchiveIs ==
  ASSUME NEW f \in Dir, f.active # NoFile
  PROVE  /\ Archive(f) \in Dir /\ Archive(f).active = NoFile /\ Archive(f).opened = f.opened
         /\ Archive(f).archives = Append(f.archives, f.active)
<1> DEFINE s == Append(f.archives, f.active)
           g == [f EXCEPT !.archives = s, !.active = NoFile]
<1>1. f.active \in FileRecord /\ f.archives \in Seq(FileRecord)
  BY DirIs
<1>2. s \in Seq(FileRecord)
  BY <1>1
<1> HIDE DEF s
<1>3. g \in [active : FileRecord \cup {NoFile}, archives : Seq(FileRecord), opened : Nat]
  BY <1>2 DEF Dir
<1>4. g.active = NoFile /\ g.archives = s /\ g.opened = f.opened
  BY DEF Dir
<1>5. Archive(f) = g
  BY Zenon DEF Archive, s
<1> QED
  BY <1>3, <1>4, <1>5, Zenon DEF Dir, s

\* the directory when n archives have been looked at
Trimmed(f, n) == [f EXCEPT !.archives = Pruned(@, n)]

LEMMA TrimmedIs ==
  ASSUME NEW f \in Dir, Ordered(f.archives), NEW n \in 0..Len(f.archives)
  PROVE  /\ Trimmed(f, n) \in Dir /\ Trimmed(f, n).active = f.active /\ Trimmed(f, n).opened = f.opened
         /\ Trimmed(f, n).archives = Pruned(f.archives, n)
<1> DEFINE s == Pruned(f.archives, n)
           g == [f EXCEPT !.archives = s]
<1>1. s \in Seq(FileRecord)
  BY DirIs, PrunedIs
<1> HIDE DEF s
<1>3. g \in [active : FileRecord \cup {NoFile}, archives : Seq(FileRecord), opened : Nat]
  BY <1>1 DEF Dir
<1>4. g.active = f.active /\ g.archives = s /\ g.opened = f.opened
  BY DEF Dir
<1>5. Trimmed(f, n) = g
  BY Zenon DEF Trimmed, s
<1> QED
  BY <1>3, <1>4, <1>5, Zenon DEF Dir, s

\* the archive i of f is worth keeping; WorthIn(files, i) is Worth(i)
WorthIn(f, i) ==
    LET a == f.archives[i]
        newer == SubSeq(f.archives, i, Len(f.archives))
    IN  /\ a.last < Retention /\ a.size > 0
        /\ Total(newer) + f.active.size <= Budget
        /\ Len(newer) < MaxSegments

Holds(g, a) == \E x \in 1..Len(g.archives) : g.archives[x] = a

SparesWorth(f, g) == \A i \in 1..Len(f.archives) : WorthIn(f, i) => Holds(g, f.archives[i])

\* the active file of f is an archive of g, unless it may go
SparesActive(f, g) ==
    f.active.size \in 1..Budget /\ f.active.last < Retention => Holds(g, f.active)

LEMMA ActiveTyped ==
  ASSUME NEW f, Sane(f)
  PROVE  /\ f \in Dir /\ f.archives \in Seq(FileRecord) /\ f.opened \in Nat
         /\ f.active.size \in Nat /\ (f.active # NoFile => f.active \in FileRecord)
<1>1. f \in Dir
  BY DEF Sane
<1>2. f.active \in FileRecord \cup {NoFile} /\ f.archives \in Seq(FileRecord) /\ f.opened \in Nat
  BY <1>1, DirIs
<1>3. NoFile.size = 0
  BY DEF NoFile
<1> QED
  BY <1>1, <1>2, <1>3 DEF FileRecord

\* What there is of the sizes from archive i on.
LEMMA WorthIs ==
  ASSUME NEW f, Sane(f), NEW i \in 1..Len(f.archives), WorthIn(f, i)
  PROVE  /\ f.archives[i].last < Retention /\ f.archives[i].size \in 1..MaxFile
         /\ Total(f.archives) - Sums(f.archives)[i - 1] + f.active.size <= Budget
         /\ Len(f.archives) - i + 1 < MaxSegments
<1> DEFINE s == f.archives
           n == i - 1
<1>1. s \in Seq(FileRecord) /\ f.active.size \in Nat
  BY ActiveTyped
<1>2. Len(s) \in Nat /\ n \in 0..Len(s) /\ n + 1 = i /\ s[i] \in FileRecord
  BY <1>1
<1>3. Total(SubSeq(s, n + 1, Len(s))) = Total(s) - Sums(s)[n]
  BY <1>1, <1>2, TotalOfRest
<1>4. Len(SubSeq(s, i, Len(s))) = Len(s) - i + 1
  BY <1>1, <1>2
<1>5. s[i].last < Retention /\ s[i].size > 0 /\ Total(SubSeq(s, i, Len(s))) + f.active.size <= Budget
      /\ Len(SubSeq(s, i, Len(s))) < MaxSegments
  BY Zenon DEF WorthIn
<1>6. s[i].size \in Nat /\ s[i].size <= MaxFile /\ MaxFile \in Nat
  BY <1>2, LimitAssumption DEF Sane, Sound, FileRecord
<1>7. s[i].size \in 1..MaxFile
  BY <1>5, <1>6
<1>8. Total(s) - Sums(s)[n] + f.active.size <= Budget
  BY <1>2, <1>3, <1>5
<1>9. Len(s) - i + 1 < MaxSegments
  BY <1>4, <1>5
<1> QED
  BY <1>5, <1>7, <1>8, <1>9

\* Pruning alone.
LEMMA TrimKeeps ==
  ASSUME NEW f, Sane(f), NEW n \in 0..Len(f.archives), NEW g, g = Trimmed(f, n)
  PROVE  Sane(g) /\ SparesWorth(f, g) /\ g.active = f.active /\ g.opened = f.opened
<1> DEFINE s == f.archives
           t == g.archives
<1>1. /\ f \in Dir /\ s \in Seq(FileRecord) /\ Ordered(s) /\ f.active.size \in Nat
  BY ActiveTyped DEF Sane
<1>2. g \in Dir /\ g.active = f.active /\ g.opened = f.opened /\ t = Pruned(s, n)
  BY <1>1, TrimmedIs
<1>3. /\ t \in Seq(FileRecord) /\ Ordered(t)
      /\ \A x \in 1..Len(t) : \E m \in 1..Len(s) : t[x] = s[m]
      /\ Total(t) <= Total(s)
      /\ \A m \in 1..Len(s) : Keepable(s, m) => \E x \in 1..Len(t) : t[x] = s[m]
  BY <1>1, <1>2, PrunedIs, SMTT(30)
<1>4. Total(t) \in Nat /\ Total(s) \in Nat /\ MaxTotal \in Nat
  BY <1>1, <1>3, TotalTyped, LimitAssumption
<1>5. Sane(g)
  <2>1. Sound(g.active)
    BY <1>2 DEF Sane
  <2>2. \A x \in 1..Len(t) : Sound(t[x])
    BY <1>3 DEF Sane
  <2>3. g.active # NoFile => \A x \in 1..Len(t) : t[x].last >= g.active.first
    BY <1>2, <1>3 DEF Sane
  <2>4. Total(s) + f.active.size <= MaxTotal
    BY DEF Sane
  <2>5. Total(t) + g.active.size <= MaxTotal
    BY <1>1, <1>2, <1>3, <1>4, <2>4
  <2> QED
    BY <1>2, <1>3, <2>1, <2>2, <2>3, <2>5 DEF Sane
<1>6. ASSUME NEW i \in 1..Len(s), WorthIn(f, i) PROVE Holds(g, s[i])
  <2>1. /\ s[i].last < Retention /\ s[i].size \in 1..MaxFile
        /\ Total(s) - Sums(s)[i - 1] + f.active.size <= Budget /\ Len(s) - i + 1 < MaxSegments
    BY <1>6, WorthIs
  <2>2. Sums(s)[i - 1] \in Nat /\ Len(s) \in Nat
    BY <1>1, SumsAre
  <2>3. Budget \in Nat /\ MaxSegments \in Nat
    BY LimitAssumption DEF Budget
  <2>4. Total(s) - Sums(s)[i - 1] <= Budget /\ Len(s) - i + 1 <= MaxSegments
    <3> DEFINE had == Total(s)
               before == Sums(s)[i - 1]
               size == f.active.size
    <3>1. had - before + size <= Budget /\ had \in Nat /\ before \in Nat /\ size \in Nat
      BY <1>1, <1>4, <2>1, <2>2
    <3>2. Len(s) - i + 1 <= MaxSegments
      BY <2>1, <2>2, <2>3
    <3> HIDE DEF had, before, size
    <3>3. had - before <= Budget
      BY <2>3, <3>1
    <3> QED
      BY <3>2, <3>3 DEF had, before
  <2>5. Keepable(s, i)
    BY <2>1, <2>4 DEF Keepable
  <2> QED
    BY <1>3, <2>5 DEF Holds
<1> QED
  BY <1>2, <1>5, <1>6 DEF SparesWorth

\* The active file becomes the newest archive.
LEMMA ArchiveKeeps ==
  ASSUME NEW f, Sane(f), f.active # NoFile, NEW g, g = Archive(f)
  PROVE  /\ Sane(g) /\ SparesWorth(f, g) /\ Holds(g, f.active) /\ g.active = NoFile /\ g.opened = f.opened
         /\ \A i \in 1..Len(f.archives) : WorthIn(f, i) =>
              i \in 1..Len(g.archives) /\ Keepable(g.archives, i) /\ g.archives[i] = f.archives[i]
         /\ f.active.size \in 1..Budget /\ f.active.last < Retention =>
              /\ Len(g.archives) \in 1..Len(g.archives)
              /\ Keepable(g.archives, Len(g.archives)) /\ g.archives[Len(g.archives)] = f.active
<1> DEFINE s == f.archives
           a == f.active
           t == g.archives
           N == Len(s)
<1>1. f \in Dir /\ s \in Seq(FileRecord) /\ a \in FileRecord /\ a.size \in Nat /\ a.first \in Nat /\ a.last \in Nat
  BY ActiveTyped DEF FileRecord
<1>2. g \in Dir /\ g.active = NoFile /\ g.opened = f.opened /\ t = Append(s, a)
  BY <1>1, ArchiveIs
<1>3. /\ t \in Seq(FileRecord) /\ Len(t) = N + 1 /\ N \in Nat /\ t[N + 1] = a
      /\ \A i \in 1..N : t[i] = s[i]
  BY <1>1, <1>2, AppendIs
<1>4. Total(t) = Total(s) + a.size /\ Total(s) \in Nat /\ \A i \in 0..N : Sums(t)[i] = Sums(s)[i]
  BY <1>1, <1>2, TotalAppend
<1> HIDE DEF s, a, t, N
<1>5. \A x \in 1..Len(t) : x \in 1..N \/ x = N + 1
  BY <1>3
<1>6. /\ Sound(a) /\ Ordered(s) /\ Total(s) + a.size <= MaxTotal
      /\ \A i \in 1..N : Sound(s[i]) /\ s[i].last >= a.first
  BY DEF Sane, s, a, N
<1>7. Sane(g)
  <2>1. Sound(g.active)
    BY <1>2, LimitAssumption DEF Sound, NoFile
  <2>2. \A x \in 1..Len(t) : Sound(t[x])
    BY <1>3, <1>5, <1>6
  <2>3. Ordered(t)
    <3>1. SUFFICES ASSUME NEW x \in 1..Len(t), NEW y \in 1..Len(t), x < y PROVE t[x].last >= t[y].first
      BY DEF Ordered
    <3>2. x \in 1..N /\ t[x] = s[x]
      BY <1>3, <3>1
    <3>3. CASE y = N + 1
      BY <1>3, <1>6, <3>2, <3>3
    <3>4. CASE y \in 1..N
      BY <1>3, <1>6, <3>1, <3>2, <3>4 DEF Ordered, N
    <3> QED
      BY <1>5, <3>3, <3>4
  <2>4. Total(t) + g.active.size <= MaxTotal
    <3>1. g.active.size = 0
      BY <1>2 DEF NoFile
    <3> QED
      BY <1>1, <1>4, <1>6, <3>1
  <2> QED
    BY <1>2, <2>1, <2>2, <2>3, <2>4 DEF Sane, t
<1>8. Holds(g, a)
  <2>1. N + 1 \in 1..Len(t)
    BY <1>3
  <2> QED
    BY <1>3, <2>1 DEF Holds, t
<1>9. ASSUME NEW i \in 1..N, WorthIn(f, i)
      PROVE  i \in 1..Len(t) /\ Keepable(t, i) /\ t[i] = s[i]
  <2>1. /\ s[i].last < Retention /\ s[i].size \in 1..MaxFile
        /\ Total(s) - Sums(s)[i - 1] + a.size <= Budget /\ N - i + 1 < MaxSegments
    BY <1>9, WorthIs DEF s, a, N
  <2>2. i - 1 \in 0..N /\ i \in 1..Len(t)
    BY <1>3
  <2>3. Sums(s)[i - 1] \in Nat
    BY <1>1, <2>2, SumsAre DEF N
  <2>4. Total(t) - Sums(t)[i - 1] <= Budget
    <3> DEFINE had == Total(s)
               before == Sums(s)[i - 1]
               size == a.size
               has == Total(t)
               after == Sums(t)[i - 1]
    <3>1. had - before + size <= Budget /\ had \in Nat /\ before \in Nat /\ size \in Nat
      BY <1>1, <1>4, <2>1, <2>3
    <3>2. has = had + size /\ after = before
      BY <1>4, <2>2
    <3>3. Budget \in Nat
      BY LimitAssumption DEF Budget
    <3> HIDE DEF had, before, size, has, after
    <3>4. has - after <= Budget
      BY <3>1, <3>2, <3>3
    <3> QED
      BY <3>4 DEF has, after
  <2>5. Len(t) - i + 1 <= MaxSegments
    BY <1>3, <2>1, LimitAssumption
  <2>6. Keepable(t, i)
    BY <1>3, <2>1, <2>4, <2>5 DEF Keepable
  <2> QED
    BY <1>3, <2>2, <2>6
<1>10. ASSUME a.size \in 1..Budget, a.last < Retention
       PROVE  Len(t) \in 1..Len(t) /\ Keepable(t, Len(t)) /\ t[Len(t)] = a
  <2>1. Len(t) \in 1..Len(t) /\ t[Len(t)] = a /\ Len(t) - 1 = N /\ N \in 0..N
    BY <1>3
  <2>2. a.size \in 1..MaxFile
    BY <1>1, <1>6, <1>10, LimitAssumption DEF Sound
  <2>3. Sums(t)[Len(t) - 1] = Total(s)
    BY <1>1, <1>4, <2>1, SumsAre DEF N
  <2>4. Total(t) - Sums(t)[Len(t) - 1] <= Budget
    <3> DEFINE before == Sums(t)[Len(t) - 1]
    <3>1. before = Total(s)
      BY <2>3
    <3>2. a.size <= Budget /\ Budget \in Nat
      BY <1>10, LimitAssumption DEF Budget
    <3> HIDE DEF before
    <3>3. Total(t) - before <= Budget
      BY <1>1, <1>4, <3>1, <3>2
    <3> QED
      BY <3>3 DEF before
  <2>5. Len(t) - Len(t) + 1 <= MaxSegments
    BY <1>3, LimitAssumption
  <2> QED
    BY <1>10, <2>1, <2>2, <2>4, <2>5 DEF Keepable
<1>11. SparesWorth(f, g)
  BY <1>9, Zenon DEF SparesWorth, Holds, s, t, N
<1> QED
  BY <1>2, <1>7, <1>8, <1>9, <1>10, <1>11, Zenon DEF s, a, t, N

\* A new active file ...
LEMMA OpenKeeps ==
  ASSUME NEW f, Sane(f), f.active = NoFile, NEW g, g = Open(f)
  PROVE  /\ Sane(g) /\ g.archives = f.archives /\ g.active = Fresh /\ g.opened = 0
         /\ g.active # NoFile /\ g.active.size = 0 /\ g.active.first = 0 /\ f.active.size = 0
<1>1. f \in Dir /\ f.archives \in Seq(FileRecord)
  BY ActiveTyped
<1>2. g \in Dir /\ g.active = Fresh /\ g.archives = f.archives /\ g.opened = 0
  BY <1>1, OpenIs
<1>3. Fresh.size = 0 /\ Fresh.first = 0 /\ NoFile.size = 0 /\ Fresh # NoFile
  <2>1. Fresh.first = 0 /\ NoFile.first = -1 /\ Fresh.size = 0 /\ NoFile.size = 0
    BY DEF Fresh, NoFile
  <2> QED
    BY <2>1
<1>4. Sound(g.active)
  BY <1>2, <1>3, LimitAssumption DEF Sound
<1>5. \A i \in 1..Len(f.archives) : f.archives[i].last >= 0
  <2>1. \A i \in 1..Len(f.archives) : f.archives[i] \in FileRecord
    BY <1>1
  <2> QED
    BY <2>1 DEF FileRecord
<1>6. Sane(g)
  BY <1>2, <1>3, <1>4, <1>5 DEF Sane
<1> QED
  BY <1>2, <1>3, <1>6

\* ... and the archives pruned after the rotation, all or some.
LEMMA RotateKeeps ==
  ASSUME NEW f, Sane(f), f.active # NoFile, NEW n \in 0..Len(Open(Archive(f)).archives),
         NEW g, g = Trimmed(Open(Archive(f)), n)
  PROVE  /\ Sane(g) /\ SparesWorth(f, g) /\ SparesActive(f, g) /\ g.active = Fresh /\ g.opened = 0
         /\ g.active # NoFile
<1> DEFINE h == Archive(f)
           o == Open(h)
<1>1. /\ Sane(h) /\ h.active = NoFile
      /\ \A i \in 1..Len(f.archives) : WorthIn(f, i) =>
           i \in 1..Len(h.archives) /\ Keepable(h.archives, i) /\ h.archives[i] = f.archives[i]
      /\ f.active.size \in 1..Budget /\ f.active.last < Retention =>
           /\ Len(h.archives) \in 1..Len(h.archives)
           /\ Keepable(h.archives, Len(h.archives)) /\ h.archives[Len(h.archives)] = f.active
  BY ArchiveKeeps
<1> HIDE DEF h
<1>2. Sane(o) /\ o.archives = h.archives /\ o.active = Fresh /\ o.opened = 0 /\ o.active # NoFile
  BY <1>1, OpenKeeps
<1>3. n \in 0..Len(o.archives) /\ g = Trimmed(o, n)
  BY DEF h
<1> HIDE DEF o
<1>4. Sane(g) /\ g.active = o.active /\ g.opened = o.opened
  BY <1>2, <1>3, TrimKeeps
<1>5. o \in Dir /\ o.archives \in Seq(FileRecord) /\ Ordered(o.archives)
  BY <1>2, ActiveTyped DEF Sane
<1>6. g.archives = Pruned(o.archives, n)
  BY <1>3, <1>5, TrimmedIs
<1>7. \A m \in 1..Len(h.archives) : Keepable(h.archives, m) => Holds(g, h.archives[m])
  <2>1. \A m \in 1..Len(o.archives) :
          Keepable(o.archives, m) => \E x \in 1..Len(g.archives) : g.archives[x] = o.archives[m]
    BY <1>3, <1>5, <1>6, PrunedIs
  <2>2. ASSUME NEW m \in 1..Len(h.archives), Keepable(h.archives, m) PROVE Holds(g, h.archives[m])
    <3>1. m \in 1..Len(o.archives) /\ Keepable(o.archives, m) /\ o.archives[m] = h.archives[m]
      BY <1>2, <2>2
    <3> QED
      BY <2>1, <3>1 DEF Holds
  <2> QED
    BY <2>2
<1>8. SparesWorth(f, g)
  BY <1>1, <1>7, Zenon DEF SparesWorth
<1>9. SparesActive(f, g)
  BY <1>1, <1>7, Zenon DEF SparesActive
<1> QED
  BY <1>2, <1>4, <1>8, <1>9

--------------------------------------------------------------------------------
(* Checks, the start and writes.                                             *)

\* What the limits are.
LEMMA LimitFacts ==
  /\ RotateAfter \in Nat \ {0} /\ Interval \in Nat \ {0} /\ Retention \in Nat \ {0} /\ Late \in Nat
  /\ Budget \in Nat /\ MaxFile \in Nat \ {0} /\ MaxTotal = Budget + MaxFile /\ MaxSegments \in Nat \ {0}
  /\ MaxAge \in Nat /\ Span = RotateAfter - 1 + Interval + Late /\ RotateAfter <= Retention
BY LimitAssumption, BoundAssumption DEF RotateAfter, Budget, Span

LEMMA PruneIs ==
  ASSUME NEW f
  PROVE  Prune(f) = Trimmed(f, Len(f.archives))
BY Zenon DEF Prune, Trimmed

\* Pruning makes the archives fit and young.
LEMMA PruneKeeps ==
  ASSUME NEW f, Sane(f), f.active # NoFile, f.active.first <= f.opened, f.opened < RotateAfter,
         NEW d \in Int, d <= Interval, NEW g, g = Prune(f)
  PROVE  Sane(g) /\ Live(g, d) /\ SparesWorth(f, g) /\ g.active = f.active
<1>1. /\ f \in Dir /\ f.archives \in Seq(FileRecord) /\ f.opened \in Nat /\ f.active \in FileRecord
  BY ActiveTyped
<1>2. Len(f.archives) \in 0..Len(f.archives) /\ Ordered(f.archives)
  BY <1>1 DEF Sane
<1>3. g = Trimmed(f, Len(f.archives))
  BY PruneIs
<1>4. Sane(g) /\ SparesWorth(f, g) /\ g.active = f.active /\ g.opened = f.opened
  BY <1>2, <1>3, TrimKeeps
<1>5. g.archives = Pruned(f.archives, Len(f.archives))
  BY <1>1, <1>2, <1>3, TrimmedIs
<1>6. Total(g.archives) <= Budget /\ Len(g.archives) <= MaxSegments
  BY <1>1, <1>2, <1>5, PrunedFits
<1>7. ASSUME NEW i \in 1..Len(g.archives) PROVE g.archives[i].last + d <= Retention - 1 + Interval
  <2>1. g.archives[i].last < Retention
    BY <1>1, <1>2, <1>5, PrunedFits
  <2>2. g.archives[i] \in FileRecord
    <3>1. g.archives \in Seq(FileRecord)
      BY <1>4, ActiveTyped
    <3> QED
      BY <3>1
  <2>3. g.archives[i].last \in Nat
    BY <2>2 DEF FileRecord
  <2> DEFINE age == g.archives[i].last
  <2> HIDE DEF age
  <2>4. age + d <= Retention - 1 + Interval
    BY <2>1, <2>3, LimitFacts DEF age
  <2> QED
    BY <2>4 DEF age
<1>8. f.opened + d <= RotateAfter - 1 + Interval
  BY <1>1, LimitFacts
<1>9. Live(g, d)
  BY <1>4, <1>6, <1>7, <1>8 DEF Live
<1> QED
  BY <1>4, <1>9

\* A rotation and the pruning after it.
LEMMA RenewKeeps ==
  ASSUME NEW f, Sane(f), f.active # NoFile, NEW d \in Int, d <= Interval,
         NEW g, g = Prune(Open(Archive(f)))
  PROVE  Sane(g) /\ Live(g, d) /\ SparesWorth(f, g) /\ SparesActive(f, g) /\ g.active = Fresh
<1> DEFINE h == Archive(f)
           o == Open(h)
<1>1. Sane(h) /\ h.active = NoFile
  BY ArchiveKeeps
<1>2. Sane(o) /\ o.active = Fresh /\ o.opened = 0 /\ o.active # NoFile /\ o.active.first = 0
  BY <1>1, OpenKeeps
<1>3. o.opened < RotateAfter /\ o.active.first <= o.opened
  BY <1>2, LimitFacts
<1>4. Len(o.archives) \in 0..Len(o.archives)
  <2>1. o.archives \in Seq(FileRecord)
    BY <1>2, ActiveTyped
  <2> QED
    BY <2>1
<1>5. g = Trimmed(o, Len(o.archives))
  BY PruneIs
<1>6. Sane(g) /\ SparesWorth(f, g) /\ SparesActive(f, g) /\ g.active = Fresh
  BY <1>4, <1>5, RotateKeeps
<1> HIDE DEF o
<1>7. g = Prune(o)
  BY DEF o
<1>8. Live(g, d)
  BY <1>2, <1>3, <1>7, PruneKeeps
<1> QED
  BY <1>6, <1>8

\* A check rotates the file if it is old.
LEMMA RotatedIs ==
  ASSUME NEW f
  PROVE  /\ f.opened >= RotateAfter => Maintain(f) = Prune(Open(Archive(f)))
         /\ ~(f.opened >= RotateAfter) => Maintain(f) = Prune(f)
BY Zenon DEF Maintain, Rotated

\* A periodic check.
LEMMA MaintainKeeps ==
  ASSUME NEW f, Sane(f), f.active # NoFile, f.active.first <= f.opened,
         NEW d \in Int, d <= Interval, NEW g, g = Maintain(f)
  PROVE  /\ Sane(g) /\ Live(g, d) /\ SparesWorth(f, g)
         /\ g.active = f.active \/ SparesActive(f, g)
<1>1. CASE f.opened >= RotateAfter
  BY <1>1, RotatedIs, RenewKeeps
<1>2. CASE ~(f.opened >= RotateAfter)
  <2>1. f.opened < RotateAfter
    BY <1>2, ActiveTyped, LimitFacts
  <2> QED
    BY <1>2, <2>1, RotatedIs, PruneKeeps
<1> QED
  BY <1>1, <1>2

\* A file that was opened just now is not rotated by the check after it.
LEMMA RenewedIs ==
  ASSUME NEW f, Sane(f), f.active = NoFile
  PROVE  Maintain(Open(f)) = Prune(Open(f))
<1>1. Open(f).opened = 0
  BY OpenKeeps
<1>2. ~(Open(f).opened >= RotateAfter)
  BY <1>1, LimitFacts
<1> QED
  BY <1>2, RotatedIs

\* Worth depends on the archives and on the size of the active file.
LEMMA SameWorth ==
  ASSUME NEW f, NEW h, h.archives = f.archives, h.active.size = f.active.size, NEW g, SparesWorth(h, g)
  PROVE  SparesWorth(f, g)
<1>1. \A i : WorthIn(f, i) => WorthIn(h, i)
  BY DEF WorthIn
<1> QED
  BY <1>1 DEF SparesWorth

\* The start of the capture process on what an earlier one has left.
LEMMA EnterKeeps ==
  ASSUME NEW f, Sane(f), NEW g, g = Enter(f)
  PROVE  Sane(g) /\ Live(g, Interval) /\ SparesWorth(f, g) /\ SparesActive(f, g)
<1>1. Interval \in Int /\ Interval <= Interval
  BY LimitFacts
<1>2. CASE f.active = NoFile
  <2> DEFINE o == Open(f)
  <2>1. /\ Sane(o) /\ o.archives = f.archives /\ o.active = Fresh /\ o.opened = 0
        /\ o.active # NoFile /\ o.active.size = 0 /\ o.active.first = 0 /\ f.active.size = 0
    BY <1>2, OpenKeeps
  <2>2. g = Prune(o)
    BY <1>2, RenewedIs DEF Enter
  <2> HIDE DEF o
  <2>3. o.active.first <= o.opened /\ o.opened < RotateAfter
    BY <2>1, LimitFacts
  <2>4. Sane(g) /\ Live(g, Interval) /\ SparesWorth(o, g)
    BY <1>1, <2>1, <2>2, <2>3, PruneKeeps
  <2>5. SparesWorth(f, g)
    BY <2>1, <2>4, SameWorth
  <2>6. SparesActive(f, g)
    BY <2>1, LimitFacts DEF SparesActive
  <2> QED
    BY <2>4, <2>5, <2>6
<1>3. CASE f.active # NoFile
  <2>1. Sane(Archive(f)) /\ Archive(f).active = NoFile
    BY <1>3, ArchiveKeeps
  <2>2. Maintain(Open(Archive(f))) = Prune(Open(Archive(f)))
    BY <2>1, RenewedIs
  <2>3. g = Prune(Open(Archive(f)))
    BY <1>3, <2>2 DEF Enter
  <2> QED
    BY <1>1, <1>3, <2>3, RenewKeeps
<1> QED
  BY <1>2, <1>3

\* A write into a file that is not full.
Written(f) ==
    [f EXCEPT !.active.size = @ + 1,
              !.active.first = IF f.active.size = 0 THEN 0 ELSE @,
              !.active.last = 0]

\* What a write changes ...
LEMMA WrittenIs ==
  ASSUME NEW f \in Dir, f.active \in FileRecord
  PROVE  /\ Written(f) \in Dir /\ Written(f).archives = f.archives /\ Written(f).opened = f.opened
         /\ Written(f).active \in FileRecord
         /\ Written(f).active.size = f.active.size + 1 /\ Written(f).active.last = 0
         /\ Written(f).active.first = IF f.active.size = 0 THEN 0 ELSE f.active.first
<1> DEFINE a == f.active
           n == a.size + 1
           m == IF a.size = 0 THEN 0 ELSE a.first
           b == [size |-> n, first |-> m, last |-> 0]
           g == Written(f)
<1>1. n \in Nat /\ m \in Nat
  BY DEF FileRecord
<1>2. b \in FileRecord /\ b.size = n /\ b.first = m /\ b.last = 0
  <2> HIDE DEF n, m
  <2> QED
    BY <1>1 DEF FileRecord
<1>3. [a EXCEPT !.size = n, !.first = m, !.last = 0] = b
  <2> DEFINE e == [a EXCEPT !.size = n, !.first = m, !.last = 0]
  <2> HIDE DEF n, m
  <2>1. e \in [size : Nat, first : Nat, last : Nat] /\ e.size = n /\ e.first = m /\ e.last = 0
    BY <1>1 DEF FileRecord
  <2> HIDE DEF e
  <2>2. e = [size |-> n, first |-> m, last |-> 0]
    BY <2>1
  <2> QED
    BY <2>2 DEF e
<1>4. g = [f EXCEPT !.active = [a EXCEPT !.size = n, !.first = m, !.last = 0]]
  BY DEF Written, Dir, FileRecord
<1>5. g = [f EXCEPT !.active = b]
  BY <1>3, <1>4
<1> HIDE DEF b
<1>6. g \in [active : FileRecord \cup {NoFile}, archives : Seq(FileRecord), opened : Nat]
  BY <1>2, <1>5 DEF Dir
<1>7. g.active = b /\ g.archives = f.archives /\ g.opened = f.opened
  BY <1>2, <1>5 DEF Dir
<1> QED
  BY <1>2, <1>6, <1>7, Zenon DEF Dir

--------------------------------------------------------------------------------
(* Writes and the passing of time.                                           *)

\* ... and what it keeps: a file that was opened in time is closed in time.
LEMMA WrittenKeeps ==
  ASSUME NEW f, Sane(f), NEW d \in Int, -Late <= d, Live(f, d), f.active.size < MaxFile,
         NEW g, g = Written(f)
  PROVE  Sane(g) /\ Live(g, d) /\ g.archives = f.archives
         /\ g.active.size = f.active.size + 1
         /\ (f.active.size > 0 => g.active.first = f.active.first)
<1> DEFINE a == f.active
           b == g.active
           s == f.archives
           size == a.size
           first == a.first
           total == Total(s)
<1>1. /\ f \in Dir /\ s \in Seq(FileRecord) /\ a \in FileRecord /\ f.opened \in Nat /\ a # NoFile
  BY ActiveTyped DEF Live
<1>2. /\ g \in Dir /\ g.archives = s /\ g.opened = f.opened /\ b \in FileRecord
      /\ b.size = size + 1 /\ b.last = 0 /\ b.first = IF size = 0 THEN 0 ELSE first
  BY <1>1, WrittenIs
<1>3. size \in Nat /\ first \in Nat /\ b.first \in Nat /\ total \in Nat
  BY <1>1, <1>2, TotalTyped DEF FileRecord
<1>4. /\ total <= Budget /\ first <= f.opened /\ f.opened + d <= RotateAfter - 1 + Interval
      /\ size < MaxFile
  BY DEF Live
<1>5. b # NoFile
  <2>1. b.first # -1
    BY <1>3
  <2> QED
    BY <2>1 DEF NoFile
<1>6. \A i \in 1..Len(s) : s[i] \in FileRecord /\ s[i].last >= first
  BY <1>1 DEF Sane
<1> HIDE DEF a, b, s, size, first, total
<1>7. Sound(b)
  <2>1. first <= Span
    BY <1>1, <1>3, <1>4, LimitFacts
  <2>2. b.first <= 0 + Span
    BY <1>2, <1>3, <2>1, LimitFacts
  <2>3. b.size <= MaxFile
    BY <1>2, <1>3, <1>4, LimitFacts
  <2> QED
    BY <1>2, <2>2, <2>3 DEF Sound
<1>8. \A i \in 1..Len(s) : s[i].last >= b.first
  <2>1. \A i \in 1..Len(s) : s[i].last \in Nat
    BY <1>6 DEF FileRecord
  <2> QED
    BY <1>2, <1>3, <1>6, <2>1
<1>9. total + b.size <= MaxTotal
  BY <1>2, <1>3, <1>4, LimitFacts
<1>10. Sane(g)
  BY <1>2, <1>7, <1>8, <1>9 DEF Sane, a, b, s, total
<1>11. b.first <= g.opened
  BY <1>1, <1>2, <1>3, <1>4
<1>12. Live(g, d)
  BY <1>2, <1>5, <1>11 DEF Live, b, s
<1>13. size > 0 => b.first = first
  BY <1>2, <1>3
<1> QED
  BY <1>2, <1>10, <1>12, <1>13 DEF a, b, s, size, first

\* A full file makes room before the next bytes.
LEMMA MakeRoomKeeps ==
  ASSUME NEW f, Sane(f), NEW d \in Int, d <= Interval, Live(f, d), NEW g, g = MakeRoom(f)
  PROVE  /\ Sane(g) /\ Live(g, d) /\ SparesWorth(f, g) /\ g.active.size < MaxFile
         /\ g = f \/ SparesActive(f, g)
<1>1. f.active # NoFile
  BY DEF Live
<1>2. f.active.size \in Nat
  BY ActiveTyped
<1>3. CASE f.active.size >= MaxFile
  <2>1. Sane(Archive(f)) /\ Archive(f).active = NoFile
    BY <1>1, ArchiveKeeps
  <2>2. g = Prune(Open(Archive(f)))
    BY <1>3, <2>1, RenewedIs DEF MakeRoom
  <2>3. Sane(g) /\ Live(g, d) /\ SparesWorth(f, g) /\ SparesActive(f, g) /\ g.active = Fresh
    BY <1>1, <2>2, RenewKeeps
  <2>4. g.active.size < MaxFile
    BY <2>3, LimitFacts DEF Fresh
  <2> QED
    BY <2>3, <2>4
<1>4. CASE ~(f.active.size >= MaxFile)
  <2>1. g = f
    BY <1>4, Zenon DEF MakeRoom
  <2>2. g.active.size < MaxFile
    BY <1>2, <1>4, <2>1, LimitFacts
  <2>3. SparesWorth(f, f)
    BY Zenon DEF SparesWorth, Holds
  <2> QED
    BY <2>1, <2>2, <2>3
<1> QED
  BY <1>3, <1>4

\* Time passes: the files keep their sizes.
LEMMA OlderIs ==
  ASSUME NEW x \in Nat
  PROVE  Older(x) \in Nat /\ x <= Older(x) /\ Older(x) <= x + 1 /\ (x < MaxAge => Older(x) = x + 1)
         /\ (x >= MaxAge => Older(x) = x)
BY LimitFacts DEF Older

\* Ages keep their order and their distance, also at the bound of ages.
LEMMA OlderOrder ==
  ASSUME NEW x \in Nat, NEW y \in Nat, x <= y
  PROVE  Older(x) <= Older(y)
BY LimitFacts DEF Older

LEMMA OlderSpan ==
  ASSUME NEW x \in Nat, NEW y \in Nat, NEW n \in Nat, x <= y + n
  PROVE  Older(x) <= Older(y) + n
BY LimitFacts DEF Older

LEMMA OlderFileIs ==
  ASSUME NEW a \in FileRecord
  PROVE  /\ OlderFile(a) \in FileRecord /\ OlderFile(a).size = a.size
         /\ OlderFile(a).first = Older(a.first) /\ OlderFile(a).last = Older(a.last)
         /\ (Sound(a) => Sound(OlderFile(a)))
<1>1. a.size \in Nat /\ a.first \in Nat /\ a.last \in Nat
  BY DEF FileRecord
<1> DEFINE f == Older(a.first)
           l == Older(a.last)
           e == [a EXCEPT !.first = f, !.last = l]
<1>2. f \in Nat /\ l \in Nat
  BY <1>1, OlderIs
<1>3. OlderFile(a) = e
  BY Zenon DEF OlderFile
<1> HIDE DEF f, l
<1>4. e \in FileRecord /\ e.size = a.size /\ e.first = f /\ e.last = l
  BY <1>2 DEF FileRecord
<1> HIDE DEF e
<1>5. ASSUME Sound(a) PROVE Sound(e)
  <2>1. a.size <= MaxFile /\ (a.size > 0 => a.first <= a.last + Span)
    BY <1>5 DEF Sound
  <2>2. Span \in Nat
    BY LimitFacts
  <2>3. a.first <= a.last + Span => f <= l + Span
    BY <1>1, <2>2, OlderSpan DEF f, l
  <2> QED
    BY <1>4, <2>1, <2>3 DEF Sound
<1> QED
  BY <1>3, <1>4, <1>5 DEF f, l

\* Logs with the same sizes take the same.
LEMMA SameSizes ==
  ASSUME NEW s \in Seq(FileRecord), NEW t \in Seq(FileRecord), Len(s) = Len(t), \A i \in 1..Len(s) : s[i].size = t[i].size
  PROVE  Total(s) = Total(t)
<1> DEFINE N == Len(s)
           T == {i \in 0..N : Sums(s)[i] = Sums(t)[i]}
<1>1. N \in Nat /\ N \in 0..N
  OBVIOUS
<1>2. 0 \in T
  BY <1>1, SumsAre
<1>3. ASSUME NEW i \in 1..N, i - 1 \in T PROVE i \in T
  <2>1. Sums(s)[i] = Sums(s)[i - 1] + s[i].size /\ Sums(t)[i] = Sums(t)[i - 1] + t[i].size
    BY SumsAre
  <2>2. Sums(s)[i - 1] = Sums(t)[i - 1] /\ s[i].size = t[i].size
    BY <1>3
  <2>3. Sums(s)[i] = Sums(t)[i] /\ i \in 0..N
    BY <1>1, <2>1, <2>2
  <2> QED
    BY <2>3
<1> HIDE DEF T
<1>4. N \in T
  BY <1>1, <1>2, <1>3, UpTo
<1>5. Sums(s)[N] = Sums(t)[N]
  BY <1>4 DEF T
<1> QED
  BY <1>5, SumsAre

\* the directory one unit of time later
Aged(f) ==
    [active |-> IF f.active = NoFile THEN NoFile ELSE OlderFile(f.active),
     archives |-> [i \in DOMAIN f.archives |-> OlderFile(f.archives[i])],
     opened |-> Older(f.opened)]

\* The invariant moves with time: what grows older is nearer to its check.
LEMMA AgedKeeps ==
  ASSUME NEW f, Sane(f), NEW g, g = Aged(f)
  PROVE  /\ Sane(g) /\ (g.active = NoFile <=> f.active = NoFile)
         /\ \A d \in Int : Live(f, d) => Live(g, d - 1)
<1> DEFINE s == f.archives
           t == [i \in 1..Len(s) |-> OlderFile(s[i])]
           N == Len(s)
           b == IF f.active = NoFile THEN NoFile ELSE OlderFile(f.active)
<1>1. /\ f \in Dir /\ s \in Seq(FileRecord) /\ f.opened \in Nat /\ f.active.size \in Nat
      /\ (f.active # NoFile => f.active \in FileRecord)
  BY ActiveTyped
<1>2. N \in Nat /\ DOMAIN s = 1..N /\ \A i \in 1..N : s[i] \in FileRecord
  BY <1>1
<1>3. g.active = b /\ g.archives = t /\ g.opened = Older(f.opened)
  BY <1>2 DEF Aged
<1>4. \A i \in 1..N : OlderFile(s[i]) \in FileRecord
  BY <1>2, OlderFileIs
<1>5. t \in Seq(FileRecord) /\ Len(t) = N /\ \A i \in 1..N : t[i] = OlderFile(s[i])
  BY <1>2, <1>4
<1>6. \A i \in 1..N : /\ t[i].size = s[i].size /\ t[i].first = Older(s[i].first) /\ t[i].last = Older(s[i].last)
                      /\ (Sound(s[i]) => Sound(t[i]))
  BY <1>2, <1>5, OlderFileIs
<1>7. \A i \in 1..N : s[i].first \in Nat /\ s[i].last \in Nat
  BY <1>2 DEF FileRecord
<1> HIDE DEF s, t, N
<1>8. Total(t) = Total(s)
  BY <1>1, <1>5, <1>6, SameSizes DEF N
<1>9. ASSUME f.active # NoFile
      PROVE  /\ b \in FileRecord /\ b.size = f.active.size /\ b.first = Older(f.active.first)
             /\ b # NoFile /\ Sound(b) /\ f.active.first \in Nat
  <2>1. f.active \in FileRecord /\ b = OlderFile(f.active) /\ Sound(f.active)
    BY <1>1, <1>9 DEF Sane
  <2>2. b \in FileRecord /\ b.size = f.active.size /\ b.first = Older(f.active.first) /\ Sound(b)
    BY <2>1, OlderFileIs
  <2>3. f.active.first \in Nat /\ b.first \in Nat
    BY <2>1, <2>2 DEF FileRecord
  <2>4. b # NoFile
    <3>1. NoFile.first = -1
      BY DEF NoFile
    <3> QED
      BY <2>3, <3>1
  <2> QED
    BY <2>2, <2>3, <2>4
<1>10. ASSUME f.active = NoFile PROVE b = NoFile /\ b.size = f.active.size /\ Sound(b)
  BY <1>10 DEF Sane
<1> HIDE DEF b
<1>11. g \in Dir
  <2>1. b \in FileRecord \cup {NoFile}
    BY <1>9, <1>10
  <2>2. Older(f.opened) \in Nat
    BY <1>1, OlderIs
  <2>3. g = [active |-> b, archives |-> t, opened |-> Older(f.opened)]
    BY <1>2, Zenon DEF Aged, b, s, t, N
  <2> QED
    BY <1>5, <2>1, <2>2, <2>3 DEF Dir
<1>12. Ordered(t)
  <2>1. SUFFICES ASSUME NEW i \in 1..N, NEW j \in 1..N, i < j PROVE t[i].last >= t[j].first
    BY <1>5 DEF Ordered
  <2>2. s[i].last >= s[j].first
    BY <2>1 DEF Sane, Ordered, s, N
  <2>3. Older(s[j].first) <= Older(s[i].last)
    BY <1>7, <2>2, OlderOrder
  <2>4. Older(s[j].first) \in Nat /\ Older(s[i].last) \in Nat
    BY <1>7, OlderIs
  <2> QED
    BY <1>6, <2>3, <2>4
<1>13. ASSUME b # NoFile, NEW i \in 1..N PROVE t[i].last >= b.first
  <2>1. f.active # NoFile
    BY <1>10, <1>13
  <2>2. s[i].last >= f.active.first
    BY <2>1 DEF Sane, s, N
  <2>3. f.active.first \in Nat /\ b.first = Older(f.active.first)
    BY <1>9, <2>1
  <2>4. Older(f.active.first) <= Older(s[i].last)
    BY <1>7, <2>2, <2>3, OlderOrder
  <2>5. Older(s[i].last) \in Nat /\ Older(f.active.first) \in Nat
    BY <1>7, <2>3, OlderIs
  <2> QED
    BY <1>6, <2>3, <2>4, <2>5
<1>14. Sane(g)
  <2>1. Sound(b) /\ b.size = f.active.size
    BY <1>9, <1>10
  <2>2. Total(t) + b.size <= MaxTotal
    BY <1>8, <2>1 DEF Sane, s
  <2>3. \A i \in 1..N : Sound(t[i])
    BY <1>6 DEF Sane, s, N
  <2> QED
    BY <1>3, <1>5, <1>11, <1>12, <1>13, <2>1, <2>2, <2>3 DEF Sane
<1>15. ASSUME NEW d \in Int, Live(f, d) PROVE Live(g, d - 1)
  <2>1. /\ f.active # NoFile /\ f.active.first <= f.opened /\ f.opened + d <= RotateAfter - 1 + Interval
        /\ Total(s) <= Budget /\ N <= MaxSegments
    BY <1>15 DEF Live, s, N
  <2>2. b # NoFile /\ b.first = Older(f.active.first) /\ f.active.first \in Nat
    BY <1>9, <2>1
  <2>3. b.first <= g.opened
    BY <1>1, <1>3, <2>1, <2>2, OlderOrder
  <2>4. g.opened + (d - 1) <= RotateAfter - 1 + Interval
    <3>1. Older(f.opened) \in Nat /\ Older(f.opened) <= f.opened + 1
      BY <1>1, OlderIs
    <3> QED
      BY <1>1, <1>3, <2>1, <3>1, LimitFacts
  <2>5. ASSUME NEW i \in 1..N PROVE t[i].last + (d - 1) <= Retention - 1 + Interval
    <3> DEFINE old == s[i].last
               new == t[i].last
    <3>1. old + d <= Retention - 1 + Interval
      BY <1>15 DEF Live, s, N
    <3>2. old \in Nat /\ new \in Nat /\ new <= old + 1
      BY <1>6, <1>7, OlderIs
    <3> HIDE DEF old, new
    <3>3. new + (d - 1) <= Retention - 1 + Interval
      BY <3>1, <3>2, LimitFacts
    <3> QED
      BY <3>3 DEF new
  <2> QED
    BY <1>3, <1>5, <1>8, <2>1, <2>2, <2>3, <2>4, <2>5 DEF Live
<1> QED
  BY <1>3, <1>9, <1>10, <1>14, <1>15

--------------------------------------------------------------------------------
(* The actions, and the theorems.                                            *)

\* What a step owes to the files of f.
Kept(f, g) ==
    /\ SparesWorth(f, g)
    /\ f.active.size \in 1..Budget /\ f.active.last < Retention =>
          Holds(g, f.active) \/ (g.active.first = f.active.first /\ g.active.size >= f.active.size)

LEMMA SparedIsKept ==
  ASSUME NEW f, NEW g, SparesWorth(f, g), SparesActive(f, g) \/ g.active = f.active, f.active.size \in Nat
  PROVE  Kept(f, g)
BY DEF Kept, SparesActive

\* The invariant holds of the empty directory, and every step keeps it.
LEMMA InitHolds == Init => IInv
<1>1. SUFFICES ASSUME Init PROVE IInv
  OBVIOUS
<1>2. files = [active |-> NoFile, archives |-> <<>>, opened |-> 0] /\ running = FALSE /\ due = Interval
  BY <1>1 DEF Init
<1>3. <<>> \in Seq(FileRecord) /\ Len(<<>>) = 0
  OBVIOUS
<1>4. files.active = NoFile /\ files.archives = <<>> /\ NoFile.size = 0
  BY <1>2 DEF NoFile
<1>5. files \in Dir
  BY <1>2, <1>3 DEF Dir
<1>6. Sound(files.active)
  BY <1>4, LimitFacts DEF Sound
<1>7. Ordered(files.archives)
  BY <1>3, <1>4 DEF Ordered
<1>8. Total(files.archives) + files.active.size <= MaxTotal
  BY <1>4, TotalOfNone, LimitFacts
<1>9. Sane(files)
  BY <1>3, <1>4, <1>5, <1>6, <1>7, <1>8 DEF Sane
<1>10. due \in Int /\ -Late <= due /\ due <= Interval
  BY <1>2, LimitFacts
<1>11. running \in BOOLEAN /\ ~running
  BY <1>2
<1> QED
  BY <1>9, <1>10, <1>11, Zenon DEF IInv

LEMMA StartKeeps ==
  ASSUME IInv, Start
  PROVE  IInv' /\ Kept(files, files')
<1>1. Sane(files) /\ files' = Enter(files) /\ running' = TRUE /\ due' = Interval
  BY DEF IInv, Start
<1>2. Sane(files') /\ Live(files', Interval) /\ SparesWorth(files, files') /\ SparesActive(files, files')
  BY <1>1, EnterKeeps
<1>3. files.active.size \in Nat
  BY <1>1, ActiveTyped
<1> QED
  BY <1>1, <1>2, <1>3, SparedIsKept, LimitFacts DEF IInv

LEMMA WriteKeeps ==
  ASSUME IInv, Write
  PROVE  IInv' /\ Kept(files, files')
<1> DEFINE f == MakeRoom(files)
<1>1. /\ Sane(files) /\ running /\ Live(files, due) /\ due \in Int /\ -Late <= due /\ due <= Interval
      /\ running \in BOOLEAN /\ running' = running /\ due' = due
  BY DEF IInv, Write
<1>2. files' = Written(f)
  BY Zenon DEF Write, Written
<1>3. /\ Sane(f) /\ Live(f, due) /\ SparesWorth(files, f) /\ f.active.size < MaxFile
      /\ f = files \/ SparesActive(files, f)
  BY <1>1, MakeRoomKeeps
<1> HIDE DEF f
<1>4. /\ Sane(files') /\ Live(files', due) /\ files'.archives = f.archives
      /\ files'.active.size = f.active.size + 1
      /\ (f.active.size > 0 => files'.active.first = f.active.first)
  BY <1>1, <1>2, <1>3, WrittenKeeps
<1>5. files.active.size \in Nat /\ f.active.size \in Nat
  BY <1>1, <1>3, ActiveTyped
<1>6. SparesWorth(files, files')
  BY <1>3, <1>4, Zenon DEF SparesWorth, Holds
<1>7. ASSUME files.active.size \in 1..Budget, files.active.last < Retention
      PROVE  \/ Holds(files', files.active)
             \/ files'.active.first = files.active.first /\ files'.active.size >= files.active.size
  <2>1. CASE f = files
    <3>1. files.active.size > 0
      BY <1>7
    <3> QED
      BY <1>4, <1>5, <2>1, <3>1
  <2>2. CASE SparesActive(files, f)
    BY <1>4, <1>7, <2>2, Zenon DEF SparesActive, Holds
  <2> QED
    BY <1>3, <2>1, <2>2
<1>8. Kept(files, files')
  BY <1>6, <1>7 DEF Kept
<1> QED
  BY <1>1, <1>4, <1>8 DEF IInv

LEMMA CheckKeeps ==
  ASSUME IInv, Check
  PROVE  IInv' /\ Kept(files, files')
<1>1. /\ Sane(files) /\ running /\ Live(files, due) /\ running \in BOOLEAN /\ running' = running
      /\ files' = Maintain(files) /\ due' = Interval
  BY DEF IInv, Check
<1>2. files.active # NoFile /\ files.active.first <= files.opened
  BY <1>1 DEF Live
<1>3. Interval \in Int /\ Interval <= Interval
  BY LimitFacts
<1>4. /\ Sane(files') /\ Live(files', Interval) /\ SparesWorth(files, files')
      /\ files'.active = files.active \/ SparesActive(files, files')
  BY <1>1, <1>2, <1>3, MaintainKeeps
<1>5. files.active.size \in Nat
  BY <1>1, ActiveTyped
<1>6. Kept(files, files')
  BY <1>4, <1>5, SparedIsKept
<1> QED
  BY <1>1, <1>4, <1>6, LimitFacts DEF IInv

LEMMA FinishKeeps ==
  ASSUME IInv, Finish
  PROVE  IInv' /\ Kept(files, files')
<1>1. files' = files /\ running' = FALSE /\ due' = due
  BY DEF Finish
<1>2. SparesWorth(files, files)
  BY Zenon DEF SparesWorth, Holds
<1>3. files.active.size \in Nat
  BY ActiveTyped DEF IInv
<1>4. Kept(files, files')
  BY <1>1, <1>2, <1>3, SparedIsKept
<1> QED
  BY <1>1, <1>4 DEF IInv

\* A rotation that is cut short anywhere.
LEMMA PartlyKeeps ==
  ASSUME NEW f, Sane(f), f.active # NoFile, NEW g \in Partly(f)
  PROVE  Sane(g) /\ Kept(f, g)
<1> DEFINE o == Open(Archive(f))
<1>1. f.active.size \in Nat
  BY ActiveTyped
<1>2. CASE g = Archive(f)
  <2>1. Sane(g) /\ SparesWorth(f, g) /\ Holds(g, f.active)
    BY <1>2, ArchiveKeeps
  <2> QED
    BY <2>1 DEF Kept
<1>3. ASSUME NEW n \in 0..Len(o.archives), g = Trimmed(o, n)
      PROVE  Sane(g) /\ Kept(f, g)
  <2>1. Sane(g) /\ SparesWorth(f, g) /\ SparesActive(f, g)
    BY <1>3, RotateKeeps
  <2> QED
    BY <1>1, <2>1, SparedIsKept
<1>4. g = Archive(f) \/ \E n \in 0..Len(o.archives) : g = Trimmed(o, n)
  BY Zenon DEF Partly, Trimmed
<1> QED
  BY <1>2, <1>3, <1>4, Zenon

\* A check that is cut short.
LEMMA TrimIsKept ==
  ASSUME NEW f, Sane(f), NEW n \in 0..Len(f.archives), NEW g, g = Trimmed(f, n)
  PROVE  Sane(g) /\ Kept(f, g)
<1>1. Sane(g) /\ SparesWorth(f, g) /\ g.active = f.active
  BY TrimKeeps
<1>2. f.active.size \in Nat
  BY ActiveTyped
<1> QED
  BY <1>1, <1>2, SparedIsKept

LEMMA CrashKeeps ==
  ASSUME IInv, Crash
  PROVE  IInv' /\ Kept(files, files')
<1>1. Sane(files) /\ files.active # NoFile
  BY DEF IInv, Crash, Live
<1>2. running' = FALSE /\ due' = due
  BY DEF Crash
<1>3. CASE files' \in Partly(files)
  BY <1>1, <1>2, <1>3, PartlyKeeps DEF IInv
<1>4. ASSUME NEW n \in 0..Len(files.archives), files' = Trimmed(files, n)
      PROVE  IInv' /\ Kept(files, files')
  BY <1>1, <1>2, <1>4, TrimIsKept DEF IInv
<1>5. files' \in Partly(files) \/ \E n \in 0..Len(files.archives) : files' = Trimmed(files, n)
  BY Zenon DEF Crash, Trimmed
<1> QED
  BY <1>3, <1>4, <1>5, Zenon

LEMMA CrashAtStartKeeps ==
  ASSUME IInv, CrashAtStart
  PROVE  IInv' /\ Kept(files, files')
<1>1. Sane(files) /\ ~running
  BY DEF IInv, CrashAtStart
<1>2. running' = running /\ due' = due
  BY DEF CrashAtStart
<1>3. CASE files.active = NoFile
  <2> DEFINE o == Open(files)
  <2>1. Sane(o) /\ o.archives = files.archives /\ o.active.size = 0 /\ files.active.size = 0
    BY <1>1, <1>3, OpenKeeps
  <2>2. PICK n \in 0..Len(files.archives) : files' = Trimmed(o, n)
    BY <1>3, Zenon DEF CrashAtStart, Trimmed
  <2> HIDE DEF o
  <2>3. Sane(files') /\ SparesWorth(o, files')
    BY <2>1, <2>2, TrimKeeps
  <2>4. SparesWorth(files, files')
    BY <2>1, <2>3, SameWorth
  <2>5. Kept(files, files')
    BY <2>1, <2>4, LimitFacts DEF Kept
  <2> QED
    BY <1>1, <1>2, <2>3, <2>5 DEF IInv
<1>4. CASE files.active # NoFile
  <2>1. files' \in Partly(files)
    BY <1>4, Zenon DEF CrashAtStart
  <2>2. Sane(files') /\ Kept(files, files')
    BY <1>1, <1>4, <2>1, PartlyKeeps
  <2> QED
    BY <1>1, <1>2, <2>2 DEF IInv
<1> QED
  BY <1>3, <1>4

LEMMA TickKeeps ==
  ASSUME IInv, Tick
  PROVE  IInv'
<1>1. /\ Sane(files) /\ running \in BOOLEAN /\ due \in Int /\ -Late <= due /\ due <= Interval
      /\ (running => Live(files, due))
  BY DEF IInv
<1>2. /\ (running => due > -Late) /\ running' = running /\ due' = IF running THEN due - 1 ELSE due
      /\ files' = Aged(files)
  BY Zenon DEF Tick, Aged
<1>3. Sane(files') /\ \A d \in Int : Live(files, d) => Live(files', d - 1)
  BY <1>1, <1>2, AgedKeeps
<1>4. CASE running
  BY <1>1, <1>2, <1>3, <1>4, LimitFacts DEF IInv
<1>5. CASE ~running
  BY <1>1, <1>2, <1>3, <1>5 DEF IInv
<1> QED
  BY <1>4, <1>5

LEMMA StepKeeps ==
  ASSUME IInv, [Next]_vars
  PROVE  IInv' /\ (Next => Tick \/ Kept(files, files'))
<1>1. CASE Start
  BY <1>1, StartKeeps
<1>2. CASE Write
  BY <1>2, WriteKeeps
<1>3. CASE Check
  BY <1>3, CheckKeeps
<1>4. CASE Finish
  BY <1>4, FinishKeeps
<1>5. CASE Crash
  BY <1>5, CrashKeeps
<1>6. CASE CrashAtStart
  BY <1>6, CrashAtStartKeeps
<1>7. CASE Tick
  BY <1>7, TickKeeps
<1>8. CASE UNCHANGED vars /\ ~Next
  BY <1>8 DEF IInv, vars
<1> QED
  BY <1>1, <1>2, <1>3, <1>4, <1>5, <1>6, <1>7, <1>8 DEF Next

\* The inductive invariant.
THEOREM CaptureSound == Spec => []IInv
<1>1. Init => IInv
  BY InitHolds
<1>2. IInv /\ [Next]_vars => IInv'
  BY StepKeeps
<1> QED
  BY <1>1, <1>2, PTL DEF Spec

\* The sizes, the number, the total and the age of what CaptureSink keeps never exceed
\* their limits, for every value of the limits and wherever a rotation is cut short.
THEOREM LimitsAlways == Spec => []LimitsKept
<1>1. IInv => LimitsKept
  <2>1. SUFFICES ASSUME IInv PROVE LimitsKept
    OBVIOUS
  <2>2. Sane(files)
    BY <2>1 DEF IInv
  <2>3. /\ files.archives \in Seq(FileRecord) /\ files.active.size \in Nat /\ files.opened \in Nat
        /\ (files.active # NoFile => files.active \in FileRecord)
    BY <2>2, ActiveTyped
  <2>4. \A a \in Files(files) : a = files.active \/ \E i \in 1..Len(files.archives) : a = files.archives[i]
    BY <2>3 DEF Files, Range
  <2>5. \A a \in Files(files) : Sound(a)
    BY <2>2, <2>4, Zenon DEF Sane
  <2>6. TotalBounded
    BY <2>2 DEF Sane, TotalBounded
  <2>7. SegmentsBounded
    BY <2>1 DEF IInv, Live, SegmentsBounded
  <2>8. AgeBounded
    <3>1. SUFFICES ASSUME running, NEW a \in Files(files), a.size > 0
                   PROVE  a.first < Retention + RotateAfter + 2 * (Interval + Late)
      BY DEF AgeBounded
    <3>2. Live(files, due) /\ due \in Int /\ -Late <= due
      BY <2>1, <3>1 DEF IInv
    <3>3. CASE a = files.active
      <4>1. /\ a \in FileRecord /\ a.first <= files.opened /\ files.opened + due <= RotateAfter - 1 + Interval
        BY <2>3, <3>2, <3>3 DEF Live
      <4>2. a.first \in Nat
        BY <4>1 DEF FileRecord
      <4> QED
        BY <2>3, <3>2, <4>1, <4>2, LimitFacts
    <3>4. ASSUME NEW i \in 1..Len(files.archives), a = files.archives[i]
          PROVE  a.first < Retention + RotateAfter + 2 * (Interval + Late)
      <4>1. a \in FileRecord /\ a.last + due <= Retention - 1 + Interval
        BY <2>3, <3>2, <3>4 DEF Live
      <4>2. a.first \in Nat /\ a.last \in Nat
        BY <4>1 DEF FileRecord
      <4>3. a.first <= a.last + Span
        BY <2>5, <3>1 DEF Sound
      <4> QED
        BY <3>2, <4>1, <4>2, <4>3, LimitFacts
    <3> QED
      BY <2>4, <3>3, <3>4
  <2> QED
    BY <2>5, <2>6, <2>7, <2>8 DEF LimitsKept, Sound
<1> QED
  BY <1>1, CaptureSound, PTL

\* The archives are always in the order they were written, the active file last.
THEOREM OrderAlways == Spec => []InOrder
<1>1. IInv => InOrder
  <2>1. SUFFICES ASSUME IInv PROVE InOrder
    OBVIOUS
  <2>2. Sane(files)
    BY <2>1 DEF IInv
  <2> DEFINE s == files.archives
             t == Append(s, files.active)
  <2>3. /\ s \in Seq(FileRecord) /\ DOMAIN s = 1..Len(s) /\ Len(s) \in Nat
        /\ (files.active # NoFile => files.active \in FileRecord)
    BY <2>2, ActiveTyped
  <2>4. Ordered(s)
    BY <2>2 DEF Sane
  <2>5. CASE files.active = NoFile
    BY <2>3, <2>4, <2>5 DEF InOrder, Ordered
  <2>6. CASE files.active # NoFile
    <3>1. /\ Len(t) = Len(s) + 1 /\ DOMAIN t = 1..Len(t) /\ t[Len(s) + 1] = files.active
          /\ \A i \in 1..Len(s) : t[i] = s[i]
      BY <2>3, <2>6
    <3>2. \A i \in 1..Len(s) : s[i].last >= files.active.first
      BY <2>2, <2>6 DEF Sane
    <3> HIDE DEF t
    <3>3. ASSUME NEW i \in 1..Len(t), NEW j \in 1..Len(t), i < j PROVE t[i].last >= t[j].first
      <4> HIDE DEF s
      <4>1. i \in 1..Len(s) /\ t[i] = s[i]
        BY <2>3, <3>1, <3>3
      <4>2. CASE j = Len(s) + 1
        BY <3>1, <3>2, <4>1, <4>2 DEF s
      <4>3. CASE j # Len(s) + 1
        <5>1. j \in 1..Len(s) /\ t[j] = s[j]
          BY <2>3, <3>1, <4>3
        <5> QED
          BY <2>4, <3>3, <4>1, <5>1 DEF Ordered
      <4> QED
        BY <4>2, <4>3
    <3>4. \A i, j \in DOMAIN t : i < j => t[i].last >= t[j].first
      BY <3>1, <3>3
    <3> QED
      BY <2>6, <3>4, Zenon DEF InOrder, t
  <2> QED
    BY <2>5, <2>6
<1> QED
  BY <1>1, CaptureSound, PTL

\* No rotation, check, start or crash drops an archive worth keeping or what is in the
\* active file, whatever the limits are.
THEOREM NothingIsLost == Spec => NothingLost
<1>1. ASSUME IInv, [Next]_vars
      PROVE  [\/ Tick
              \/ /\ \A i \in DOMAIN files.archives : Worth(i) => files.archives[i] \in Range(files'.archives)
                 /\ \/ files.active.size \notin 1..Budget
                    \/ files.active.last >= Retention
                    \/ \E a \in Files(files') :
                          a.first = files.active.first /\ a.size >= files.active.size]_vars
  <2>1. SUFFICES ASSUME Next, ~Tick, Kept(files, files')
                 PROVE  /\ \A i \in DOMAIN files.archives : Worth(i) => files.archives[i] \in Range(files'.archives)
                        /\ \/ files.active.size \notin 1..Budget
                           \/ files.active.last >= Retention
                           \/ \E a \in Files(files') :
                                 a.first = files.active.first /\ a.size >= files.active.size
    BY <1>1, StepKeeps
  <2>2. Sane(files) /\ Sane(files')
    BY <1>1, StepKeeps DEF IInv
  <2>3. files.archives \in Seq(FileRecord) /\ DOMAIN files.archives = 1..Len(files.archives)
    BY <2>2, ActiveTyped
  <2>4. files'.archives \in Seq(FileRecord) /\ DOMAIN files'.archives = 1..Len(files'.archives)
    BY <2>2, ActiveTyped
  <2>5. \A a : Holds(files', a) => a \in Range(files'.archives)
    BY <2>4 DEF Holds, Range
  <2>6. ASSUME NEW i \in DOMAIN files.archives, Worth(i) PROVE files.archives[i] \in Range(files'.archives)
    <3>1. WorthIn(files, i)
      BY <2>6, Zenon DEF Worth, WorthIn
    <3> QED
      BY <2>1, <2>3, <2>5, <3>1 DEF Kept, SparesWorth
  <2>7. ASSUME files.active.size \in 1..Budget, ~(files.active.last >= Retention)
        PROVE  \E a \in Files(files') : a.first = files.active.first /\ a.size >= files.active.size
    <3>1. files.active.last < Retention
      <4>1. files.active # NoFile
        BY <2>7 DEF NoFile
      <4>2. files.active.last \in Nat
        BY <2>2, <4>1, ActiveTyped DEF FileRecord
      <4> QED
        BY <2>7, <4>2, LimitFacts
    <3>2. CASE Holds(files', files.active)
      <4>1. files.active \in Files(files')
        BY <2>5, <3>2 DEF Files
      <4>2. files.active.size \in Nat
        BY <2>2, ActiveTyped
      <4> QED
        BY <4>1, <4>2
    <3>3. CASE files'.active.first = files.active.first /\ files'.active.size >= files.active.size
      BY <3>3 DEF Files
    <3> QED
      BY <2>1, <2>7, <3>1, <3>2, <3>3 DEF Kept
  <2> QED
    BY <2>6, <2>7
<1> QED
  BY <1>1, CaptureSound, PTL DEF Spec, NothingLost
================================================================================
